---------------------------- MODULE AnalysisRoute ----------------------------
(***************************************************************************)
(* The analysis service: the POST handler of src/app/api/analyze/route.ts  *)
(* for several requests at once, with the request guard and the vision     *)
(* provider it calls.  A handler takes a permit, reads the body, asks the  *)
(* observers (primary, and the scout beside it when it is enabled), has    *)
(* the candidates verified by one model or two, builds the report, and     *)
(* gives the permit back whatever happened.                                *)
(*                                                                         *)
(* Checks that end a request before it takes a permit (service disabled or *)
(* not configured, origin) change nothing and are left out.                *)
(***************************************************************************)
EXTENDS RequestGuard, VisionProvider

CONSTANTS
  Requests,      \* the requests that may arrive, numbered in that order
  Loads,         \* what may arrive: [requests, callers, modes, runtimes,
                 \*   primaries, scouts, batches], each a set, and last, the
                 \*   bound on now
  LastTime       \* the largest of those bounds

\* The requests are finitely many; a load keeps to the constants, and its answers to
\* the forms that the provider's schemas let through.
ASSUME LoadAssumption ==
  /\ IsFiniteSet(Requests) /\ Requests \subseteq Nat /\ LastTime \in Nat
  /\ \A l \in Loads :
       /\ l.requests \subseteq Requests /\ l.callers \subseteq Addresses
       /\ l.last \in 0..LastTime
       /\ \A a \in l.primaries : a \in Primaries \/ a \in Failures
       /\ \A a \in l.scouts : a \in Scouts \/ a \in Failures
       /\ \A a \in l.batches :
            \/ a \in Failures
            \/ a.kind = "batch" /\ a.says \in [DOMAIN a.says -> Verdicts]

VARIABLES
  load,          \* the load of this behaviour
  runtime,       \* getVisionRuntime: [provider, scout, verify]
  handlers       \* the handlers, by request

vars == <<now, guard, load, runtime, handlers>>

NoAnswer == [kind |-> "none"]
Off == [kind |-> "off"]

NotArrived == [pc |-> "idle"]

\* What a handler knows once it holds a permit.
Admitted(address, mode) ==
  [pc |-> "body", address |-> address, mode |-> mode, at |-> now,
   primary |-> NoAnswer, scout |-> NoAnswer, fast |-> NoAnswer, plus |-> NoAnswer,
   outcome |-> NoAnswer]

Holding(r) == handlers[r].pc \in {"body", "observing", "verifying"}

Become(r, h) == handlers' = [handlers EXCEPT ![r] = h]

\* The finally block: every way out of a handler that holds a permit.
Finish(r, h, outcome) ==
  /\ Become(r, [h EXCEPT !.pc = "done", !.outcome = outcome])
  /\ Release

Failed == [kind |-> "error"]

Reported(h, analysis, verdicts) ==
  [kind |-> "report", report |-> Report(analysis, verdicts, h.mode)]

\* acquireAnalysisPermit
Arrive(r, address, mode) ==
  /\ handlers[r] = NotArrived
  /\ \/ Acquire(address) /\ Become(r, Admitted(address, mode))
     \/ Refuse(address) /\ Become(r, [pc |-> "refused"])
  /\ UNCHANGED <<now, load, runtime>>

\* The body was read, its mode and its two photos accepted: the observers'
\* requests leave together.  An inventory has no scout.
BodyAccepted(r) ==
  /\ handlers[r].pc = "body"
  /\ Become(r, [handlers[r] EXCEPT !.pc = "observing",
       !.scout = IF runtime.scout /\ handlers[r].mode # "inventory" THEN NoAnswer ELSE Off])
  /\ UNCHANGED <<now, guard, load, runtime>>

\* Too large, aborted, malformed, an invalid mode or photo.
BodyRefused(r) ==
  /\ handlers[r].pc = "body"
  /\ Finish(r, handlers[r], Failed)
  /\ UNCHANGED <<now, load, runtime>>

\* An observer answers, in either order.
PrimaryAnswers(r, answer) ==
  /\ handlers[r].pc = "observing" /\ handlers[r].primary = NoAnswer
  /\ Become(r, [handlers[r] EXCEPT !.primary = answer])
  /\ UNCHANGED <<now, guard, load, runtime>>

ScoutAnswers(r, answer) ==
  /\ handlers[r].pc = "observing" /\ handlers[r].scout = NoAnswer
  /\ Become(r, [handlers[r] EXCEPT !.scout = answer])
  /\ UNCHANGED <<now, guard, load, runtime>>

Analysis(h) == Observed(runtime.provider, h.primary, h.scout)

\* With the scout the verifier runs in mode off, whatever the setting.
VerifyMode(h) == IF h.scout # Off THEN "off" ELSE runtime.verify

\* Mutant: a primary that failed is awaited like one that has not answered.
ObserveAnswered(r) ==
  LET h == handlers[r]
  IN /\ h.pc = "observing" /\ h.primary.kind \in {"analysis", "invalid"} /\ h.scout # NoAnswer
     /\ IF h.primary.kind # "analysis" THEN Finish(r, h, Failed)
        ELSE IF Candidates(Analysis(h)) = {} \/ (runtime.provider = "qwen" /\ h.primary.clash)
        THEN Finish(r, h, Reported(h, Analysis(h), Unverified))
        ELSE Become(r, [h EXCEPT !.pc = "verifying"]) /\ UNCHANGED guard
     /\ UNCHANGED <<now, load, runtime>>

\* Both observers are back.  A primary that failed ends the request; without
\* candidates, or with candidates that make no batch, the report follows at
\* once; otherwise verifyMissingCandidates asks its first model.
Observe(r) ==
  LET h == handlers[r]
  IN /\ h.pc = "observing" /\ h.primary # NoAnswer /\ h.scout # NoAnswer
     /\ IF h.primary.kind # "analysis" THEN Finish(r, h, Failed)
        ELSE IF Candidates(Analysis(h)) = {} \/ (runtime.provider = "qwen" /\ h.primary.clash)
        THEN Finish(r, h, Reported(h, Analysis(h), Unverified))
        ELSE Become(r, [h EXCEPT !.pc = "verifying"]) /\ UNCHANGED guard
     /\ UNCHANGED <<now, load, runtime>>

\* runQwenVerificationPolicy in active mode needs no second model.
FastSuffices(h) ==
  VerifyMode(h) = "active" /\ FastDecides(Candidates(Analysis(h)), h.fast)

\* The fast tier answers first, in shadow mode and in active mode.
FastAnswers(r, answer) ==
  LET h == [handlers[r] EXCEPT !.fast = answer]
  IN /\ handlers[r].pc = "verifying" /\ handlers[r].fast = NoAnswer
     /\ runtime.provider = "qwen" /\ VerifyMode(handlers[r]) \in {"shadow", "active"}
     /\ IF FastSuffices(h)
        THEN Finish(r, h, Reported(h, Analysis(h), answer.says))
        ELSE Become(r, h) /\ UNCHANGED guard
     /\ UNCHANGED <<now, load, runtime>>

\* The deciding model answers.  Its error is a verdict to the policy; in mode
\* off, and with the other provider, it ends the request.
PlusAnswers(r, answer) ==
  LET h == [handlers[r] EXCEPT !.plus = answer]
      asksFast == runtime.provider = "qwen" /\ VerifyMode(handlers[r]) # "off"
  IN /\ handlers[r].pc = "verifying"
     /\ asksFast => handlers[r].fast # NoAnswer
     /\ IF answer.kind = "error" /\ ~asksFast
        THEN Finish(r, h, Failed)
        ELSE Finish(r, h, Reported(h, Analysis(h),
               Verified(runtime.provider, Candidates(Analysis(h)), answer)))
     /\ UNCHANGED <<now, load, runtime>>

Tick ==
  /\ now < load.last
  /\ now' = now + 1
  /\ UNCHANGED <<guard, load, runtime, handlers>>

Init ==
  /\ GuardInit
  /\ load \in Loads
  /\ runtime \in load.runtimes
  /\ handlers = [r \in Requests |-> NotArrived]

ReadBody(r) == BodyAccepted(r) \/ BodyRefused(r)

Working(r) == handlers[r].pc \in {"observing", "verifying"}

Work(r) ==
  /\ Working(r)
  /\ \/ \E answer \in load.primaries : PrimaryAnswers(r, answer)
     \/ \E answer \in load.scouts : ScoutAnswers(r, answer)
     \/ Observe(r)
     \/ \E answer \in load.batches : FastAnswers(r, answer) \/ PlusAnswers(r, answer)

NextRequest(r) ==
  r \in load.requests /\ \A q \in load.requests : handlers[q] = NotArrived => r <= q

Next ==
  \/ \E r \in Requests, address \in load.callers, mode \in load.modes :
       NextRequest(r) /\ Arrive(r, address, mode)
  \/ \E r \in load.requests : ReadBody(r) \/ Work(r)
  \/ Tick

\* Every call to a model has a timeout, so a handler that has its photos goes
\* on; nothing bounds how long a caller takes to send its body.
Spec == Init /\ [][Next]_vars /\ \A r \in Requests : WF_vars(Work(r))

------------------------------------------------------------------------------
Holders == {r \in Requests : Holding(r)}

AdmittedBetween(address, first, last) ==
  {r \in Requests : /\ handlers[r].pc \notin {"idle", "refused"}
                    /\ handlers[r].address = address
                    /\ handlers[r].at \in first..last}

\* The active count is the number of handlers at work, never above its limit,
\* midnight or not; a day admits no more than its limit; and in any stretch of
\* one window's length a client gets less than three limits: what is left of a
\* window, a whole one, and the one that midnight opens anew.
RequestsAreBounded ==
  /\ guard.active = Cardinality(Holders)
  /\ guard.active <= ConcurrentLimit
  /\ \A d \in 0..(LastTime \div DayLength) :
       Cardinality(UNION {AdmittedBetween(a, d * DayLength, (d + 1) * DayLength - 1)
                            : a \in Addresses}) <= DailyLimit
  /\ \A a \in Addresses, t \in 0..LastTime :
       Cardinality(AdmittedBetween(a, t, t + WindowLength - 1)) < 3 * ClientLimit

Delivered(r) == handlers[r].pc = "done" /\ handlers[r].outcome.kind = "report"

RaisedBy(h, o) ==
  \/ h.primary.raised[o] # "none"
  \/ h.scout.kind = "scout" /\ o \in h.scout.found

Says(answer, candidates, o) ==
  IF BatchHolds(candidates, answer, FALSE) THEN answer.says[o] ELSE "nothing"

\* With Qwen, an object reported missing was raised by an observer and found
\* missing for certain by a verifier, and no valid answer of the deciding
\* model says otherwise; and nothing else about a candidate is reported, or
\* left out, on the fast tier's word.
MissingIsVerified ==
  \A r \in Requests : Delivered(r) /\ runtime.provider = "qwen" =>
    LET h == handlers[r]
        candidates == Candidates(Analysis(h))
    IN \A o \in Objects :
         /\ h.outcome.report.items[o] = "missing" =>
              /\ RaisedBy(h, o)
              /\ "missing" \in {Says(h.fast, candidates, o), Says(h.plus, candidates, o)}
              /\ Says(h.plus, candidates, o) \in {"missing", "nothing"}
         /\ o \in candidates /\ h.outcome.report.items[o] \in {"none", "misplaced"} =>
              Says(h.plus, candidates, o) \in {"same", "elsewhere"}

\* A clear report outside an inventory means that the photos were comparable,
\* the scout, where enabled, came back usable, and everything either observer
\* raised was seen in its place for certain by the deciding model.
ClearIsEarned ==
  \A r \in Requests : Delivered(r) =>
    LET h == handlers[r]
    IN h.outcome.report.status = "clear" =>
         /\ h.primary.whole /\ ~h.primary.blocking
         /\ h.scout # Off => h.scout.kind = "scout" /\ h.scout.usable /\ ~h.scout.hidden
         /\ \A o \in Objects : RaisedBy(h, o) =>
              \/ h.plus.kind = "batch" /\ o \in DOMAIN h.plus.says /\ h.plus.says[o] = "same"
              \/ h.mode = "inventory" /\ h.outcome.report.items[o] \in {"missing", "misplaced"}

ReportsAreEarned == MissingIsVerified /\ ClearIsEarned

\* A handler that went to the models gives its permit back, whatever they
\* answer and in whatever order.
PermitsReturn == \A r \in Requests : Working(r) ~> ~Holding(r)
==============================================================================
