----------------------------- MODULE MvtecPilot ------------------------------
(***************************************************************************)
(* The MVTec pilot, src/scripts/run-qwen-mvtec-pilot.mjs in its --execute  *)
(* mode: one call at a time, each reserved inside the fetch, just before   *)
(* it leaves, and settled before its answer is handed back.  A case whose  *)
(* calls settled without a result may be tried a second time, under a      *)
(* flag.  The files, the deaths and the rule of one process at a time are  *)
(* those of AdaptivePilot.                                                 *)
(***************************************************************************)
EXTENDS TokenBudget

CONSTANTS
  Cases,        \* the manifest's cases, in order
  Uses,         \* what a call may really consume
  BatchSizes    \* values of --max-cases

VARIABLES
  ledger,       \* token-ledger.jsonl
  results,      \* results.jsonl
  proc,         \* the running process, or Dead
  sent,         \* how often each call left
  used          \* what each call that left consumed

vars == <<ledger, results, proc, sent, used>>

Dead == [pc |-> "dead"]
NoResults == [rows |-> {}, torn |-> FALSE]

Completed == {row.case : row \in results.rows}
SafetyStopped == \E row \in results.rows : row.stop

StartAllowed ==
  /\ ~results.torn /\ ~ledger.torn
  /\ PilotSummaryHolds(ledger)
  /\ Pending(ledger) = {}
  /\ ~SafetyStopped

Start(size, retry) ==
  /\ proc = Dead
  /\ StartAllowed
  /\ LET open == {i \in DOMAIN Cases : Cases[i] \notin Completed}
     IN proc' = [pc |-> "next", retry |-> retry,
                 todo |-> {i \in open : Cardinality({j \in open : j < i}) < size}]
  /\ UNCHANGED <<ledger, results, sent, used>>

\* The case at hand: `todo` holds the places of this batch's cases, in order.
Case == Cases[Min(proc.todo)]

Attempts == {c.attempt : c \in {d \in ledger.reserved : d.case = Case}}
NextAttempt == IF Attempts = {} THEN 1 ELSE Max(Attempts) + 1

BeginCase ==
  /\ proc.pc = "next" /\ proc.todo # {}
  /\ NextAttempt > 1 => proc.retry
  /\ proc' = [pc |-> "call", todo |-> proc.todo, retry |-> proc.retry,
              attempt |-> NextAttempt, records |-> <<>>, asked |-> "primary",
              flying |-> FALSE]
  /\ UNCHANGED <<ledger, results, sent, used>>

\* A second attempt needs --allow-settled-case-retry.
RefuseRetry ==
  /\ proc.pc = "next" /\ proc.todo # {}
  /\ NextAttempt > 1 /\ ~proc.retry
  /\ proc' = Dead
  /\ UNCHANGED <<ledger, results, sent, used>>

Asked == Call(Case, proc.attempt, proc.asked)

\* The fetch lets through the slot that follows the calls it has settled, and
\* only when the ledger takes the reservation.
Passes ==
  /\ proc.asked = PilotOrder[Len(proc.records) + 1]
  /\ ReservationAllowed(ledger, Asked)

Send ==
  /\ proc.pc = "call" /\ ~proc.flying
  /\ Passes
  /\ ledger' = Reserving(ledger, {Asked})
  /\ sent' = [sent EXCEPT ![Asked] = @ + 1]
  /\ \E n \in Uses : used' = [used EXCEPT ![Asked] = @ + n]
  /\ proc' = [proc EXCEPT !.flying = TRUE]
  /\ UNCHANGED results

\* What follows a settled call is the provider's content: a primary without
\* candidates decides the case, one with candidates is put to flash and then
\* to plus, in shadow mode whatever flash said; an answer the code cannot use
\* ends the process.
After(slot) ==
  CASE slot = "primary" -> {"flash", "result", "dead"}
    [] slot = "flash" -> {"plus"}
    [] slot = "plus" -> {"result", "dead"}

Continue(p, next) ==
  CASE next = "dead" -> Dead
    [] next = "result" -> [pc |-> "result", todo |-> p.todo, retry |-> p.retry]
    [] OTHER -> [p EXCEPT !.asked = next]

Settle ==
  /\ proc.pc = "call" /\ proc.flying
  /\ PilotSettleAllowed(ledger, Asked, used[Asked])
  /\ ledger' = Settling(ledger, Asked, used[Asked])
  /\ \E next \in After(proc.asked) :
       proc' = Continue([proc EXCEPT !.flying = FALSE,
                                     !.records = Append(@, proc.asked)], next)
  /\ UNCHANGED <<results, sent, used>>

\* The fetch rejects: it was not let through, or it left and its answer is
\* missing or unusable.  The verification policy catches a flash failure and
\* asks plus all the same; the others throw out of runCase, and so does the
\* call contract after plus.
Reject ==
  /\ proc.pc = "call"
  /\ proc.flying \/ ~Passes
  /\ proc' = IF proc.asked = "flash"
             THEN [proc EXCEPT !.asked = "plus", !.flying = FALSE]
             ELSE Dead
  /\ UNCHANGED <<ledger, results, sent, used>>

AppendResult ==
  /\ proc.pc = "result"
  /\ \E stop \in BOOLEAN :
       /\ results' = [results EXCEPT !.rows = @ \cup {[case |-> Case, stop |-> stop]}]
       /\ proc' = IF stop THEN Dead
                  ELSE [proc EXCEPT !.pc = "next", !.todo = @ \ {Min(@)}]
  /\ UNCHANGED <<ledger, sent, used>>

End ==
  /\ proc.pc = "next" /\ proc.todo = {}
  /\ proc' = Dead
  /\ UNCHANGED <<ledger, results, sent, used>>

Crash ==
  /\ proc # Dead
  /\ proc' = Dead
  /\ UNCHANGED <<ledger, results, sent, used>>

\* The process dies inside an append, or between the reservation and the
\* network call it covers.
CrashInAppend ==
  /\ proc' = Dead
  /\ \/ /\ proc.pc = "call" /\ ~proc.flying /\ Passes
        /\ ledger' \in {Reserving(ledger, {Asked}), [ledger EXCEPT !.torn = TRUE]}
        /\ UNCHANGED results
     \/ /\ proc.pc = "call" /\ proc.flying
        /\ ledger' = [ledger EXCEPT !.torn = TRUE]
        /\ UNCHANGED results
     \/ /\ proc.pc = "result"
        /\ results' = [results EXCEPT !.torn = TRUE]
        /\ UNCHANGED ledger
  /\ UNCHANGED <<sent, used>>

Init ==
  /\ ledger = EmptyLedger
  /\ results = NoResults
  /\ proc = Dead

Step ==
  \/ \E size \in BatchSizes, retry \in BOOLEAN : Start(size, retry)
  \/ BeginCase \/ RefuseRetry \/ Send \/ Settle \/ Reject \/ AppendResult \/ End

Next == Step \/ Crash \/ CrashInAppend
==============================================================================
