---------------------------- MODULE AdaptivePilot ----------------------------
(***************************************************************************)
(* The adaptive pilot, src/scripts/run-qwen-adaptive-pilot.mjs in its      *)
(* --execute mode: a process reads the two files, then takes the selected  *)
(* cases one by one.  For a case it reserves the primary and the scout     *)
(* together, lets the vision provider send both at once, reserves and      *)
(* sends a final call when the observers found candidates, and appends the *)
(* result.  Each file is appended and synced before memory changes.  The   *)
(* process may die at any point, inside an append too; a call it sent may  *)
(* then have been paid for without anyone knowing how much.                *)
(*                                                                         *)
(* One process runs at a time: the script takes no lock, see README.       *)
(***************************************************************************)
EXTENDS TokenBudget

CONSTANTS
  Cases,        \* the sequence SELECTED_CASES
  Uses          \* what a call may really consume, beyond Reserve too

VARIABLES
  ledger,       \* token-ledger.jsonl
  results,      \* results.jsonl: rows [case, stop], and whether torn
  proc,         \* the running process, or Dead
  sent,         \* how often each call left, over all processes
  used,         \* what each call that left consumed at the provider
  prior         \* loadPriorUsage: what the earlier runs used, or "changed"

vars == <<ledger, results, proc, sent, used>>

Dead == [pc |-> "dead"]
NoResults == [rows |-> {}, torn |-> FALSE]

Completed == {row.case : row \in results.rows}
SafetyStopped == \E row \in results.rows : row.stop

\* Mutant: the case's result is looked for, the recorded stop is not.
StartAllowedAfterStop ==
  /\ ~results.torn /\ ~ledger.torn
  /\ prior.revision = "pinned"
  /\ AdaptiveSummaryHolds(ledger, prior)
  /\ Pending(ledger) = {}

StartAllowed ==
  /\ ~results.torn /\ ~ledger.torn
  /\ prior.revision = "pinned"
  /\ AdaptiveSummaryHolds(ledger, prior)
  /\ Pending(ledger) = {}
  /\ ~SafetyStopped

\* main up to its loop.  A start that fails a check ends at once and changes
\* nothing.
Start ==
  /\ proc = Dead
  /\ StartAllowed
  /\ proc' = [pc |-> "next", prior |-> prior,
              todo |-> {i \in DOMAIN Cases : Cases[i] \notin Completed}]
  /\ UNCHANGED <<ledger, results, sent, used>>

\* The case at hand: `todo` holds the places of the cases to take, in order.
Case == Cases[Min(proc.todo)]
Of(slot) == Call(Case, 1, slot)

\* runCase up to its two concurrent calls.  `expected` is the fetch
\* controller's set, `flying` the requests sent and unanswered, `records` the
\* calls settled, `failed` the calls whose fetch rejected.
BeginCase ==
  /\ proc.pc = "next" /\ proc.todo # {}
  /\ InitialAllowed(ledger, proc.prior, Case)
  /\ ledger' = Reserving(ledger, Observers(Case))
  /\ proc' = [pc |-> "observe", prior |-> proc.prior, todo |-> proc.todo,
              expected |-> {"primary", "scout"}, flying |-> {},
              records |-> {}, failed |-> {}]
  /\ UNCHANGED <<results, sent, used>>

\* A refused reservation throws out of runCase and ends the process.
RefuseCase ==
  /\ proc.pc = "next" /\ proc.todo # {}
  /\ ~InitialAllowed(ledger, proc.prior, Case)
  /\ proc' = Dead
  /\ UNCHANGED <<ledger, results, sent, used>>

\* expectedSlots.delete(slot): a slot is let through once.
SpendSlot(slot) ==
  /\ slot \in proc.expected
  /\ proc' = [proc EXCEPT !.expected = @ \ {slot}, !.flying = @ \cup {slot}]

\* The controlled fetch up to the network call.  What the call will consume
\* is the provider's choice.
Send(slot) ==
  /\ proc.pc \in {"observe", "verify"}
  /\ SpendSlot(slot)
  /\ Of(slot) \in Pending(ledger)
  /\ sent' = [sent EXCEPT ![Of(slot)] = @ + 1]
  /\ \E n \in Uses : used' = [used EXCEPT ![Of(slot)] = @ + n]
  /\ UNCHANGED <<ledger, results>>

\* The answer arrives with a usage the ledger accepts: settled on disk, then
\* in memory.
Settle(slot) ==
  /\ proc.pc \in {"observe", "verify"} /\ slot \in proc.flying
  /\ AdaptiveSettleAllowed(ledger, proc.prior, Of(slot), used[Of(slot)])
  /\ ledger' = Settling(ledger, Of(slot), used[Of(slot)])
  /\ proc' = [proc EXCEPT !.flying = @ \ {slot}, !.records = @ \cup {slot}]
  /\ UNCHANGED <<results, sent, used>>

\* A timeout, a transport error, a bad status, a usage that is missing or
\* beyond the reservation: the fetch rejects and the call stays pending.
Lose(slot) ==
  /\ proc.pc \in {"observe", "verify"} /\ slot \in proc.flying
  /\ proc' = [proc EXCEPT !.flying = @ \ {slot}, !.failed = @ \cup {slot}]
  /\ UNCHANGED <<ledger, results, sent, used>>

Answered == proc.expected = {} /\ proc.flying = {}

\* Promise.all has both observers and one of them failed, or the final call
\* failed: the call contract throws out of runCase.
Fail ==
  /\ proc.pc \in {"observe", "verify"}
  /\ Answered /\ proc.failed # {}
  /\ proc' = Dead
  /\ UNCHANGED <<ledger, results, sent, used>>

\* The observers left candidates to verify: the final call is reserved, then
\* allowed.  The reservation may be refused.
AllowFinal ==
  /\ proc.pc = "observe"
  /\ Answered /\ proc.failed = {}
  /\ \/ /\ FinalAllowed(ledger, proc.prior, Case)
        /\ ledger' = Reserving(ledger, {Of("final")})
        /\ proc' = [proc EXCEPT !.pc = "verify", !.expected = {"final"}]
     \/ /\ ~FinalAllowed(ledger, proc.prior, Case)
        /\ proc' = Dead
        /\ UNCHANGED ledger
  /\ UNCHANGED <<results, sent, used>>

\* The case is decided, after two calls or three; whether it stops the pilot
\* is the observers' and the verifier's content.
Decide ==
  /\ proc.pc \in {"observe", "verify"}
  /\ Answered /\ proc.failed = {}
  /\ Pending(ledger) = {}
  /\ \E stop \in BOOLEAN :
       proc' = [pc |-> "result", prior |-> proc.prior, todo |-> proc.todo,
                stop |-> stop]
  /\ UNCHANGED <<ledger, results, sent, used>>

AppendResult ==
  /\ proc.pc = "result"
  /\ results' = [results EXCEPT !.rows = @ \cup {[case |-> Case, stop |-> proc.stop]}]
  /\ proc' = IF proc.stop THEN Dead
             ELSE [pc |-> "next", prior |-> proc.prior,
                   todo |-> proc.todo \ {Min(proc.todo)}]
  /\ UNCHANGED <<ledger, sent, used>>

\* The loop is over.
End ==
  /\ proc.pc = "next" /\ proc.todo = {}
  /\ proc' = Dead
  /\ UNCHANGED <<ledger, results, sent, used>>

\* The process dies between two steps: requests in flight stay sent.
Crash ==
  /\ proc # Dead
  /\ proc' = Dead
  /\ UNCHANGED <<ledger, results, sent, used>>

\* It dies inside an append: of the lines to write, whole ones and then part
\* of one may have reached the file.  The primary's line is the first of two.
CrashInAppend ==
  /\ proc' = Dead
  /\ \/ /\ proc.pc = "next" /\ proc.todo # {}
        /\ InitialAllowed(ledger, proc.prior, Case)
        /\ \E lines \in {{}, {Of("primary")}}, torn \in BOOLEAN :
             ledger' = [Reserving(ledger, lines) EXCEPT !.torn = torn]
        /\ UNCHANGED results
     \/ /\ proc.pc \in {"observe", "verify"}
        /\ proc.flying # {} \/ (Answered /\ proc.failed = {} /\ proc.pc = "observe")
        /\ ledger' = [ledger EXCEPT !.torn = TRUE]
        /\ UNCHANGED results
     \/ /\ proc.pc = "result"
        /\ results' = [results EXCEPT !.torn = TRUE]
        /\ UNCHANGED ledger
  /\ UNCHANGED <<sent, used>>

Init ==
  /\ ledger = EmptyLedger
  /\ results = NoResults
  /\ proc = Dead

Step ==
  \/ Start \/ BeginCase \/ RefuseCase
  \/ \E slot \in {"primary", "scout", "final"} :
       Send(slot) \/ Settle(slot) \/ Lose(slot)
  \/ Fail \/ AllowFinal \/ Decide \/ AppendResult \/ End

Next == Step \/ Crash \/ CrashInAppend
==============================================================================
