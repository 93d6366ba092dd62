------------------------------ MODULE CollectorRun ------------------------------
(***************************************************************************)
(* Runners on the ledger: evaluation/collector/runner.ts,                  *)
(* runOfflineShadowExecution, one process per execution, composed with     *)
(* CollectorLedger, the provider, an operator and the wall clock.          *)
(*                                                                         *)
(* Each ledger call of a runner is one transaction; between two of them    *)
(* the other runners, the operator (stop, revoke, recover, complete), the  *)
(* clock and a crash may intervene.  A runner keeps only volatile state: a *)
(* crash loses it, and a new process for the same execution starts over    *)
(* with claimExecution.                                                    *)
(***************************************************************************)
EXTENDS CollectorLedger

VARIABLES
    runner,  \* per execution: program point, current slot, answer, time stamp
    sent,    \* per call: how many requests the provider received for it
    cleaned  \* the executions whose cleanup was verified

rvars == <<vars, runner, sent, cleaned>>

AtRest == {"idle", "done", "incomplete", "failed", "crashed"}
Points == AtRest \cup {"reserve", "dispatch", "invoke", "await", "finish", "giveup",
                       "label", "lock", "fail_primary", "cleanup", "finalize", "unwind"}

Idle == [pc |-> "idle", slot |-> "primary", answer |-> "none", stamp |-> NoTime]

At(e, pc)      == runner[e].pc = pc
Goto(e, pc)    == runner' = [runner EXCEPT ![e].pc = pc]
Current(e)     == runner[e].slot

\* A ledger call under #guard.  Unless it is allowed it throws, after #guard may
\* have ended the round.
Refused(e) == IF GuardEnds(grantOf[e]) THEN EndByGuard(grantOf[e]) ELSE UNCHANGED vars

\* markExecutionIncomplete, which may also throw or find its work done; what
\* the runner does next is the same.
GiveUpExecution(e) ==
    IF MarkIncompleteAllowed(e) THEN MarkExecutionIncomplete(e) ELSE UNCHANGED vars

--------------------------------------------------------------------------------
\* claimExecution comes before the try block: if it throws, nothing else runs.
Start(e) ==
    /\ runner[e].pc \in AtRest
    /\ grantOf[e] # NoRound
    /\ IF ClaimAllowed(grantOf[e], e)
       THEN /\ ClaimExecution(grantOf[e], e)
            /\ runner' = [runner EXCEPT ![e] = [Idle EXCEPT !.pc = "reserve"]]
       ELSE Refused(e) /\ Goto(e, "failed")
    /\ UNCHANGED <<sent, cleaned>>

Reserve(e) ==
    /\ At(e, "reserve")
    /\ IF ReserveAllowed(e, Current(e))
       THEN ReserveCall(e, Current(e)) /\ Goto(e, "dispatch")
       ELSE Refused(e) /\ Goto(e, "unwind")
    /\ UNCHANGED <<sent, cleaned>>

Dispatch(e) ==
    /\ At(e, "dispatch")
    /\ IF DispatchAllowed(e, Current(e))
       THEN MarkDispatched(e, Current(e)) /\ Goto(e, "invoke")
       ELSE Refused(e) /\ Goto(e, "unwind")
    /\ UNCHANGED <<sent, cleaned>>

Invoke(e) ==
    /\ At(e, "invoke")
    /\ sent' = [sent EXCEPT ![<<e, Current(e)>>] = @ + 1]
    /\ Goto(e, "await")
    /\ UNCHANGED <<vars, cleaned>>

\* The provider's promise settles: an outcome, or an unhandled exception.
Answer(e) ==
    /\ At(e, "await")
    /\ \/ \E o \in ProviderOutcomes :
             runner' = [runner EXCEPT ![e].pc = "finish", ![e].answer = o]
       \/ Goto(e, "giveup")
    /\ UNCHANGED <<vars, sent, cleaned>>

\* Mutants: the Flash request is sent while the photo is being labelled; the
\* execution is finalised without the cleanup check.
AfterFinishPrefetching(e) ==
    CASE Current(e) = "primary" -> [runner[e] EXCEPT !.pc = "invoke", !.slot = "flash"]
      [] Current(e) = "flash"   -> [runner[e] EXCEPT !.pc = "reserve", !.slot = "plus"]
      [] Current(e) = "plus"    -> [runner[e] EXCEPT !.pc = "cleanup"]
AfterFinishUncleaned(e) ==
    CASE Current(e) = "primary" /\ runner[e].answer = "success" ->
            [runner[e] EXCEPT !.pc = "label"]
      [] Current(e) = "primary" /\ runner[e].answer # "success" ->
            [runner[e] EXCEPT !.pc = "fail_primary"]
      [] Current(e) = "flash" -> [runner[e] EXCEPT !.pc = "reserve", !.slot = "plus"]
      [] Current(e) = "plus"  -> [runner[e] EXCEPT !.pc = "finalize"]

AfterFinish(e) ==
    CASE Current(e) = "primary" /\ runner[e].answer = "success" ->
            [runner[e] EXCEPT !.pc = "label"]
      [] Current(e) = "primary" /\ runner[e].answer # "success" ->
            [runner[e] EXCEPT !.pc = "fail_primary"]
      [] Current(e) = "flash" -> [runner[e] EXCEPT !.pc = "reserve", !.slot = "plus"]
      [] Current(e) = "plus"  -> [runner[e] EXCEPT !.pc = "cleanup"]

\* Mutant: a refused finishCall is not caught.
FinishOrHang(e) ==
    /\ At(e, "finish")
    /\ FinishAllowed(e, Current(e))
    /\ FinishCall(e, Current(e), runner[e].answer)
    /\ runner' = [runner EXCEPT ![e] = AfterFinish(e)]
    /\ UNCHANGED <<sent, cleaned>>

Finish(e) ==
    /\ At(e, "finish")
    /\ IF FinishAllowed(e, Current(e))
       THEN /\ FinishCall(e, Current(e), runner[e].answer)
            /\ runner' = [runner EXCEPT ![e] = AfterFinish(e)]
       ELSE UNCHANGED vars /\ Goto(e, "giveup")
    /\ UNCHANGED <<sent, cleaned>>

\* Mutant: the catch block tries the provider again.
GiveUpRetrying(e) == At(e, "giveup") /\ Goto(e, "invoke") /\ UNCHANGED <<vars, sent, cleaned>>

\* The catch block around a provider call.
GiveUp(e) ==
    /\ At(e, "giveup")
    /\ GiveUpExecution(e)
    /\ Goto(e, "unwind")
    /\ UNCHANGED <<sent, cleaned>>

\* The labelling callback returns a valid ground truth, stamped with the
\* runner's clock, or the runner gives the execution up.
Label(e) ==
    /\ At(e, "label")
    /\ \/ /\ runner' = [runner EXCEPT ![e].pc = "lock", ![e].stamp = now]
          /\ UNCHANGED vars
       \/ /\ GiveUpExecution(e)
          /\ Goto(e, "unwind")
    /\ UNCHANGED <<sent, cleaned>>

Lock(e) ==
    /\ At(e, "lock")
    /\ IF LockAllowed(e, runner[e].stamp)
       THEN /\ LockGroundTruth(e, runner[e].stamp)
            /\ runner' = [runner EXCEPT ![e].pc = "reserve", ![e].slot = "flash"]
       ELSE Refused(e) /\ Goto(e, "unwind")
    /\ UNCHANGED <<sent, cleaned>>

\* A failed Primary ends the execution; a throw here unwinds instead.
FailPrimary(e) ==
    /\ At(e, "fail_primary")
    /\ GiveUpExecution(e)
    /\ IF MarkIncompleteAllowed(e) \/ "incomplete" \in execLog[e]
       THEN Goto(e, "cleanup") ELSE Goto(e, "unwind")
    /\ UNCHANGED <<sent, cleaned>>

\* verifyCleanupOrFail at the end of the try block ...
Cleanup(e) ==
    /\ At(e, "cleanup")
    /\ \/ /\ cleaned' = cleaned \cup {e}
          /\ Goto(e, IF Current(e) = "plus" THEN "finalize" ELSE "incomplete")
          /\ UNCHANGED vars
       \/ /\ GiveUpExecution(e)
          /\ Goto(e, "failed")
          /\ UNCHANGED cleaned
    /\ UNCHANGED sent

\* ... and in the finally block of a run that threw before it.
Unwind(e) ==
    /\ At(e, "unwind")
    /\ \/ cleaned' = cleaned \cup {e} /\ UNCHANGED vars
       \/ GiveUpExecution(e) /\ UNCHANGED cleaned
    /\ Goto(e, "failed")
    /\ UNCHANGED sent

Finalize(e) ==
    /\ At(e, "finalize")
    /\ IF FinalizeAllowed(e)
       THEN FinalizeExecution(e) /\ Goto(e, "done")
       ELSE UNCHANGED vars /\ Goto(e, "failed")
    /\ UNCHANGED <<sent, cleaned>>

RunnerStep(e) ==
    \/ Reserve(e) \/ Dispatch(e) \/ Invoke(e) \/ Answer(e) \/ Finish(e)
    \/ GiveUp(e) \/ Label(e) \/ Lock(e) \/ FailPrimary(e)
    \/ Cleanup(e) \/ Unwind(e) \/ Finalize(e)

Crash(e) ==
    /\ runner[e].pc \notin AtRest
    /\ runner' = [runner EXCEPT ![e] = [Idle EXCEPT !.pc = "crashed"]]
    /\ UNCHANGED <<vars, sent, cleaned>>

\* The operator's commands and the clock, at any time.
Operate ==
    /\ \/ ClockMoves
       \/ \E r \in Rounds : \/ CreateRound(r) \/ ArmRound(r) \/ CompleteRound(r)
                            \/ StopRound(r) \/ RecoverInterrupted(r)
       \/ \E a \in Authorizations : AuthorizationStep(a)
    /\ UNCHANGED <<runner, sent, cleaned>>

RInit ==
    /\ Init
    /\ runner = [e \in Executions |-> Idle]
    /\ sent = [c \in Calls |-> 0]
    /\ cleaned = {}

RNext ==
    \/ \E e \in Executions : Start(e) \/ RunnerStep(e) \/ Crash(e)
    \/ Operate

RSpec == RInit /\ [][RNext]_rvars

\* A runner that is alive goes on, since every await it makes is settled (the
\* provider and the labelling callback return or throw), and an interrupted
\* round is eventually recovered once its runners are at rest.
RecoverAtRest(r) ==
    /\ \A e \in ExecutionsOf(r) : runner[e].pc \in AtRest
    /\ RecoverInterrupted(r)
    /\ UNCHANGED <<runner, sent, cleaned>>

RunnerFairness   == \A e \in Executions : WF_rvars(RunnerStep(e))
RecoveryFairness == \A r \in Rounds : WF_rvars(RecoverAtRest(r))

FairSpec == RSpec /\ RunnerFairness /\ RecoveryFairness

--------------------------------------------------------------------------------
(* Properties.                                                              *)

RTypeOK ==
    /\ TypeOK
    /\ runner \in [Executions -> [pc : Points, slot : Slots,
                                  answer : {"none"} \cup ProviderOutcomes,
                                  stamp : Instant]]
    /\ sent \in [Calls -> Nat]
    /\ cleaned \subseteq Executions

\* No request is ever sent twice, across crashes, new processes for the same
\* execution, stops and recoveries; and none is sent that the ledger has not
\* recorded as dispatched ("DISPATCHED crash recovery records unknown and never
\* retries").  The runner's own state stays among its points.
NeverResent ==
    RTypeOK /\ \A c \in Calls : sent[c] <= (IF "dispatched" \in callLog[c] THEN 1 ELSE 0)

\* The provider sees no verifier request of an execution before its ground
\* truth is locked, and no Plus request before the Flash call is settled.
VerifiersAreBlind ==
    \A e \in Executions :
        /\ sent[<<e, "flash">>] > 0 => "truth_locked" \in execLog[e]
        /\ sent[<<e, "plus">>] > 0 => /\ "truth_locked" \in execLog[e]
                                  /\ Call(e, "flash").state = "result"

\* An execution becomes an evaluation case only if its three requests were
\* really sent and its photo cleanup was verified.
CasesAreClean ==
    \A e \in Executions : execs[e].state = "complete" =>
        e \in cleaned /\ \A s \in Slots : sent[<<e, s>>] = 1

\* A completed round cost exactly one request per slot of every execution its
\* grant lists, 3N in all, and each execution's photos were verified as cleaned.
CompletedRoundsCostThreeN ==
    \A r \in Rounds : status[r] = "completed" =>
        \A e \in Authorized[AuthOf[r]] :
            e \in cleaned /\ \A s \in Slots : sent[<<e, s>>] = 1

\* A runner never gets stuck: whatever the ledger answers, the process ends.
RunnersReturn ==
    \A e \in Executions : (runner[e].pc \notin AtRest) ~> (runner[e].pc \in AtRest)

\* No execution stays open and no sent call stays unsettled forever, whoever
\* crashed or refused on the way.
OpenWorkSettles ==
    \A e \in Executions :
        /\ (execs[e].state = "running") ~> (execs[e].state # "running")
        /\ \A s \in Slots : (Call(e, s).state = "dispatched")
                                ~> (Call(e, s).state = "result")
================================================================================
