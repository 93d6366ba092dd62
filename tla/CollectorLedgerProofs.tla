------------------------- MODULE CollectorLedgerProofs -------------------------
(***************************************************************************)
(* Theorems about CollectorLedger, for every set of rounds, grants and     *)
(* executions and every clock:                                             *)
(*                                                                         *)
(*   1. types, and ended rounds are sealed (SealInv: all others use it),   *)
(*   2. what a step may do: slots, endings, live grants,                   *)
(*   3. the blindness of the ground truth (TruthInv),                      *)
(*   4. what a completed round holds (SuiteInv),                           *)
(*   5. the agreement of tables and audit log (LogInv),                    *)
(*   6. the implementation of SendAuthority.                               *)
(***************************************************************************)
EXTENDS CollectorRefinement, FiniteSetTheorems, TLAPS

--------------------------------------------------------------------------------
(* 1. Type correctness.                                                     *)

LEMMA TypeInit == Init => TypeOK
  BY ConstantsAssumption
  DEF Init, TypeOK, NoCall, NoExec, CallRows, ExecRows, RoundStatuses, CallStates,
      ExecStates, Outcomes, Instant, NoTime, Calls

\* Ending a set of rounds keeps every row well typed.
LEMMA TerminateType ==
  ASSUME TypeOK, NEW R, NEW final \in TerminalStatuses, Terminate(R, final)
  PROVE  TypeOK'
<1>1. status' \in [Rounds -> RoundStatuses]
  BY DEF Terminate, TypeOK, RoundStatuses
<1>2. lastObserved' \in [Rounds -> Nat]
  BY DEF Terminate, TypeOK
<1>3. calls' \in [Calls -> CallRows]
  <2>1. \A c \in Calls : calls[c] \in CallRows
    BY DEF TypeOK
  <2>2. \A c \in Calls : [calls[c] EXCEPT !.state = "cancelled",
                                          !.outcome = "cancelled_before_dispatch"] \in CallRows
    BY <2>1 DEF CallRows, CallStates, Outcomes
  <2> QED
    BY <2>1, <2>2 DEF Terminate
<1>4. execs' \in [Executions -> ExecRows]
  <2>1. \A e \in Executions : execs[e] \in ExecRows
    BY DEF TypeOK
  <2>2. \A e \in Executions : [execs[e] EXCEPT !.state = "incomplete"] \in ExecRows
    BY <2>1 DEF ExecRows, ExecStates
  <2> QED
    BY <2>1, <2>2 DEF Terminate
<1>5. roundLog' \in [Rounds -> SUBSET RoundEvents]
  BY DEF Terminate, TypeOK, RoundEvents, TerminalEvents
<1> QED
  BY <1>1, <1>2, <1>3, <1>4, <1>5 DEF Terminate, TypeOK

LEMMA WithdrawType ==
  ASSUME TypeOK, NEW r \in Rounds, Withdraw(r)
  PROVE  TypeOK'
  BY TerminateType DEF Withdraw, TerminalStatuses

LEMMA GuardType ==
  ASSUME TypeOK, NEW r \in Rounds, EndByGuard(r)
  PROVE  TypeOK'
  BY WithdrawType DEF EndByGuard

\* A call that is given up is still a row of the table.
LEMMA AbandonedType ==
  ASSUME TypeOK, NEW c \in Calls
  PROVE  Abandoned(calls[c]) \in CallRows
<1>1. calls[c] \in CallRows
  BY DEF TypeOK
<1>2. CASE calls[c].state \in OpenStates
  BY <1>1, <1>2 DEF Abandoned, CallRows, CallStates, Outcomes, OpenStates
<1>3. CASE calls[c].state = "dispatched"
  BY <1>1, <1>3 DEF Abandoned, CallRows, CallStates, Outcomes, OpenStates, TypeOK, Instant
<1>4. CASE calls[c].state \notin OpenStates /\ calls[c].state # "dispatched"
  BY <1>1, <1>4 DEF Abandoned
<1> QED
  BY <1>2, <1>3, <1>4

\* An executions row refers to its execution_grants row (the foreign key).
ClaimsAreGranted == \A e \in Executions : execs[e].state # "none" => grantOf[e] \in Rounds

\* Every transaction of the ledger, and every jump of the clock, keeps the
\* tables well typed.
LEMMA TypeStep == TypeOK /\ ClaimsAreGranted /\ [Next]_vars => TypeOK'
<1> SUFFICES ASSUME TypeOK, ClaimsAreGranted, [Next]_vars PROVE TypeOK'
  OBVIOUS
<1> USE ConstantsAssumption
<1>1. CASE UNCHANGED vars
  BY <1>1 DEF TypeOK, vars, logs
<1>2. CASE ClockMoves
  BY <1>2 DEF TypeOK, ClockMoves, logs
<1>3. ASSUME NEW r \in Rounds, RoundStep(r) PROVE TypeOK'
  <2>1. CASE CreateRound(r)
    BY <1>3, <2>1 DEF CreateRound, TypeOK, Observe, Log, RoundStatuses, ActiveStatuses,
                      RoundEvents, ExecEvents
  <2>2. CASE ArmRound(r)
    <3>1. CASE Withdraw(r)
      BY <3>1, WithdrawType
    <3>2. CASE ~Withdraw(r)
      BY <2>2, <3>2 DEF ArmRound, TypeOK, Observe, Log, RoundStatuses, ActiveStatuses,
                        RoundEvents
    <3> QED
      BY <3>1, <3>2
  <2>3. CASE CompleteRound(r)
    <3>1. CASE EndByGuard(r)
      BY <3>1, GuardType
    <3>2. CASE ~EndByGuard(r)
      BY <2>3, <3>2 DEF CompleteRound, TypeOK, Observe, Log, RoundStatuses,
                        TerminalStatuses, RoundEvents, TerminalEvents
    <3> QED
      BY <3>1, <3>2
  <2>4. CASE StopRound(r)
    BY <2>4, TerminateType DEF StopRound, TerminalStatuses
  <2>5. CASE RecoverInterrupted(r)
    <3>1. status' \in [Rounds -> RoundStatuses] /\ lastObserved' \in [Rounds -> Nat]
      BY <2>5 DEF RecoverInterrupted, TypeOK, Observe, RoundStatuses, TerminalStatuses
    <3>2. calls' \in [Calls -> CallRows]
      <4>1. \A c \in Calls : calls[c] \in CallRows /\ Abandoned(calls[c]) \in CallRows
        BY AbandonedType DEF TypeOK
      <4> QED
        BY <2>5, <4>1 DEF RecoverInterrupted
    <3>3. execs' \in [Executions -> ExecRows]
      BY <2>5 DEF RecoverInterrupted, TypeOK, ExecRows, ExecStates
    <3>4. roundLog' \in [Rounds -> SUBSET RoundEvents]
      BY <2>5 DEF RecoverInterrupted, TypeOK, Log, RoundEvents, TerminalEvents
    <3> QED
      BY <2>5, <3>1, <3>2, <3>3, <3>4 DEF RecoverInterrupted, TypeOK
  <2>6. ASSUME NEW e \in Executions, ClaimExecution(r, e) PROVE TypeOK'
    <3>1. CASE EndByGuard(r)
      BY <3>1, GuardType
    <3>2. CASE ~EndByGuard(r)
      <4>1. calls' \in [Calls -> CallRows]
        <5>1. \A c \in Calls : /\ calls[c] \in CallRows
                               /\ [calls[c] EXCEPT !.state = "planned"] \in CallRows
          BY DEF TypeOK, CallRows, CallStates
        <5> QED
          BY <2>6, <3>2, <5>1 DEF ClaimExecution
      <4>2. execs' \in [Executions -> ExecRows]
        BY <2>6, <3>2 DEF ClaimExecution, TypeOK, ExecRows, ExecStates
      <4>3. status' \in [Rounds -> RoundStatuses] /\ lastObserved' \in [Rounds -> Nat]
        BY <2>6, <3>2 DEF ClaimExecution, TypeOK, Observe, RoundStatuses, ActiveStatuses
      <4>4. execLog' \in [Executions -> SUBSET ExecEvents]
        BY <2>6, <3>2 DEF ClaimExecution, TypeOK, Log, ExecEvents
      <4> QED
        BY <2>6, <3>2, <4>1, <4>2, <4>3, <4>4 DEF ClaimExecution, TypeOK
    <3> QED
      BY <3>1, <3>2
  <2> QED
    BY <1>3, <2>1, <2>2, <2>3, <2>4, <2>5, <2>6 DEF RoundStep
<1>4. ASSUME NEW a \in Authorizations, AuthorizationStep(a) PROVE TypeOK'
  <2>1. CASE RecordRevocation(a)
    BY <2>1 DEF RecordRevocation, TypeOK, Log
  <2>2. CASE StopRevokedRounds(a)
    BY <2>2, TerminateType DEF StopRevokedRounds, TerminalStatuses
  <2> QED
    BY <1>4, <2>1, <2>2 DEF AuthorizationStep
<1>5. ASSUME NEW e \in Executions, ExecutionStep(e) PROVE TypeOK'
  <2>1. \A s \in Slots : <<e, s>> \in Calls /\ calls[<<e, s>>] \in CallRows
    BY DEF TypeOK, Calls
  <2>2. execs[e] \in ExecRows
    BY DEF TypeOK
  \* A guarded operation on e either ends the round, or is let through.
  <2>3. ASSUME EndByGuard(grantOf[e]), execs[e].state # "none" PROVE TypeOK'
    <3>1. grantOf[e] \in Rounds
      BY <2>3 DEF ClaimsAreGranted
    <3> QED
      BY <2>3, <3>1, GuardType
  <2>4. ASSUME NEW s \in Slots, ReserveCall(e, s), ~EndByGuard(grantOf[e]) PROVE TypeOK'
    <3>1. [calls[<<e, s>>] EXCEPT !.state = "reserved", !.reservedAt = now] \in CallRows
      BY <2>1 DEF TypeOK, CallRows, CallStates, Instant
    <3>2. calls' \in [Calls -> CallRows]
      BY <2>1, <2>4, <3>1 DEF ReserveCall, TypeOK
    <3>3. lastObserved' \in [Rounds -> Nat]
      BY <2>4 DEF ReserveCall, TypeOK, Observe
    <3>4. callLog' \in [Calls -> SUBSET CallEvents]
      BY <2>1, <2>4 DEF ReserveCall, TypeOK, Log, CallEvents
    <3> QED
      BY <2>4, <3>2, <3>3, <3>4 DEF ReserveCall, TypeOK
  <2>5. ASSUME NEW s \in Slots, MarkDispatched(e, s), ~EndByGuard(grantOf[e]) PROVE TypeOK'
    <3>1. [calls[<<e, s>>] EXCEPT !.state = "dispatched"] \in CallRows
      BY <2>1 DEF CallRows, CallStates
    <3>2. calls' \in [Calls -> CallRows]
      BY <2>1, <2>5, <3>1 DEF MarkDispatched, TypeOK
    <3> QED
      BY <2>1, <2>5, <3>2 DEF MarkDispatched, TypeOK, Observe, Log, CallEvents
  <2>6. ASSUME NEW s \in Slots, NEW o \in ProviderOutcomes, FinishCall(e, s, o) PROVE TypeOK'
    <3>0. [calls[<<e, s>>] EXCEPT !.state = "result", !.outcome = o,
                                  !.completedAt = now] \in CallRows
      BY <2>1 DEF TypeOK, CallRows, CallStates, Outcomes, Instant
    <3>1. calls' \in [Calls -> CallRows]
      BY <2>1, <2>6, <3>0 DEF FinishCall, TypeOK
    <3>2. execs' \in [Executions -> ExecRows]
      BY <2>2, <2>6 DEF FinishCall, TypeOK, ExecRows
    <3> QED
      BY <2>1, <2>6, <3>1, <3>2 DEF FinishCall, TypeOK, Log, CallEvents
  <2>7. ASSUME NEW t \in 0..MaxTime, LockGroundTruth(e, t), ~EndByGuard(grantOf[e])
        PROVE  TypeOK'
    <3>1. execs' \in [Executions -> ExecRows]
      BY <2>2, <2>7 DEF LockGroundTruth, TypeOK, ExecRows, Instant
    <3> QED
      BY <2>7, <3>1 DEF LockGroundTruth, TypeOK, Observe, Log, ExecEvents
  <2>8. CASE MarkExecutionIncomplete(e)
    <3>1. \A c \in Calls : calls[c] \in CallRows /\ Abandoned(calls[c]) \in CallRows
      BY AbandonedType DEF TypeOK
    <3>2. calls' \in [Calls -> CallRows]
      BY <2>8, <3>1 DEF MarkExecutionIncomplete
    <3>3. execs' \in [Executions -> ExecRows]
      BY <2>2, <2>8 DEF MarkExecutionIncomplete, TypeOK, ExecRows, ExecStates
    <3> QED
      BY <2>8, <3>2, <3>3 DEF MarkExecutionIncomplete, TypeOK, Log, ExecEvents, ExecTerminal
  <2>9. CASE FinalizeExecution(e)
    <3>1. execs' \in [Executions -> ExecRows]
      BY <2>2, <2>9 DEF FinalizeExecution, TypeOK, ExecRows, ExecStates
    <3> QED
      BY <2>9, <3>1 DEF FinalizeExecution, TypeOK, Log, ExecEvents, ExecTerminal
  <2> QED
    BY <1>5, <2>3, <2>4, <2>5, <2>6, <2>7, <2>8, <2>9
    DEF ExecutionStep, ReserveCall, MarkDispatched, LockGroundTruth
<1> QED
  BY <1>1, <1>2, <1>3, <1>4, <1>5 DEF Next

LEMMA GrantedInit == Init => ClaimsAreGranted
  BY DEF Init, ClaimsAreGranted, NoExec

LEMMA GrantedTerminate ==
  ASSUME TypeOK, ClaimsAreGranted, NEW R, NEW final, Terminate(R, final)
  PROVE  ClaimsAreGranted'
  BY DEF Terminate, TypeOK, ClaimsAreGranted, ExecRows

LEMMA GrantedGuard ==
  ASSUME TypeOK, ClaimsAreGranted, NEW r, EndByGuard(r)
  PROVE  ClaimsAreGranted'
  BY GrantedTerminate DEF EndByGuard, Withdraw

LEMMA GrantedStep == TypeOK /\ ClaimsAreGranted /\ [Next]_vars => ClaimsAreGranted'
<1> SUFFICES ASSUME TypeOK, ClaimsAreGranted, [Next]_vars PROVE ClaimsAreGranted'
  OBVIOUS
<1>1. CASE UNCHANGED vars
  BY <1>1 DEF ClaimsAreGranted, vars, logs
<1>2. CASE ClockMoves
  BY <1>2 DEF ClaimsAreGranted, ClockMoves
<1>3. ASSUME NEW r \in Rounds, RoundStep(r) PROVE ClaimsAreGranted'
  <2>1. CASE CreateRound(r)
    BY <1>3, <2>1 DEF CreateRound, ClaimsAreGranted, TypeOK
  <2>2. CASE ArmRound(r)
    BY <2>2, GrantedTerminate DEF ArmRound, Withdraw, ClaimsAreGranted
  <2>3. CASE CompleteRound(r)
    BY <2>3, GrantedGuard DEF CompleteRound, ClaimsAreGranted
  <2>4. CASE StopRound(r)
    BY <2>4, GrantedTerminate DEF StopRound
  <2>5. CASE RecoverInterrupted(r)
    BY <2>5 DEF RecoverInterrupted, ClaimsAreGranted, TypeOK, ExecRows
  <2>6. ASSUME NEW e \in Executions, ClaimExecution(r, e) PROVE ClaimsAreGranted'
    BY <1>3, <2>6, GrantedGuard
    DEF ClaimExecution, ClaimAllowed, ClaimsAreGranted, TypeOK, ExecRows
  <2> QED
    BY <1>3, <2>1, <2>2, <2>3, <2>4, <2>5, <2>6 DEF RoundStep
<1>4. ASSUME NEW a \in Authorizations, AuthorizationStep(a) PROVE ClaimsAreGranted'
  BY <1>4, GrantedTerminate
  DEF AuthorizationStep, RecordRevocation, StopRevokedRounds, ClaimsAreGranted
<1>5. ASSUME NEW e \in Executions, ExecutionStep(e) PROVE ClaimsAreGranted'
  <2>1. ASSUME NEW s \in Slots, ReserveCall(e, s) PROVE ClaimsAreGranted'
    BY <2>1, GrantedGuard DEF ReserveCall, ClaimsAreGranted
  <2>2. ASSUME NEW s \in Slots, MarkDispatched(e, s) PROVE ClaimsAreGranted'
    BY <2>2, GrantedGuard DEF MarkDispatched, ClaimsAreGranted
  <2>3. ASSUME NEW s \in Slots, NEW o \in ProviderOutcomes, FinishCall(e, s, o)
        PROVE  ClaimsAreGranted'
    BY <2>3 DEF FinishCall, ClaimsAreGranted, TypeOK, ExecRows
  <2>4. ASSUME NEW t \in 0..MaxTime, LockGroundTruth(e, t) PROVE ClaimsAreGranted'
    BY <2>4, GrantedGuard DEF LockGroundTruth, ClaimsAreGranted, TypeOK, ExecRows
  <2>5. CASE MarkExecutionIncomplete(e)
    BY <2>5 DEF MarkExecutionIncomplete, MarkIncompleteAllowed, ClaimsAreGranted, TypeOK, ExecRows
  <2>6. CASE FinalizeExecution(e)
    BY <2>6 DEF FinalizeExecution, FinalizeAllowed, ClaimsAreGranted, TypeOK, ExecRows
  <2> QED
    BY <1>5, <2>1, <2>2, <2>3, <2>4, <2>5, <2>6 DEF ExecutionStep
<1> QED
  BY <1>1, <1>2, <1>3, <1>4, <1>5 DEF Next

\* Every reachable state of the ledger's tables and audit log is well typed.
THEOREM TypeCorrect == Spec => []TypeOK
<1>1. Init => TypeOK /\ ClaimsAreGranted
  BY TypeInit, GrantedInit
<1>2. TypeOK /\ ClaimsAreGranted /\ [Next]_vars => (TypeOK /\ ClaimsAreGranted)'
  BY TypeStep, GrantedStep
<1> QED
  BY <1>1, <1>2, PTL DEF Spec

--------------------------------------------------------------------------------
(* Ended rounds are sealed.                                                 *)
(*                                                                          *)
(* EndedRoundsAreSealed is not inductive: a completed round is sealed       *)
(* because complete executions have only results, an open round must have   *)
(* no ending in its log, and executions are what ties calls to a round.     *)

\* What a call may be, given the state of its execution.
RowsMatch ==
    \A e \in Executions, s \in Slots :
        /\ execs[e].state = "none"       => calls[<<e, s>>].state = "none"
        /\ execs[e].state = "complete"   => calls[<<e, s>>].state = "result"
        /\ execs[e].state = "incomplete" => calls[<<e, s>>].state \notin OpenStates

\* A round that has not ended has no ending in its log.
EndsAreLogged == \A r \in Rounds : ClosedByEvent(r) => status[r] \in TerminalStatuses

Drained(r) == roundLog[r] \cap {"completed", "recovered"} # {}

\* The executions of an ended round have ended, and nothing is in flight in a
\* completed or recovered one.
ExecutionsEnd ==
    \A e \in Executions : (grantOf[e] \in Rounds /\ status[grantOf[e]] \in TerminalStatuses) =>
        /\ execs[e].state # "running"
        /\ Drained(grantOf[e]) => \A s \in Slots : calls[<<e, s>>].state # "dispatched"

\* A round whose executions are registered exists.
FundedRoundsExist ==
    \A e \in Executions : grantOf[e] \in Rounds => status[grantOf[e]] # "absent"

Sealing == RowsMatch /\ EndsAreLogged /\ ExecutionsEnd /\ FundedRoundsExist

SealInv == TypeOK /\ ClaimsAreGranted /\ Sealing

LEMMA SealInvImplies == SealInv => EndedRoundsAreSealed
<1> SUFFICES ASSUME SealInv, NEW r \in Rounds, status[r] \in TerminalStatuses
             PROVE  /\ \A e \in ExecutionsOf(r) : execs[e].state # "running"
                    /\ \A c \in CallsOf(r) :
                          /\ calls[c].state \notin OpenStates
                          /\ roundLog[r] \cap {"completed", "recovered"} # {}
                                 => calls[c].state # "dispatched"
  BY DEF EndedRoundsAreSealed
<1>1. ASSUME NEW e \in ExecutionsOf(r) PROVE execs[e].state # "running"
  BY <1>1 DEF SealInv, Sealing, ExecutionsEnd, ExecutionsOf
<1>2. ASSUME NEW c \in CallsOf(r)
      PROVE  /\ calls[c].state \notin OpenStates
             /\ Drained(r) => calls[c].state # "dispatched"
  <2>1. PICK e \in ExecutionsOf(r), s \in Slots : c = <<e, s>>
    BY <1>2 DEF CallsOf
  <2>2. e \in Executions /\ grantOf[e] = r /\ execs[e].state # "running"
    BY <1>1 DEF ExecutionsOf
  <2>3. execs[e].state \in {"none", "complete", "incomplete"}
    BY <2>2 DEF SealInv, TypeOK, ExecRows, ExecStates
  <2>4. calls[<<e, s>>].state \notin OpenStates
    BY <2>2, <2>3 DEF SealInv, Sealing, RowsMatch, OpenStates
  <2>5. Drained(r) => calls[<<e, s>>].state # "dispatched"
    BY <2>2 DEF SealInv, Sealing, ExecutionsEnd
  <2> QED
    BY <2>1, <2>4, <2>5
<1> QED
  BY <1>1, <1>2 DEF Drained

LEMMA SealInit == Init => Sealing
  BY ConstantsAssumption
  DEF Init, Sealing, RowsMatch, EndsAreLogged, ExecutionsEnd, FundedRoundsExist, ClosedByEvent, TerminalStatuses,
      NoExec, NoCall, Calls

\* What #terminate does to the rows of one execution.
LEMMA TerminateRows ==
  ASSUME TypeOK, NEW R, NEW final, Terminate(R, final), NEW e \in Executions
  PROVE  /\ grantOf' = grantOf
         /\ execs'[e].state = IF grantOf[e] \in R /\ execs[e].state = "running"
                              THEN "incomplete" ELSE execs[e].state
         /\ \A s \in Slots : calls'[<<e, s>>].state =
               IF grantOf[e] \in R /\ calls[<<e, s>>].state \in OpenStates
               THEN "cancelled" ELSE calls[<<e, s>>].state
<1>1. \A s \in Slots : <<e, s>> \in Calls /\ <<e, s>>[1] = e
  BY DEF Calls
<1>2. \A s \in Slots : calls[<<e, s>>] \in CallRows
  BY <1>1 DEF TypeOK
<1>3. execs[e] \in ExecRows
  BY DEF TypeOK
<1>4. execs'[e].state = IF grantOf[e] \in R /\ execs[e].state = "running"
                        THEN "incomplete" ELSE execs[e].state
  BY <1>3 DEF Terminate, ExecRows
<1>5. ASSUME NEW s \in Slots
      PROVE  calls'[<<e, s>>].state =
               IF grantOf[e] \in R /\ calls[<<e, s>>].state \in OpenStates
               THEN "cancelled" ELSE calls[<<e, s>>].state
  BY <1>1, <1>2 DEF Terminate, CallRows
<1> QED
  BY <1>4, <1>5 DEF Terminate

LEMMA TerminateSeals ==
  ASSUME SealInv, NEW R \in SUBSET Rounds, NEW final \in TerminalStatuses \ {"completed"},
         \A r \in R : status[r] \in ActiveStatuses, Terminate(R, final)
  PROVE  Sealing'
<1> USE DEF SealInv, Sealing
<1>1. RowsMatch'
  <2> SUFFICES ASSUME NEW e \in Executions, NEW s \in Slots
               PROVE  /\ execs'[e].state = "none" => calls'[<<e, s>>].state = "none"
                      /\ execs'[e].state = "complete" => calls'[<<e, s>>].state = "result"
                      /\ execs'[e].state = "incomplete" => calls'[<<e, s>>].state \notin OpenStates
    BY DEF RowsMatch
  <2>1. execs[e].state \in ExecStates
    BY DEF TypeOK, ExecRows
  <2>2. /\ execs'[e].state = IF grantOf[e] \in R /\ execs[e].state = "running"
                             THEN "incomplete" ELSE execs[e].state
        /\ calls'[<<e, s>>].state = IF grantOf[e] \in R /\ calls[<<e, s>>].state \in OpenStates
                                    THEN "cancelled" ELSE calls[<<e, s>>].state
    BY TerminateRows
  <2> QED
    BY <2>1, <2>2 DEF RowsMatch, OpenStates, ExecStates
<1>2. EndsAreLogged'
  BY DEF Terminate, EndsAreLogged, ClosedByEvent
<1>3. ASSUME NEW e \in Executions, grantOf'[e] \in Rounds,
             status'[grantOf'[e]] \in TerminalStatuses
      PROVE  /\ execs'[e].state # "running"
             /\ Drained(grantOf[e])' => \A s \in Slots : calls'[<<e, s>>].state # "dispatched"
  <2>1. grantOf'[e] = grantOf[e]
    BY DEF Terminate
  <2>2. CASE grantOf[e] \in R
    <3>1. ~ClosedByEvent(grantOf[e])
      BY <2>2 DEF EndsAreLogged, ActiveStatuses, TerminalStatuses
    <3>2. ~Drained(grantOf[e])'
      BY <2>1, <2>2, <3>1 DEF Terminate, Drained, ClosedByEvent, TerminalEvents, TerminalStatuses
    <3>3. execs'[e].state # "running"
      BY <2>2, TerminateRows
    <3> QED
      BY <2>1, <3>2, <3>3
  <2>3. CASE grantOf[e] \notin R
    <3>1. status[grantOf[e]] \in TerminalStatuses /\ roundLog'[grantOf[e]] = roundLog[grantOf[e]]
      BY <1>3, <2>1, <2>3 DEF Terminate
    <3>2. execs'[e].state = execs[e].state
          /\ \A s \in Slots : calls'[<<e, s>>].state = calls[<<e, s>>].state
      BY <2>3, TerminateRows
    <3> QED
      BY <1>3, <2>1, <3>1, <3>2 DEF ExecutionsEnd, Drained
  <2> QED
    BY <2>2, <2>3
<1>4. FundedRoundsExist'
  BY DEF Terminate, FundedRoundsExist, TypeOK, TerminalStatuses
<1> QED
  BY <1>1, <1>2, <1>3, <1>4 DEF ExecutionsEnd, Drained, Terminate

LEMMA WithdrawSeals ==
  ASSUME SealInv, NEW r \in Rounds, status[r] \in ActiveStatuses, Withdraw(r)
  PROVE  Sealing'
<1>1. PICK final \in TerminalStatuses \ {"completed"} : Terminate({r}, final)
  BY DEF Withdraw, TerminalStatuses
<1> QED
  BY <1>1, TerminateSeals

LEMMA GuardSeals ==
  ASSUME SealInv, NEW r \in Rounds, EndByGuard(r)
  PROVE  Sealing'
  BY WithdrawSeals DEF EndByGuard, GuardEnds

\* A step that only moves rounds forward, none of them to an end, seals as
\* before.
LEMMA OpenRoundsSeal ==
  ASSUME SealInv,
         execs' = execs, calls' = calls, grantOf' = grantOf,
         \A r \in Rounds : \/ status'[r] = status[r] /\ roundLog'[r] = roundLog[r]
                           \/ /\ status'[r] \notin TerminalStatuses \cup {"absent"}
                              /\ ~ClosedByEvent(r)'
  PROVE  Sealing'
<1> USE DEF SealInv, Sealing
<1>1. RowsMatch'
  BY DEF RowsMatch
<1>2. EndsAreLogged'
  BY DEF EndsAreLogged, ClosedByEvent
<1>3. ExecutionsEnd'
  BY DEF ExecutionsEnd, Drained
<1>4. FundedRoundsExist'
  BY DEF FundedRoundsExist
<1> QED
  BY <1>1, <1>2, <1>3, <1>4

\* A step that changes one execution's rows seals if that row still matches
\* and its round, should it have ended, still seals it.
LEMMA OneRowSeals ==
  ASSUME SealInv, NEW e \in Executions,
         grantOf' = grantOf, status' = status, roundLog' = roundLog,
         \A f \in Executions \ {e} :
            /\ execs'[f].state = execs[f].state
            /\ \A s \in Slots : calls'[<<f, s>>].state = calls[<<f, s>>].state,
         \A s \in Slots :
            /\ execs'[e].state = "none"       => calls'[<<e, s>>].state = "none"
            /\ execs'[e].state = "complete"   => calls'[<<e, s>>].state = "result"
            /\ execs'[e].state = "incomplete" => calls'[<<e, s>>].state \notin OpenStates,
         status[grantOf[e]] \in TerminalStatuses =>
            /\ execs'[e].state = execs[e].state
            /\ \A s \in Slots : calls'[<<e, s>>].state \in {"result", calls[<<e, s>>].state}
  PROVE  Sealing'
<1> USE DEF SealInv, Sealing
<1>1. RowsMatch'
  <2> SUFFICES ASSUME NEW f \in Executions, NEW s \in Slots
               PROVE  /\ execs'[f].state = "none" => calls'[<<f, s>>].state = "none"
                      /\ execs'[f].state = "complete" => calls'[<<f, s>>].state = "result"
                      /\ execs'[f].state = "incomplete" => calls'[<<f, s>>].state \notin OpenStates
    BY DEF RowsMatch
  <2>1. CASE f = e
    BY <2>1
  <2>2. CASE f # e
    BY <2>2 DEF RowsMatch
  <2> QED
    BY <2>1, <2>2
<1>2. EndsAreLogged'
  BY DEF EndsAreLogged, ClosedByEvent
<1>3. ASSUME NEW f \in Executions, grantOf[f] \in Rounds, status[grantOf[f]] \in TerminalStatuses
      PROVE  /\ execs'[f].state # "running"
             /\ Drained(grantOf[f]) => \A s \in Slots : calls'[<<f, s>>].state # "dispatched"
  <2>1. CASE f = e
    BY <1>3, <2>1 DEF ExecutionsEnd
  <2>2. CASE f # e
    BY <1>3, <2>2 DEF ExecutionsEnd
  <2> QED
    BY <2>1, <2>2
<1>4. FundedRoundsExist'
  BY DEF FundedRoundsExist
<1> QED
  BY <1>1, <1>2, <1>3, <1>4 DEF ExecutionsEnd, Drained

LEMMA CreateSeals ==
  ASSUME SealInv, NEW r \in Rounds, CreateRound(r)
  PROVE  Sealing'
<1> USE DEF SealInv, Sealing
<1>1. status[r] = "absent" /\ status'[r] = "draft"
  BY DEF CreateRound, CreateAllowed, TypeOK
<1>2. \A q \in Rounds \ {r} : status'[q] = status[q] /\ roundLog'[q] = roundLog[q]
  BY DEF CreateRound, TypeOK, Log
<1>3. ~ClosedByEvent(r)'
  BY <1>1 DEF CreateRound, EndsAreLogged, ClosedByEvent, TerminalEvents, TerminalStatuses,
              Log, TypeOK
<1>4. \A e \in Executions : grantOf'[e] \in {r, grantOf[e]}
  BY DEF CreateRound
<1>5. execs' = execs /\ calls' = calls
  BY DEF CreateRound
<1>6. RowsMatch'
  BY <1>5 DEF RowsMatch
<1>7. EndsAreLogged'
  BY <1>2, <1>3 DEF EndsAreLogged, ClosedByEvent
<1>8. ExecutionsEnd'
  BY <1>1, <1>2, <1>4, <1>5 DEF ExecutionsEnd, Drained, TerminalStatuses
<1>9. FundedRoundsExist'
  BY <1>1, <1>2, <1>4 DEF FundedRoundsExist
<1> QED
  BY <1>6, <1>7, <1>8, <1>9

LEMMA ArmSeals ==
  ASSUME SealInv, NEW r \in Rounds, ArmRound(r)
  PROVE  Sealing'
<1>1. CASE Withdraw(r)
  BY <1>1, WithdrawSeals DEF ArmRound, ActiveStatuses
<1>2. CASE ~Withdraw(r)
  <2>1. execs' = execs /\ calls' = calls /\ grantOf' = grantOf
    BY <1>2 DEF ArmRound
  <2>2. status'[r] = "armed" /\ ~ClosedByEvent(r)'
    BY <1>2 DEF ArmRound, SealInv, Sealing, EndsAreLogged, ClosedByEvent, TerminalEvents,
                TerminalStatuses, Log, TypeOK
  <2>3. \A q \in Rounds \ {r} : status'[q] = status[q] /\ roundLog'[q] = roundLog[q]
    BY <1>2 DEF ArmRound, SealInv, TypeOK, Log
  <2> QED
    BY <2>1, <2>2, <2>3, OpenRoundsSeal DEF TerminalStatuses
<1> QED
  BY <1>1, <1>2

\* A round may complete only when every execution of its grant is complete: the
\* two counts are then the same set.
LEMMA CompletionCoversAll ==
  ASSUME SealInv, NEW r \in Rounds, CompleteRoundAllowed(r),
         NEW e \in Executions, grantOf[e] = r
  PROVE  execs[e].state \in {"none", "complete"}
<1> DEFINE Done == {f \in Claimed(r) : execs[f].state = "complete"}
<1>1. IsFiniteSet(Claimed(r))
  <2>1. Claimed(r) \in SUBSET Executions
    BY DEF Claimed, ExecutionsOf
  <2> QED
    BY <2>1, ConstantsAssumption, FS_Subset
<1>2. Done \in SUBSET Claimed(r) /\ Cardinality(Done) = Cardinality(Claimed(r))
  BY DEF CompleteRoundAllowed
<1>3. Done = Claimed(r)
  BY <1>1, <1>2, FS_Subset
<1> QED
  BY <1>3 DEF Claimed, ExecutionsOf

LEMMA CompleteSeals ==
  ASSUME SealInv, NEW r \in Rounds, CompleteRound(r)
  PROVE  Sealing'
<1> USE DEF SealInv, Sealing
<1>1. CASE EndByGuard(r)
  BY <1>1, GuardSeals
<1>2. CASE ~EndByGuard(r)
  <2>1. CompleteRoundAllowed(r) /\ status[r] \in {"armed", "running"} /\ status'[r] = "completed"
    BY <1>2 DEF CompleteRound, CompleteRoundAllowed, GuardPasses, TypeOK
  <2>2. execs' = execs /\ calls' = calls /\ grantOf' = grantOf
    BY <1>2 DEF CompleteRound
  <2>3. \A q \in Rounds \ {r} : status'[q] = status[q] /\ roundLog'[q] = roundLog[q]
    BY <1>2 DEF CompleteRound, TypeOK, Log
  <2>4. RowsMatch'
    BY <2>2 DEF RowsMatch
  <2>5. EndsAreLogged'
    BY <2>1, <2>3 DEF EndsAreLogged, ClosedByEvent, TerminalStatuses
  <2>6. ExecutionsEnd'
    <3> SUFFICES ASSUME NEW e \in Executions, grantOf[e] \in Rounds,
                        status'[grantOf[e]] \in TerminalStatuses
                 PROVE  /\ execs[e].state # "running"
                        /\ Drained(grantOf[e])' =>
                              \A s \in Slots : calls[<<e, s>>].state # "dispatched"
      BY <2>2 DEF ExecutionsEnd, Drained
    <3>1. CASE grantOf[e] = r
      <4>1. execs[e].state \in {"none", "complete"}
        BY <2>1, <3>1, CompletionCoversAll
      <4> QED
        BY <4>1 DEF RowsMatch
    <3>2. CASE grantOf[e] # r
      <4>1. status'[grantOf[e]] = status[grantOf[e]] /\ roundLog'[grantOf[e]] = roundLog[grantOf[e]]
        BY <2>3, <3>2
      <4> QED
        BY <2>2, <4>1 DEF ExecutionsEnd, Drained
    <3> QED
      BY <3>1, <3>2
  <2>7. FundedRoundsExist'
    BY <2>1, <2>2, <2>3 DEF FundedRoundsExist
  <2> QED
    BY <2>4, <2>5, <2>6, <2>7
<1> QED
  BY <1>1, <1>2

\* The state of a call that is given up.
LEMMA AbandonedState ==
  ASSUME TypeOK, NEW c \in Calls
  PROVE  Abandoned(calls[c]).state =
            IF calls[c].state \in OpenStates THEN "cancelled"
            ELSE IF calls[c].state = "dispatched" THEN "result" ELSE calls[c].state
<1>1. calls[c] \in CallRows
  BY DEF TypeOK
<1>2. CASE calls[c].state \in OpenStates
  BY <1>1, <1>2 DEF Abandoned, CallRows, OpenStates
<1>3. CASE calls[c].state = "dispatched"
  BY <1>1, <1>3 DEF Abandoned, CallRows, OpenStates
<1>4. CASE calls[c].state \notin OpenStates /\ calls[c].state # "dispatched"
  BY <1>4 DEF Abandoned
<1> QED
  BY <1>2, <1>3, <1>4

LEMMA RecoverSeals ==
  ASSUME SealInv, NEW r \in Rounds, RecoverInterrupted(r)
  PROVE  Sealing'
<1> USE DEF SealInv, Sealing
<1>1. PICK f \in Executions : grantOf[f] = r
  BY DEF RecoverInterrupted, Recoverable, CallsOf, ExecutionsOf
<1>2. status'[r] \in TerminalStatuses
  <2>1. status[r] # "absent" /\ status[r] \in RoundStatuses
    BY <1>1 DEF FundedRoundsExist, TypeOK
  <2> QED
    BY <2>1 DEF RecoverInterrupted, RoundStatuses, TerminalStatuses, TypeOK
<1>3. \A q \in Rounds \ {r} : status'[q] = status[q] /\ roundLog'[q] = roundLog[q]
  BY DEF RecoverInterrupted, TypeOK, Log
<1>4. grantOf' = grantOf
  BY DEF RecoverInterrupted
<1>5. ASSUME NEW e \in Executions
      PROVE  execs'[e].state = IF grantOf[e] = r /\ execs[e].state = "running"
                               THEN "incomplete" ELSE execs[e].state
  <2>1. execs[e] \in ExecRows
    BY DEF TypeOK
  <2> QED
    BY <2>1 DEF RecoverInterrupted, ExecRows
<1>6. ASSUME NEW e \in Executions, NEW s \in Slots
      PROVE  calls'[<<e, s>>].state =
                IF grantOf[e] # r THEN calls[<<e, s>>].state
                ELSE IF calls[<<e, s>>].state \in OpenStates THEN "cancelled"
                ELSE IF calls[<<e, s>>].state = "dispatched" THEN "result"
                ELSE calls[<<e, s>>].state
  <2>1. <<e, s>> \in Calls /\ (<<e, s>> \in CallsOf(r) <=> grantOf[e] = r)
    BY DEF Calls, CallsOf, ExecutionsOf
  <2> QED
    BY <2>1, AbandonedState DEF RecoverInterrupted
<1>7. RowsMatch'
  <2> SUFFICES ASSUME NEW e \in Executions, NEW s \in Slots
               PROVE  /\ execs'[e].state = "none" => calls'[<<e, s>>].state = "none"
                      /\ execs'[e].state = "complete" => calls'[<<e, s>>].state = "result"
                      /\ execs'[e].state = "incomplete" => calls'[<<e, s>>].state \notin OpenStates
    BY DEF RowsMatch
  <2>1. execs[e].state \in ExecStates
    BY DEF TypeOK, ExecRows
  <2> QED
    BY <1>5, <1>6, <2>1 DEF RowsMatch, OpenStates, ExecStates
<1>8. EndsAreLogged'
  BY <1>2, <1>3 DEF EndsAreLogged, ClosedByEvent
<1>9. ExecutionsEnd'
  <2> SUFFICES ASSUME NEW e \in Executions, grantOf[e] \in Rounds,
                      status'[grantOf[e]] \in TerminalStatuses
               PROVE  /\ execs'[e].state # "running"
                      /\ Drained(grantOf[e])' =>
                            \A s \in Slots : calls'[<<e, s>>].state # "dispatched"
    BY <1>4 DEF ExecutionsEnd, Drained
  <2>1. CASE grantOf[e] = r
    BY <1>5, <1>6, <2>1 DEF OpenStates
  <2>2. CASE grantOf[e] # r
    <3>1. status'[grantOf[e]] = status[grantOf[e]] /\ roundLog'[grantOf[e]] = roundLog[grantOf[e]]
      BY <1>3, <2>2
    <3>2. execs'[e].state = execs[e].state
          /\ \A s \in Slots : calls'[<<e, s>>].state = calls[<<e, s>>].state
      BY <1>5, <1>6, <2>2
    <3> QED
      BY <1>4, <3>1, <3>2 DEF ExecutionsEnd, Drained
  <2> QED
    BY <2>1, <2>2
<1>10. FundedRoundsExist'
  BY <1>2, <1>3, <1>4 DEF FundedRoundsExist, TerminalStatuses
<1> QED
  BY <1>7, <1>8, <1>9, <1>10

\* A guarded operation of execution e that is let through: its round has not
\* ended, so only e's own rows matter.
LEMMA GuardedRowSeals ==
  ASSUME SealInv, NEW e \in Executions, NEW s \in Slots, GuardPasses(grantOf[e]),
         grantOf' = grantOf, status' = status, roundLog' = roundLog, execs' = execs,
         execs[e].state = "running",
         \A c \in Calls \ {<<e, s>>} : calls'[c] = calls[c]
  PROVE  Sealing'
<1>1. status[grantOf[e]] \notin TerminalStatuses
  BY DEF GuardPasses, TerminalStatuses
<1>2. \A f \in Executions \ {e}, t \in Slots : calls'[<<f, t>>] = calls[<<f, t>>]
  BY DEF Calls
<1> QED
  BY <1>1, <1>2, OneRowSeals

LEMMA ExecutionStepSeals ==
  ASSUME SealInv, NEW e \in Executions, ExecutionStep(e)
  PROVE  Sealing'
<1> USE DEF SealInv, Sealing
\* The guard ends the round instead of letting the operation through.
<1>1. ASSUME EndByGuard(grantOf[e]), execs[e].state # "none" PROVE Sealing'
  BY <1>1, GuardSeals DEF ClaimsAreGranted
<1>2. \A s \in Slots : <<e, s>> \in Calls
  BY DEF Calls
<1>3. ASSUME NEW s \in Slots, ReserveCall(e, s), ~EndByGuard(grantOf[e]) PROVE Sealing'
  <2>1. \A c \in Calls \ {<<e, s>>} : calls'[c] = calls[c]
    BY <1>3 DEF ReserveCall, TypeOK
  <2> QED
    BY <1>3, <2>1, GuardedRowSeals DEF ReserveCall, ReserveAllowed
<1>4. ASSUME NEW s \in Slots, MarkDispatched(e, s), ~EndByGuard(grantOf[e]) PROVE Sealing'
  <2>1. \A c \in Calls \ {<<e, s>>} : calls'[c] = calls[c]
    BY <1>4 DEF MarkDispatched, TypeOK
  <2> QED
    BY <1>4, <2>1, GuardedRowSeals DEF MarkDispatched, DispatchAllowed
<1>5. ASSUME NEW s \in Slots, NEW o \in ProviderOutcomes, FinishCall(e, s, o) PROVE Sealing'
  <2>1. calls[<<e, s>>] \in CallRows
    BY <1>2 DEF TypeOK
  <2>2. calls'[<<e, s>>].state = "result"
    BY <1>2, <1>5, <2>1 DEF FinishCall, TypeOK, CallRows
  <2>3. \A f \in Executions, t \in Slots : (f # e \/ t # s) => calls'[<<f, t>>] = calls[<<f, t>>]
    BY <1>5 DEF FinishCall, TypeOK, Calls
  <2>4. \A f \in Executions : execs'[f].state = execs[f].state
    BY <1>5 DEF FinishCall, TypeOK, ExecRows
  <2>5. execs[e].state # "none"
    BY <1>5 DEF FinishCall, FinishAllowed, Call, RowsMatch
  <2>6. \A t \in Slots :
           /\ calls'[<<e, t>>].state \in {"result", calls[<<e, t>>].state}
           /\ execs'[e].state = "none"       => calls'[<<e, t>>].state = "none"
           /\ execs'[e].state = "complete"   => calls'[<<e, t>>].state = "result"
           /\ execs'[e].state = "incomplete" => calls'[<<e, t>>].state \notin OpenStates
    BY <2>2, <2>3, <2>4, <2>5 DEF RowsMatch, OpenStates
  <2>7. grantOf' = grantOf /\ status' = status /\ roundLog' = roundLog
    BY <1>5 DEF FinishCall
  <2> QED
    BY <2>3, <2>4, <2>6, <2>7, OneRowSeals
<1>6. ASSUME NEW t \in 0..MaxTime, LockGroundTruth(e, t), ~EndByGuard(grantOf[e]) PROVE Sealing'
  <2>1. status[grantOf[e]] \notin TerminalStatuses
    BY <1>6 DEF LockGroundTruth, LockAllowed, GuardPasses, TerminalStatuses
  <2>2. \A f \in Executions : execs'[f].state = execs[f].state
    BY <1>6 DEF LockGroundTruth, TypeOK, ExecRows
  <2>3. calls' = calls /\ grantOf' = grantOf /\ status' = status /\ roundLog' = roundLog
    BY <1>6 DEF LockGroundTruth
  <2>4. \A s \in Slots :
           /\ execs'[e].state = "none"       => calls'[<<e, s>>].state = "none"
           /\ execs'[e].state = "complete"   => calls'[<<e, s>>].state = "result"
           /\ execs'[e].state = "incomplete" => calls'[<<e, s>>].state \notin OpenStates
    BY <2>2, <2>3 DEF RowsMatch
  <2> QED
    BY <2>1, <2>2, <2>3, <2>4, OneRowSeals
<1>7. CASE MarkExecutionIncomplete(e)
  <2>1. execs[e].state = "running" /\ execs'[e].state = "incomplete"
    BY <1>7 DEF MarkExecutionIncomplete, MarkIncompleteAllowed, TypeOK, ExecRows
  <2>2. \A f \in Executions \ {e} :
           /\ execs'[f].state = execs[f].state
           /\ \A s \in Slots : calls'[<<f, s>>].state = calls[<<f, s>>].state
    BY <1>7 DEF MarkExecutionIncomplete, TypeOK, Calls
  <2>3. \A s \in Slots : calls'[<<e, s>>].state \notin OpenStates
    BY <1>2, <1>7, AbandonedState DEF MarkExecutionIncomplete, OpenStates
  <2>4. grantOf' = grantOf /\ status' = status /\ roundLog' = roundLog
    BY <1>7 DEF MarkExecutionIncomplete
  <2>5. status[grantOf[e]] \notin TerminalStatuses
    BY <2>1 DEF ExecutionsEnd, ClaimsAreGranted
  <2> QED
    BY OneRowSeals, <2>1, <2>5, <2>4, <2>2, <2>3
<1>8. CASE FinalizeExecution(e)
  <2>1. execs[e].state = "running" /\ execs'[e].state = "complete"
    BY <1>8 DEF FinalizeExecution, FinalizeAllowed, TypeOK, ExecRows
  <2>2. \A f \in Executions \ {e} : execs'[f].state = execs[f].state
    BY <1>8 DEF FinalizeExecution, TypeOK
  <2>3. \A s \in Slots : calls[<<e, s>>].state = "result"
    BY <1>8 DEF FinalizeExecution, FinalizeAllowed, PrimarySucceeded, Call, Slots
  <2>4. calls' = calls /\ grantOf' = grantOf /\ status' = status /\ roundLog' = roundLog
    BY <1>8 DEF FinalizeExecution
  <2>5. status[grantOf[e]] \notin TerminalStatuses
    BY <2>1 DEF ExecutionsEnd, ClaimsAreGranted
  <2> QED
    BY OneRowSeals, <2>1, <2>5, <2>4, <2>2, <2>3
<1> QED
  BY <1>1, <1>3, <1>4, <1>5, <1>6, <1>7, <1>8
  DEF ExecutionStep, ReserveCall, MarkDispatched, LockGroundTruth

LEMMA ClaimSeals ==
  ASSUME SealInv, NEW r \in Rounds, NEW e \in Executions, ClaimExecution(r, e)
  PROVE  Sealing'
<1> USE DEF SealInv, Sealing
<1>1. CASE EndByGuard(r)
  BY <1>1, GuardSeals
<1>2. CASE ~EndByGuard(r)
  <2>1. /\ grantOf[e] = r /\ status[r] \in {"armed", "running"} /\ ~ClosedByEvent(r)
        /\ grantOf' = grantOf /\ roundLog' = roundLog
    BY <1>2 DEF ClaimExecution, ClaimAllowed, GuardPasses
  <2>2. status'[r] = "running" /\ \A q \in Rounds \ {r} : status'[q] = status[q]
    BY <1>2 DEF ClaimExecution, TypeOK
  <2>3. execs'[e].state = "running" /\ \A f \in Executions \ {e} : execs'[f] = execs[f]
    BY <1>2 DEF ClaimExecution, TypeOK, ExecRows
  <2>4. \A f \in Executions \ {e}, s \in Slots : calls'[<<f, s>>] = calls[<<f, s>>]
    BY <1>2 DEF ClaimExecution, Calls
  <2>5. RowsMatch'
    <3> SUFFICES ASSUME NEW f \in Executions, NEW s \in Slots
                 PROVE  /\ execs'[f].state = "none" => calls'[<<f, s>>].state = "none"
                        /\ execs'[f].state = "complete" => calls'[<<f, s>>].state = "result"
                        /\ execs'[f].state = "incomplete" => calls'[<<f, s>>].state \notin OpenStates
      BY DEF RowsMatch
    <3>1. CASE f = e
      BY <2>3, <3>1
    <3>2. CASE f # e
      BY <2>3, <2>4, <3>2 DEF RowsMatch
    <3> QED
      BY <3>1, <3>2
  <2>6. EndsAreLogged'
    BY <2>1, <2>2 DEF EndsAreLogged, ClosedByEvent
  <2>7. ExecutionsEnd'
    <3> SUFFICES ASSUME NEW f \in Executions, grantOf[f] \in Rounds,
                        status'[grantOf[f]] \in TerminalStatuses
                 PROVE  /\ execs'[f].state # "running"
                        /\ Drained(grantOf[f]) =>
                              \A s \in Slots : calls'[<<f, s>>].state # "dispatched"
      BY <2>1 DEF ExecutionsEnd, Drained
    <3>1. grantOf[f] # r /\ status[grantOf[f]] \in TerminalStatuses
      BY <2>2 DEF TerminalStatuses
    <3>2. f # e
      BY <2>1, <3>1
    <3> QED
      BY <2>3, <2>4, <3>1, <3>2 DEF ExecutionsEnd
  <2>8. FundedRoundsExist'
    BY <2>1, <2>2 DEF FundedRoundsExist
  <2> QED
    BY <2>5, <2>6, <2>7, <2>8
<1> QED
  BY <1>1, <1>2

LEMMA SealStep == SealInv /\ [Next]_vars => Sealing'
<1> SUFFICES ASSUME SealInv, [Next]_vars PROVE Sealing'
  OBVIOUS
<1>1. CASE UNCHANGED vars
  BY <1>1, OpenRoundsSeal DEF vars, logs
<1>2. CASE ClockMoves
  BY <1>2, OpenRoundsSeal DEF ClockMoves, logs
<1>3. ASSUME NEW r \in Rounds, RoundStep(r) PROVE Sealing'
  <2>1. CASE StopRound(r)
    <3>1. \A q \in {r} : status[q] \in ActiveStatuses
      BY <2>1 DEF StopRound
    <3> QED
      BY <2>1, <3>1, TerminateSeals DEF StopRound, TerminalStatuses
  <2> QED
    BY <1>3, <2>1, CreateSeals, ArmSeals, CompleteSeals, RecoverSeals, ClaimSeals DEF RoundStep
<1>4. ASSUME NEW a \in Authorizations, AuthorizationStep(a) PROVE Sealing'
  <2>1. CASE RecordRevocation(a)
    BY <2>1, OpenRoundsSeal DEF RecordRevocation
  <2>2. CASE StopRevokedRounds(a)
    <3> DEFINE R == {r \in Rounds : AuthOf[r] = a /\ status[r] \in ActiveStatuses}
    <3>1. R \in SUBSET Rounds /\ Terminate(R, "stopped") /\ \A r \in R : status[r] \in ActiveStatuses
      BY <2>2 DEF StopRevokedRounds
    <3> QED
      BY <3>1, TerminateSeals DEF TerminalStatuses
  <2> QED
    BY <1>4, <2>1, <2>2 DEF AuthorizationStep
<1>5. ASSUME NEW e \in Executions, ExecutionStep(e) PROVE Sealing'
  BY <1>5, ExecutionStepSeals
<1> QED
  BY <1>1, <1>2, <1>3, <1>4, <1>5 DEF Next

\* However and whenever a round ends, nothing in it is left to run: ledger.ts's
\* #terminate, completeRound and recoverInterrupted seal what they end.
THEOREM RoundsSealed == Spec => []EndedRoundsAreSealed
<1>1. Init => SealInv
  BY TypeInit, GrantedInit, SealInit DEF SealInv
<1>2. SealInv /\ [Next]_vars => SealInv'
  BY TypeStep, GrantedStep, SealStep DEF SealInv
<1> QED
  BY <1>1, <1>2, SealInvImplies, PTL DEF Spec

--------------------------------------------------------------------------------
(* 2. What a step may do.                                                   *)

LEMMA SealInvariant == Spec => []SealInv
<1>1. Init => SealInv
  BY TypeInit, GrantedInit, SealInit DEF SealInv
<1>2. SealInv /\ [Next]_vars => SealInv'
  BY TypeStep, GrantedStep, SealStep DEF SealInv
<1> QED
  BY <1>1, <1>2, PTL DEF Spec

--------------------------------------------------------------------------------
(* Slots are spent once.                                                    *)

\* A call's state moves forward only and its reservation time stays.
CallMoves(c) ==
    /\ calls[c].reservedAt # NoTime => calls'[c].reservedAt = calls[c].reservedAt
    /\ calls[c].state \in {"result", "cancelled"} => calls'[c] = calls[c]
    /\ calls[c].state = "dispatched" => calls'[c].state \in {"dispatched", "result"}
    /\ calls[c].state = "reserved" => calls'[c].state \in {"reserved", "dispatched", "cancelled"}
    /\ calls[c].state = "planned" => calls'[c].state \in {"planned", "reserved", "cancelled"}

LEMMA UnchangedMoves ==
  ASSUME NEW c \in Calls, calls'[c] = calls[c]
  PROVE  CallMoves(c)
  BY DEF CallMoves

LEMMA TerminateMoves ==
  ASSUME TypeOK, NEW R, NEW final, Terminate(R, final), NEW c \in Calls
  PROVE  CallMoves(c)
<1>1. calls[c] \in CallRows
  BY DEF TypeOK
<1>2. CASE grantOf[c[1]] \in R /\ calls[c].state \in OpenStates
  BY <1>1, <1>2 DEF Terminate, CallMoves, OpenStates, CallRows
<1>3. CASE ~(grantOf[c[1]] \in R /\ calls[c].state \in OpenStates)
  BY <1>3, UnchangedMoves DEF Terminate
<1> QED
  BY <1>2, <1>3

LEMMA GuardMoves ==
  ASSUME TypeOK, NEW r, EndByGuard(r), NEW c \in Calls
  PROVE  CallMoves(c)
  BY TerminateMoves DEF EndByGuard, Withdraw

LEMMA AbandonedMoves ==
  ASSUME TypeOK, NEW c \in Calls, calls'[c] = Abandoned(calls[c])
  PROVE  CallMoves(c)
<1>1. calls[c] \in CallRows
  BY DEF TypeOK
<1>2. CASE calls[c].state \in OpenStates
  BY <1>1, <1>2 DEF Abandoned, CallMoves, OpenStates, CallRows
<1>3. CASE calls[c].state = "dispatched"
  BY <1>1, <1>3 DEF Abandoned, CallMoves, OpenStates, CallRows
<1>4. CASE calls[c].state \notin OpenStates /\ calls[c].state # "dispatched"
  BY <1>4, UnchangedMoves DEF Abandoned
<1> QED
  BY <1>2, <1>3, <1>4

LEMMA RoundStepMoves ==
  ASSUME SealInv, NEW r \in Rounds, RoundStep(r), NEW c \in Calls
  PROVE  CallMoves(c)
<1> USE DEF SealInv
<1>1. CASE CreateRound(r)
  BY <1>1, UnchangedMoves DEF CreateRound
<1>2. CASE ArmRound(r)
  BY <1>2, UnchangedMoves, TerminateMoves DEF ArmRound, Withdraw
<1>3. CASE CompleteRound(r)
  BY <1>3, UnchangedMoves, GuardMoves DEF CompleteRound
<1>4. CASE StopRound(r)
  BY <1>4, TerminateMoves DEF StopRound
<1>5. CASE RecoverInterrupted(r)
  BY <1>5, UnchangedMoves, AbandonedMoves DEF RecoverInterrupted
<1>6. ASSUME NEW e \in Executions, ClaimExecution(r, e) PROVE CallMoves(c)
  <2>1. CASE EndByGuard(r)
    BY <2>1, GuardMoves
  <2>2. CASE ~EndByGuard(r) /\ c[1] = e
    <3>1. execs[e].state = "none"
      BY <1>6, <2>2 DEF ClaimExecution, ClaimAllowed
    <3>2. PICK f \in Executions, s \in Slots : c = <<f, s>>
      BY DEF Calls
    <3>3. calls[c].state = "none"
      BY <2>2, <3>1, <3>2 DEF Sealing, RowsMatch
    <3>4. calls'[c] = [calls[c] EXCEPT !.state = "planned"]
      BY <1>6, <2>2 DEF ClaimExecution
    <3> QED
      BY <3>3, <3>4 DEF CallMoves, TypeOK, CallRows
  <2>3. CASE ~EndByGuard(r) /\ c[1] # e
    BY <1>6, <2>3, UnchangedMoves DEF ClaimExecution
  <2> QED
    BY <2>1, <2>2, <2>3
<1> QED
  BY <1>1, <1>2, <1>3, <1>4, <1>5, <1>6 DEF RoundStep

LEMMA ExecutionStepMoves ==
  ASSUME SealInv, NEW e \in Executions, ExecutionStep(e), NEW c \in Calls
  PROVE  CallMoves(c)
<1> USE DEF SealInv
<1>1. calls[c] \in CallRows /\ calls \in [Calls -> CallRows]
  BY DEF TypeOK
<1>2. ASSUME NEW s \in Slots, ReserveCall(e, s) PROVE CallMoves(c)
  BY <1>1, <1>2, GuardMoves DEF ReserveCall, ReserveAllowed, Call, CallMoves, CallRows
<1>3. ASSUME NEW s \in Slots, MarkDispatched(e, s) PROVE CallMoves(c)
  BY <1>1, <1>3, GuardMoves DEF MarkDispatched, DispatchAllowed, Call, CallMoves, CallRows
<1>4. ASSUME NEW s \in Slots, NEW o \in ProviderOutcomes, FinishCall(e, s, o) PROVE CallMoves(c)
  BY <1>1, <1>4 DEF FinishCall, FinishAllowed, Call, CallMoves, CallRows
<1>5. ASSUME NEW t \in 0..MaxTime, LockGroundTruth(e, t) PROVE CallMoves(c)
  BY <1>5, GuardMoves, UnchangedMoves DEF LockGroundTruth
<1>6. CASE MarkExecutionIncomplete(e)
  BY <1>6, AbandonedMoves, UnchangedMoves DEF MarkExecutionIncomplete
<1>7. CASE FinalizeExecution(e)
  BY <1>7, UnchangedMoves DEF FinalizeExecution
<1> QED
  BY <1>2, <1>3, <1>4, <1>5, <1>6, <1>7 DEF ExecutionStep

LEMMA StepMoves ==
  ASSUME SealInv, [Next]_vars, NEW c \in Calls
  PROVE  CallMoves(c)
<1>1. CASE UNCHANGED vars
  BY <1>1, UnchangedMoves DEF vars
<1>2. CASE ClockMoves
  BY <1>2, UnchangedMoves DEF ClockMoves
<1>3. ASSUME NEW a \in Authorizations, AuthorizationStep(a) PROVE CallMoves(c)
  <2>1. CASE RecordRevocation(a)
    BY <2>1, UnchangedMoves DEF RecordRevocation
  <2>2. CASE StopRevokedRounds(a)
    BY <2>2, TerminateMoves DEF StopRevokedRounds, SealInv
  <2> QED
    BY <1>3, <2>1, <2>2 DEF AuthorizationStep
<1> QED
  BY <1>1, <1>2, <1>3, RoundStepMoves, ExecutionStepMoves DEF Next

\* No step of ledger.ts spends a slot twice or takes back what was spent.
THEOREM SlotsSpentOnce == Spec => SlotsAreSpentOnce
<1>1. SealInv /\ [Next]_vars => [\A c \in Calls : CallMoves(c)]_vars
  BY StepMoves
<1>2. [][\A c \in Calls : CallMoves(c)]_vars => SlotsAreSpentOnce
  BY PTL DEF SlotsAreSpentOnce, CallMoves
<1> QED
  BY <1>1, <1>2, SealInvariant, PTL DEF Spec

--------------------------------------------------------------------------------
(* Endings are final.                                                       *)

\* Ended rounds, ended executions and locked truths stay what they are.
EndingsStay ==
    /\ \A r \in Rounds : status[r] \in TerminalStatuses => status'[r] = status[r]
    /\ \A e \in Executions :
          /\ execs[e].state \in {"complete", "incomplete"} =>
                 execs'[e].state = execs[e].state
          /\ execs[e].truthAt # NoTime => execs'[e].truthAt = execs[e].truthAt

LEMMA TerminateStays ==
  ASSUME TypeOK, NEW R, NEW final, Terminate(R, final),
         \A r \in Rounds : r \in R => status[r] \in ActiveStatuses
  PROVE  EndingsStay
<1>1. \A r \in Rounds : status[r] \in TerminalStatuses => status'[r] = status[r]
  BY DEF Terminate, ActiveStatuses, TerminalStatuses
<1>2. ASSUME NEW e \in Executions
      PROVE  /\ execs[e].state \in {"complete", "incomplete"} =>
                    execs'[e].state = execs[e].state
             /\ execs'[e].truthAt = execs[e].truthAt
  BY DEF Terminate, TypeOK, ExecRows
<1> QED
  BY <1>1, <1>2 DEF EndingsStay

LEMMA GuardStays ==
  ASSUME TypeOK, NEW r \in Rounds, EndByGuard(r)
  PROVE  EndingsStay
  BY TerminateStays DEF EndByGuard, GuardEnds, Withdraw

LEMMA RoundStepStays ==
  ASSUME TypeOK, NEW r \in Rounds, RoundStep(r)
  PROVE  EndingsStay
<1>1. CASE CreateRound(r)
  <2>1. status[r] = "absent"
    BY <1>1 DEF CreateRound, CreateAllowed
  <2> QED
    BY <1>1, <2>1 DEF CreateRound, EndingsStay, TerminalStatuses, TypeOK
<1>2. CASE ArmRound(r)
  <2>1. CASE Withdraw(r)
    BY <1>2, <2>1, TerminateStays DEF ArmRound, Withdraw, ActiveStatuses
  <2>2. CASE ~Withdraw(r)
    BY <1>2, <2>2 DEF ArmRound, EndingsStay, TerminalStatuses, TypeOK
  <2> QED
    BY <2>1, <2>2
<1>3. CASE CompleteRound(r)
  <2>1. CASE EndByGuard(r)
    BY <2>1, GuardStays
  <2>2. CASE ~EndByGuard(r)
    BY <1>3, <2>2 DEF CompleteRound, CompleteRoundAllowed, GuardPasses, EndingsStay,
                      TerminalStatuses, TypeOK
  <2> QED
    BY <2>1, <2>2
<1>4. CASE StopRound(r)
  BY <1>4, TerminateStays DEF StopRound
<1>5. CASE RecoverInterrupted(r)
  <2>1. \A q \in Rounds : status[q] \in TerminalStatuses => status'[q] = status[q]
    BY <1>5 DEF RecoverInterrupted, ActiveStatuses, TerminalStatuses, TypeOK
  <2>2. ASSUME NEW e \in Executions
        PROVE  /\ execs[e].state \in {"complete", "incomplete"} =>
                      execs'[e].state = execs[e].state
               /\ execs'[e].truthAt = execs[e].truthAt
    BY <1>5 DEF RecoverInterrupted, TypeOK, ExecRows
  <2> QED
    BY <2>1, <2>2 DEF EndingsStay
<1>6. ASSUME NEW e \in Executions, ClaimExecution(r, e) PROVE EndingsStay
  <2>1. CASE EndByGuard(r)
    BY <2>1, GuardStays
  <2>2. CASE ~EndByGuard(r)
    <3>1. /\ execs' = [execs EXCEPT ![e].state = "running"] /\ execs[e].state = "none"
          /\ status' = [status EXCEPT ![r] = "running"] /\ status[r] \notin TerminalStatuses
      BY <1>6, <2>2 DEF ClaimExecution, ClaimAllowed, GuardPasses, TerminalStatuses
    <3> QED
      BY <3>1 DEF EndingsStay, TypeOK, ExecRows
  <2> QED
    BY <2>1, <2>2
<1> QED
  BY <1>1, <1>2, <1>3, <1>4, <1>5, <1>6 DEF RoundStep

LEMMA ExecutionStepStays ==
  ASSUME TypeOK, ClaimsAreGranted, NEW e \in Executions, ExecutionStep(e)
  PROVE  EndingsStay
<1>1. ASSUME execs[e].state # "none", EndByGuard(grantOf[e]) PROVE EndingsStay
  BY <1>1, GuardStays DEF ClaimsAreGranted
<1>2. ASSUME NEW s \in Slots, ReserveCall(e, s) PROVE EndingsStay
  BY <1>1, <1>2 DEF ReserveCall, EndingsStay
<1>3. ASSUME NEW s \in Slots, MarkDispatched(e, s) PROVE EndingsStay
  BY <1>1, <1>3 DEF MarkDispatched, EndingsStay
<1>4. ASSUME NEW s \in Slots, NEW o \in ProviderOutcomes, FinishCall(e, s, o) PROVE EndingsStay
  BY <1>4 DEF FinishCall, EndingsStay, TypeOK, ExecRows
<1>5. ASSUME NEW t \in 0..MaxTime, LockGroundTruth(e, t) PROVE EndingsStay
  <2>1. CASE EndByGuard(grantOf[e])
    BY <1>1, <1>5, <2>1 DEF LockGroundTruth
  <2>2. CASE ~EndByGuard(grantOf[e])
    BY <1>5, <2>2 DEF LockGroundTruth, LockAllowed, EndingsStay, TypeOK, ExecRows
  <2> QED
    BY <2>1, <2>2
<1>6. CASE MarkExecutionIncomplete(e)
  BY <1>6 DEF MarkExecutionIncomplete, MarkIncompleteAllowed, EndingsStay, TypeOK, ExecRows
<1>7. CASE FinalizeExecution(e)
  BY <1>7 DEF FinalizeExecution, FinalizeAllowed, EndingsStay, TypeOK, ExecRows
<1> QED
  BY <1>2, <1>3, <1>4, <1>5, <1>6, <1>7 DEF ExecutionStep

LEMMA StepStays ==
  ASSUME SealInv, [Next]_vars
  PROVE  EndingsStay
<1>1. CASE UNCHANGED vars
  BY <1>1 DEF vars, EndingsStay
<1>2. CASE ClockMoves
  BY <1>2 DEF ClockMoves, EndingsStay
<1>3. ASSUME NEW a \in Authorizations, AuthorizationStep(a) PROVE EndingsStay
  <2>1. CASE RecordRevocation(a)
    BY <2>1 DEF RecordRevocation, EndingsStay
  <2>2. CASE StopRevokedRounds(a)
    BY <2>2, TerminateStays DEF StopRevokedRounds, SealInv
  <2> QED
    BY <1>3, <2>1, <2>2 DEF AuthorizationStep
<1> QED
  BY <1>1, <1>2, <1>3, RoundStepStays, ExecutionStepStays DEF Next, SealInv

\* Whatever the callers of ledger.ts do and in whatever order, the first ending
\* of a round or execution stays, and a ground truth is locked once.
THEOREM EndingsFinal == Spec => EndingsAreFinal
<1>1. SealInv /\ [Next]_vars => [EndingsStay]_vars
  BY StepStays
<1>2. [][EndingsStay]_vars => EndingsAreFinal
  BY PTL DEF EndingsAreFinal, EndingsStay
<1> QED
  BY <1>1, <1>2, SealInvariant, PTL DEF Spec

--------------------------------------------------------------------------------
(* Work needs a live grant.                                                 *)

\* What WorkNeedsLiveGrant promises of a round in which a step works.
Live(r) ==
    /\ AuthOf[r] \notin revoked
    /\ lastObserved[r] <= now /\ now < ExpiresAt[AuthOf[r]]
    /\ status[r] \in ActiveStatuses

LEMMA ChecksLive ==
  ASSUME TypeOK, NEW r \in Rounds, ~IsRevoked(r), ~RolledBack(r), ~Expired(r),
         status[r] \in ActiveStatuses
  PROVE  Live(r)
<1>1. lastObserved[r] \in Nat /\ now \in Nat /\ ExpiresAt[AuthOf[r]] \in Nat
  BY ConstantsAssumption DEF TypeOK
<1> QED
  BY <1>1 DEF Live, IsRevoked, RolledBack, Expired

LEMMA PassingLives ==
  ASSUME TypeOK, NEW r \in Rounds, GuardPasses(r)
  PROVE  Live(r)
  BY ChecksLive DEF GuardPasses, ActiveStatuses

\* A step that starts nothing in a round does not work in it.
LEMMA IdleRound ==
  ASSUME NEW q \in Rounds,
         status'[q] = status[q] \/ status'[q] \notin {"armed", "running", "completed"},
         \A e \in Executions : grantOf[e] = q =>
             /\ execs[e].state = "none" => execs'[e].state = "none"
             /\ execs'[e].truthAt = execs[e].truthAt
             /\ \A s \in Slots : calls'[<<e, s>>].state \in
                                    {calls[<<e, s>>].state, "cancelled", "result"}
  PROVE  ~WorksIn(q)
<1>1. \A c \in CallsOf(q) : calls'[c].state \in {calls[c].state, "cancelled", "result"}
  BY DEF CallsOf, ExecutionsOf
<1> QED
  BY <1>1 DEF WorksIn, ExecutionsOf

LEMMA TerminateIdle ==
  ASSUME TypeOK, NEW R, NEW final \in TerminalStatuses \ {"completed"}, Terminate(R, final),
         NEW q \in Rounds
  PROVE  ~WorksIn(q)
<1>1. status'[q] = status[q] \/ status'[q] \notin {"armed", "running", "completed"}
  BY DEF Terminate, TerminalStatuses
<1>2. ASSUME NEW e \in Executions
      PROVE  /\ execs[e].state = "none" => execs'[e].state = "none"
             /\ execs'[e].truthAt = execs[e].truthAt
  BY DEF Terminate, TypeOK, ExecRows
<1>3. ASSUME NEW e \in Executions, NEW s \in Slots
      PROVE  calls'[<<e, s>>].state \in {calls[<<e, s>>].state, "cancelled", "result"}
  <2>1. <<e, s>> \in Calls /\ calls[<<e, s>>] \in CallRows
    BY DEF Calls, TypeOK
  <2>2. calls'[<<e, s>>] \in {calls[<<e, s>>],
            [calls[<<e, s>>] EXCEPT !.state = "cancelled", !.outcome = "cancelled_before_dispatch"]}
    BY <2>1 DEF Terminate
  <2> QED
    BY <2>1, <2>2 DEF CallRows
<1> QED
  BY <1>1, <1>2, <1>3, IdleRound

LEMMA GuardIdle ==
  ASSUME TypeOK, NEW r \in Rounds, EndByGuard(r), NEW q \in Rounds
  PROVE  ~WorksIn(q)
  BY TerminateIdle DEF EndByGuard, Withdraw, TerminalStatuses

LEMMA RoundStepLives ==
  ASSUME SealInv, NEW r \in Rounds, RoundStep(r), NEW q \in Rounds, WorksIn(q)
  PROVE  Live(q)
<1> USE DEF SealInv
<1>1. CASE CreateRound(r)
  <2>1. status'[q] = status[q] \/ status'[q] = "draft"
    BY <1>1 DEF CreateRound, TypeOK
  <2> QED
    BY <1>1, <2>1, IdleRound DEF CreateRound
<1>2. CASE ArmRound(r)
  <2>1. CASE Withdraw(r)
    BY <2>1, TerminateIdle DEF Withdraw, TerminalStatuses
  <2>2. CASE ~Withdraw(r) /\ q = r
    BY <1>2, <2>2, ChecksLive DEF ArmRound, ActiveStatuses
  <2>3. CASE ~Withdraw(r) /\ q # r
    BY <1>2, <2>3, IdleRound DEF ArmRound, TypeOK
  <2> QED
    BY <2>1, <2>2, <2>3
<1>3. CASE CompleteRound(r)
  <2>1. CASE EndByGuard(r)
    BY <2>1, GuardIdle
  <2>2. CASE ~EndByGuard(r) /\ q = r
    BY <1>3, <2>2, PassingLives DEF CompleteRound, CompleteRoundAllowed
  <2>3. CASE ~EndByGuard(r) /\ q # r
    BY <1>3, <2>3, IdleRound DEF CompleteRound, TypeOK
  <2> QED
    BY <2>1, <2>2, <2>3
<1>4. CASE StopRound(r)
  BY <1>4, TerminateIdle DEF StopRound, TerminalStatuses
<1>5. CASE RecoverInterrupted(r)
  <2>1. status'[q] = status[q] \/ status'[q] = "review_required"
    BY <1>5 DEF RecoverInterrupted, TypeOK
  <2>2. ASSUME NEW e \in Executions
        PROVE  /\ execs[e].state = "none" => execs'[e].state = "none"
               /\ execs'[e].truthAt = execs[e].truthAt
    BY <1>5 DEF RecoverInterrupted, TypeOK, ExecRows
  <2>3. ASSUME NEW e \in Executions, NEW s \in Slots
        PROVE  calls'[<<e, s>>].state \in {calls[<<e, s>>].state, "cancelled", "result"}
    <3>1. <<e, s>> \in Calls
      BY DEF Calls
    <3>2. calls'[<<e, s>>] \in {calls[<<e, s>>], Abandoned(calls[<<e, s>>])}
      BY <1>5, <3>1 DEF RecoverInterrupted
    <3>3. Abandoned(calls[<<e, s>>]).state \in {calls[<<e, s>>].state, "cancelled", "result"}
      BY <3>1, AbandonedState
    <3> QED
      BY <3>2, <3>3
  <2> QED
    BY <2>1, <2>2, <2>3, IdleRound
<1>6. ASSUME NEW e \in Executions, ClaimExecution(r, e) PROVE Live(q)
  <2>1. CASE EndByGuard(r)
    BY <2>1, GuardIdle
  <2>2. CASE ~EndByGuard(r) /\ q = r
    BY <1>6, <2>2, PassingLives DEF ClaimExecution, ClaimAllowed
  <2>3. CASE ~EndByGuard(r) /\ q # r
    <3>1. grantOf[e] = r /\ status'[q] = status[q]
      BY <1>6, <2>3 DEF ClaimExecution, ClaimAllowed, TypeOK
    <3>2. \A f \in Executions \ {e} : execs'[f] = execs[f]
      BY <1>6, <2>3 DEF ClaimExecution, TypeOK
    <3>3. \A f \in Executions \ {e}, s \in Slots : calls'[<<f, s>>] = calls[<<f, s>>]
      BY <1>6, <2>3 DEF ClaimExecution, Calls
    <3> QED
      BY <2>3, <3>1, <3>2, <3>3, IdleRound
  <2> QED
    BY <2>1, <2>2, <2>3
<1> QED
  BY <1>1, <1>2, <1>3, <1>4, <1>5, <1>6 DEF RoundStep

\* A guarded method on an execution of round r works in r only, and only when
\* the guard lets it.
LEMMA GuardedLives ==
  ASSUME SealInv, NEW e \in Executions, GuardPasses(grantOf[e]), execs[e].state # "none",
         status' = status,
         \A f \in Executions \ {e} :
             /\ execs'[f] = execs[f]
             /\ \A s \in Slots : calls'[<<f, s>>] = calls[<<f, s>>],
         NEW q \in Rounds, WorksIn(q)
  PROVE  Live(q)
<1>1. CASE grantOf[e] = q
  BY <1>1, PassingLives DEF SealInv
<1>2. CASE grantOf[e] # q
  BY <1>2, IdleRound
<1> QED
  BY <1>1, <1>2

LEMMA ExecutionStepLives ==
  ASSUME SealInv, NEW e \in Executions, ExecutionStep(e), NEW q \in Rounds, WorksIn(q)
  PROVE  Live(q)
<1> USE DEF SealInv
<1>1. ASSUME execs[e].state # "none", EndByGuard(grantOf[e]) PROVE Live(q)
  BY <1>1, GuardIdle DEF ClaimsAreGranted
<1>2. ASSUME NEW s \in Slots, ReserveCall(e, s), ~EndByGuard(grantOf[e]) PROVE Live(q)
  BY <1>2, GuardedLives DEF ReserveCall, ReserveAllowed, TypeOK, Calls
<1>3. ASSUME NEW s \in Slots, MarkDispatched(e, s), ~EndByGuard(grantOf[e]) PROVE Live(q)
  BY <1>3, GuardedLives DEF MarkDispatched, DispatchAllowed, TypeOK, Calls
<1>4. ASSUME NEW s \in Slots, NEW o \in ProviderOutcomes, FinishCall(e, s, o) PROVE Live(q)
  <2>1. \A f \in Executions : execs'[f].state = execs[f].state /\ execs'[f].truthAt = execs[f].truthAt
    BY <1>4 DEF FinishCall, TypeOK, ExecRows
  <2>2. \A f \in Executions, t \in Slots :
            calls'[<<f, t>>].state \in {calls[<<f, t>>].state, "cancelled", "result"}
    BY <1>4 DEF FinishCall, TypeOK, Calls, CallRows
  <2>3. status' = status
    BY <1>4 DEF FinishCall
  <2> QED
    BY <2>1, <2>2, <2>3, IdleRound
<1>5. ASSUME NEW t \in 0..MaxTime, LockGroundTruth(e, t), ~EndByGuard(grantOf[e]) PROVE Live(q)
  BY <1>5, GuardedLives DEF LockGroundTruth, LockAllowed, TypeOK
<1>6. CASE MarkExecutionIncomplete(e)
  <2>1. \A f \in Executions : /\ execs[f].state = "none" => execs'[f].state = "none"
                              /\ execs'[f].truthAt = execs[f].truthAt
    BY <1>6 DEF MarkExecutionIncomplete, MarkIncompleteAllowed, TypeOK, ExecRows
  <2>2. ASSUME NEW f \in Executions, NEW s \in Slots
        PROVE  calls'[<<f, s>>].state \in {calls[<<f, s>>].state, "cancelled", "result"}
    <3>1. <<f, s>> \in Calls
      BY DEF Calls
    <3>2. calls'[<<f, s>>] \in {calls[<<f, s>>], Abandoned(calls[<<f, s>>])}
      BY <1>6, <3>1 DEF MarkExecutionIncomplete
    <3> QED
      BY <3>1, <3>2, AbandonedState
  <2>3. status' = status
    BY <1>6 DEF MarkExecutionIncomplete
  <2> QED
    BY <2>1, <2>2, <2>3, IdleRound
<1>7. CASE FinalizeExecution(e)
  <2>1. \A f \in Executions : /\ execs[f].state = "none" => execs'[f].state = "none"
                              /\ execs'[f].truthAt = execs[f].truthAt
    BY <1>7 DEF FinalizeExecution, FinalizeAllowed, TypeOK, ExecRows
  <2> QED
    BY <1>7, <2>1, IdleRound DEF FinalizeExecution
<1> QED
  BY <1>1, <1>2, <1>3, <1>4, <1>5, <1>6, <1>7
  DEF ExecutionStep, ReserveCall, MarkDispatched, LockGroundTruth

\* No transaction of ledger.ts arms, claims, reserves, dispatches, locks or
\* completes anything in a round whose grant is revoked, out of its window or
\* whose clock ran backwards, whichever of these came first.
THEOREM WorkIsGranted == Spec => WorkNeedsLiveGrant
<1>1. ASSUME SealInv, [Next]_vars, NEW q \in Rounds, WorksIn(q) PROVE Live(q)
  <2>1. CASE UNCHANGED vars
    BY <1>1, <2>1, IdleRound DEF vars
  <2>2. CASE ClockMoves
    BY <1>1, <2>2, IdleRound DEF ClockMoves
  <2>3. ASSUME NEW a \in Authorizations, AuthorizationStep(a) PROVE Live(q)
    <3>1. CASE RecordRevocation(a)
      BY <1>1, <3>1, IdleRound DEF RecordRevocation
    <3>2. CASE StopRevokedRounds(a)
      BY <1>1, <3>2, TerminateIdle DEF StopRevokedRounds, SealInv, TerminalStatuses
    <3> QED
      BY <2>3, <3>1, <3>2 DEF AuthorizationStep
  <2> QED
    BY <1>1, <2>1, <2>2, <2>3, RoundStepLives, ExecutionStepLives DEF Next
<1>2. SealInv /\ [Next]_vars => [\A r \in Rounds : WorksIn(r) => Live(r)]_vars
  BY <1>1
<1>3. [][\A r \in Rounds : WorksIn(r) => Live(r)]_vars => WorkNeedsLiveGrant
  BY PTL DEF WorkNeedsLiveGrant, Live
<1> QED
  BY <1>2, <1>3, SealInvariant, PTL DEF Spec

--------------------------------------------------------------------------------
(* 3. The blindness of the ground truth.                                    *)
(*                                                                          *)
(* The order of three instants that three transactions read from a clock    *)
(* that may jump rests on last_observed_ms: while a round is active it is   *)
(* an upper bound of all instants recorded in the round, and #guard lets    *)
(* nobody work at a time before it.                                         *)

Taken == {"reserved", "dispatched", "result"}

\* The order of an execution's instants, and the states that go with them.
Ordered(e) ==
    /\ execs[e].truthAt # NoTime => /\ Call(e, "primary").state = "result"
                                    /\ Call(e, "primary").completedAt <= execs[e].truthAt
    /\ Call(e, "flash").reservedAt # NoTime =>
           execs[e].truthAt # NoTime /\ execs[e].truthAt <= Call(e, "flash").reservedAt
    /\ Call(e, "plus").reservedAt # NoTime =>
           /\ Call(e, "flash").reservedAt # NoTime
           /\ Call(e, "flash").reservedAt <= Call(e, "plus").reservedAt
    /\ \A s \in Slots : Call(e, s).state \in Taken => Call(e, s).reservedAt # NoTime

\* While its round is active, an execution's instants are not after
\* last_observed_ms.
Observed(e) ==
    (grantOf[e] \in Rounds /\ status[grantOf[e]] \in ActiveStatuses) =>
        /\ execs[e].truthAt <= lastObserved[grantOf[e]]
        /\ Call(e, "flash").reservedAt <= lastObserved[grantOf[e]]

TruthInv == SealInv /\ \A e \in Executions : Ordered(e) /\ Observed(e)

\* An active round's last_observed_ms only grows, and a registered execution
\* stays with its round.
ObservationsGrow ==
    /\ \A r \in Rounds : status'[r] \in ActiveStatuses =>
           \/ status[r] = "absent"
           \/ status[r] \in ActiveStatuses /\ lastObserved'[r] >= lastObserved[r]
    /\ \A e \in Executions : grantOf'[e] = grantOf[e] \/ grantOf[e] \notin Rounds

\* A step that locks no truth and takes no slot.
Steady ==
    /\ ObservationsGrow
    /\ \A e \in Executions : execs'[e].truthAt = execs[e].truthAt
    /\ \A c \in Calls : /\ calls'[c].reservedAt = calls[c].reservedAt
                        /\ calls'[c].state \in Taken => calls[c].state \in Taken

LEMMA CallType ==
  ASSUME TypeOK, NEW e \in Executions, NEW s \in Slots
  PROVE  /\ <<e, s>> \in Calls /\ Call(e, s) \in CallRows
         /\ Call(e, s).reservedAt \in Int /\ Call(e, s).completedAt \in Int
         /\ execs[e].truthAt \in Int
<1>1. <<e, s>> \in Calls
  BY DEF Calls
<1>2. calls[<<e, s>>] \in CallRows /\ execs[e] \in ExecRows
  BY <1>1 DEF TypeOK
<1> QED
  BY <1>1, <1>2 DEF Call, CallRows, ExecRows, Instant, NoTime

LEMMA SteadyObserves ==
  ASSUME TruthInv, TypeOK', Steady, NEW e \in Executions
  PROVE  Observed(e)'
<1> SUFFICES ASSUME grantOf'[e] \in Rounds, status'[grantOf'[e]] \in ActiveStatuses
             PROVE  /\ execs'[e].truthAt <= lastObserved'[grantOf'[e]]
                    /\ Call(e, "flash")'.reservedAt <= lastObserved'[grantOf'[e]]
  BY DEF Observed
<1>1. /\ execs'[e].truthAt = execs[e].truthAt
      /\ Call(e, "flash")'.reservedAt = Call(e, "flash").reservedAt
  BY CallType DEF Steady, Call, TruthInv, SealInv, Slots
<1>2. CASE grantOf[e] \notin Rounds
  <2>1. execs[e].state = "none"
    BY <1>2 DEF TruthInv, SealInv, ClaimsAreGranted
  <2>2. Call(e, "primary").state = "none"
    BY <2>1 DEF TruthInv, SealInv, Sealing, RowsMatch, Call, Slots
  <2>3. execs[e].truthAt = NoTime /\ Call(e, "flash").reservedAt = NoTime
    BY <2>2 DEF TruthInv, Ordered
  <2>4. lastObserved'[grantOf'[e]] \in Nat
    BY DEF TypeOK
  <2> QED
    BY <1>1, <2>3, <2>4 DEF NoTime
<1>3. CASE grantOf[e] \in Rounds
  <2>1. grantOf'[e] = grantOf[e] /\ status[grantOf[e]] # "absent"
    BY <1>3 DEF Steady, ObservationsGrow, TruthInv, SealInv, Sealing, FundedRoundsExist
  <2>2. /\ status[grantOf[e]] \in ActiveStatuses
        /\ lastObserved'[grantOf[e]] >= lastObserved[grantOf[e]]
    BY <1>3, <2>1 DEF Steady, ObservationsGrow
  <2>3. /\ execs[e].truthAt <= lastObserved[grantOf[e]]
        /\ Call(e, "flash").reservedAt <= lastObserved[grantOf[e]]
    BY <1>3, <2>2 DEF TruthInv, Observed
  <2>4. /\ lastObserved[grantOf[e]] \in Int /\ lastObserved'[grantOf[e]] \in Int
        /\ execs[e].truthAt \in Int /\ Call(e, "flash").reservedAt \in Int
    <3>1. "flash" \in Slots /\ TypeOK
      BY DEF Slots, TruthInv, SealInv
    <3>2. execs[e].truthAt \in Int /\ Call(e, "flash").reservedAt \in Int
      BY <3>1, CallType
    <3> QED
      BY <1>3, <3>1, <3>2 DEF TypeOK
  <2> QED
    BY <1>1, <2>1, <2>2, <2>3, <2>4
<1> QED
  BY <1>2, <1>3

LEMMA SteadyKeeps ==
  ASSUME TruthInv, TypeOK', Steady, \A c \in Calls : CallMoves(c), NEW e \in Executions
  PROVE  Ordered(e)' /\ Observed(e)'
<1>1. \A s \in Slots : /\ Call(e, s)'.reservedAt = Call(e, s).reservedAt
                       /\ Call(e, s)'.state \in Taken => Call(e, s).state \in Taken
                       /\ Call(e, s).state = "result" => Call(e, s)' = Call(e, s)
  BY CallType DEF Steady, Call, CallMoves, TruthInv, SealInv
<1>2. execs'[e].truthAt = execs[e].truthAt
  BY DEF Steady
<1>3. Ordered(e)'
  BY <1>1, <1>2 DEF TruthInv, Ordered, Slots
<1> QED
  BY <1>3, SteadyObserves

--------------------------------------------------------------------------------
(* The steps that are steady.                                               *)

LEMMA TerminateSteady ==
  ASSUME TypeOK, NEW R, NEW final \in TerminalStatuses, Terminate(R, final)
  PROVE  Steady
<1>1. \A e \in Executions : execs'[e].truthAt = execs[e].truthAt
  BY DEF Terminate, TypeOK, ExecRows
<1>2. ASSUME NEW c \in Calls
      PROVE  /\ calls'[c].reservedAt = calls[c].reservedAt
             /\ calls'[c].state \in Taken => calls[c].state \in Taken
  <2>1. calls[c] \in CallRows
    BY DEF TypeOK
  <2>2. calls'[c] \in {calls[c], [calls[c] EXCEPT !.state = "cancelled",
                                                  !.outcome = "cancelled_before_dispatch"]}
    BY DEF Terminate
  <2> QED
    BY <2>1, <2>2 DEF CallRows, Taken
<1>3. ObservationsGrow
  <2>1. ASSUME NEW r \in Rounds, status'[r] \in ActiveStatuses
        PROVE  status[r] \in ActiveStatuses /\ lastObserved'[r] = lastObserved[r]
    BY <2>1 DEF Terminate, ActiveStatuses, TerminalStatuses
  <2>2. \A r \in Rounds : lastObserved[r] \in Nat
    BY DEF TypeOK
  <2>3. grantOf' = grantOf
    BY DEF Terminate
  <2> QED
    BY <2>1, <2>2, <2>3 DEF ObservationsGrow
<1> QED
  BY <1>1, <1>2, <1>3 DEF Steady

LEMMA WithdrawSteady ==
  ASSUME TypeOK, NEW r, Withdraw(r)
  PROVE  Steady
  BY TerminateSteady DEF Withdraw, TerminalStatuses

LEMMA GuardSteady ==
  ASSUME TypeOK, NEW r, EndByGuard(r)
  PROVE  Steady
  BY WithdrawSteady DEF EndByGuard

\* Who passes the guard moves last_observed_ms forward.
LEMMA PassingObserves ==
  ASSUME TypeOK, NEW r \in Rounds, ~RolledBack(r), Observe(r), UNCHANGED grantOf,
         \A q \in Rounds : q # r => status'[q] = status[q],
         status[r] \in ActiveStatuses
  PROVE  /\ ObservationsGrow
         /\ now \in Nat /\ lastObserved[r] <= now /\ lastObserved'[r] = now
<1>1. lastObserved \in [Rounds -> Nat] /\ now \in Nat
  BY DEF TypeOK
<1>2. lastObserved[r] <= now /\ lastObserved' = [lastObserved EXCEPT ![r] = now]
  BY <1>1 DEF RolledBack, Observe
<1>3. ObservationsGrow
  BY <1>1, <1>2 DEF ObservationsGrow
<1> QED
  BY <1>1, <1>2, <1>3

LEMMA AbandonedSteady ==
  ASSUME TypeOK, NEW c \in Calls, calls'[c] = Abandoned(calls[c])
  PROVE  /\ calls'[c].reservedAt = calls[c].reservedAt
         /\ calls'[c].state \in Taken => calls[c].state \in Taken
<1>1. calls[c] \in CallRows
  BY DEF TypeOK
<1> QED
  BY <1>1 DEF Abandoned, CallRows, Taken, OpenStates

LEMMA RoundStepSteady ==
  ASSUME SealInv, NEW r \in Rounds, RoundStep(r)
  PROVE  Steady
<1> USE DEF SealInv
<1>1. CASE CreateRound(r)
  <2>1. UNCHANGED <<execs, calls>>
    BY <1>1 DEF CreateRound
  <2>2. \A e \in Executions : grantOf'[e] = grantOf[e] \/ grantOf[e] \notin Rounds
    BY <1>1, ConstantsAssumption DEF CreateRound, CreateAllowed
  <2>3. ASSUME NEW q \in Rounds, status'[q] \in ActiveStatuses
        PROVE  \/ status[q] = "absent"
               \/ status[q] \in ActiveStatuses /\ lastObserved'[q] >= lastObserved[q]
    <3>1. CASE q = r
      BY <1>1, <3>1 DEF CreateRound, CreateAllowed
    <3>2. CASE q # r
      BY <1>1, <2>3, <3>2 DEF CreateRound, Observe, TypeOK
    <3> QED
      BY <3>1, <3>2
  <2> QED
    BY <2>1, <2>2, <2>3 DEF Steady, ObservationsGrow
<1>2. CASE ArmRound(r)
  <2>1. CASE Withdraw(r)
    BY <2>1, WithdrawSteady
  <2>2. CASE ~Withdraw(r)
    <3>1. ObservationsGrow
      BY <1>2, <2>2, PassingObserves DEF ArmRound, ActiveStatuses, TypeOK
    <3> QED
      BY <1>2, <2>2, <3>1 DEF ArmRound, Steady
  <2> QED
    BY <2>1, <2>2
<1>3. CASE CompleteRound(r)
  <2>1. CASE EndByGuard(r)
    BY <2>1, GuardSteady
  <2>2. CASE ~EndByGuard(r)
    <3>1. ObservationsGrow
      BY <1>3, <2>2, PassingObserves
      DEF CompleteRound, CompleteRoundAllowed, GuardPasses, ActiveStatuses, TypeOK
    <3> QED
      BY <1>3, <2>2, <3>1 DEF CompleteRound, Steady
  <2> QED
    BY <2>1, <2>2
<1>4. CASE StopRound(r)
  BY <1>4, TerminateSteady DEF StopRound, TerminalStatuses
<1>5. CASE RecoverInterrupted(r)
  <2>1. \A e \in Executions : execs'[e].truthAt = execs[e].truthAt
    BY <1>5 DEF RecoverInterrupted, TypeOK, ExecRows
  <2>2. \A c \in Calls : calls'[c] = calls[c] \/ calls'[c] = Abandoned(calls[c])
    BY <1>5 DEF RecoverInterrupted
  <2>3. ObservationsGrow
    BY <1>5 DEF RecoverInterrupted, ObservationsGrow, Observe, ActiveStatuses, TypeOK
  <2> QED
    BY <2>1, <2>2, <2>3, AbandonedSteady DEF Steady
<1>6. ASSUME NEW e \in Executions, ClaimExecution(r, e) PROVE Steady
  <2>1. CASE EndByGuard(r)
    BY <2>1, GuardSteady
  <2>2. CASE ~EndByGuard(r)
    <3>1. ObservationsGrow
      BY <1>6, <2>2, PassingObserves
      DEF ClaimExecution, ClaimAllowed, GuardPasses, ActiveStatuses, TypeOK
    <3>2. \A f \in Executions : execs'[f].truthAt = execs[f].truthAt
      BY <1>6, <2>2 DEF ClaimExecution, TypeOK, ExecRows
    <3>3. ASSUME NEW c \in Calls
          PROVE  /\ calls'[c].reservedAt = calls[c].reservedAt
                 /\ calls'[c].state \in Taken => calls[c].state \in Taken
      <4>1. calls[c] \in CallRows
        BY DEF TypeOK
      <4>2. calls'[c] = calls[c] \/ calls'[c] = [calls[c] EXCEPT !.state = "planned"]
        BY <1>6, <2>2 DEF ClaimExecution
      <4> QED
        BY <4>1, <4>2 DEF CallRows, Taken
    <3> QED
      BY <3>1, <3>2, <3>3 DEF Steady
  <2> QED
    BY <2>1, <2>2
<1> QED
  BY <1>1, <1>2, <1>3, <1>4, <1>5, <1>6 DEF RoundStep

LEMMA SendStepSteady ==
  ASSUME SealInv, NEW e \in Executions, NEW s \in Slots,
         MarkDispatched(e, s) \/ \E o \in ProviderOutcomes : FinishCall(e, s, o)
  PROVE  Steady
<1> USE DEF SealInv
<1>1. <<e, s>> \in Calls /\ calls[<<e, s>>] \in CallRows /\ calls \in [Calls -> CallRows]
  BY CallType DEF Call, TypeOK
<1>2. CASE MarkDispatched(e, s)
  <2>1. CASE EndByGuard(grantOf[e])
    BY <2>1, GuardSteady
  <2>2. CASE ~EndByGuard(grantOf[e])
    <3>1. grantOf[e] \in Rounds
      BY <1>2 DEF MarkDispatched, ClaimsAreGranted
    <3>2. /\ GuardPasses(grantOf[e]) /\ calls[<<e, s>>].state = "reserved"
          /\ calls' = [calls EXCEPT ![<<e, s>>].state = "dispatched"]
          /\ Observe(grantOf[e]) /\ UNCHANGED <<status, grantOf, execs>>
      BY <1>2, <2>2 DEF MarkDispatched, DispatchAllowed, Call
    <3>3. ObservationsGrow
      BY <3>1, <3>2, PassingObserves DEF GuardPasses, ActiveStatuses
    <3> QED
      BY <1>1, <3>2, <3>3 DEF Steady, CallRows, Taken
  <2> QED
    BY <2>1, <2>2
<1>3. ASSUME NEW o \in ProviderOutcomes, FinishCall(e, s, o) PROVE Steady
  <2>1. \A f \in Executions : execs'[f].truthAt = execs[f].truthAt
    <3>1. PICK b : execs' = [execs EXCEPT ![e].candidate = b]
      BY <1>3 DEF FinishCall
    <3>2. execs \in [Executions -> ExecRows]
      BY DEF TypeOK
    <3> QED
      BY <3>1, <3>2 DEF ExecRows
  <2>2. \A c \in Calls : /\ calls'[c].reservedAt = calls[c].reservedAt
                         /\ calls'[c].state \in Taken => calls[c].state \in Taken
    BY <1>1, <1>3 DEF FinishCall, FinishAllowed, Call, CallRows, Taken
  <2>3. ObservationsGrow
    <3>1. UNCHANGED <<status, lastObserved, grantOf>>
      BY <1>3 DEF FinishCall
    <3>2. \A r \in Rounds : lastObserved[r] \in Nat
      BY DEF TypeOK
    <3> QED
      BY <3>1, <3>2 DEF ObservationsGrow
  <2> QED
    BY <2>1, <2>2, <2>3 DEF Steady
<1> QED
  BY <1>2, <1>3

LEMMA EndStepSteady ==
  ASSUME SealInv, NEW e \in Executions, MarkExecutionIncomplete(e) \/ FinalizeExecution(e)
  PROVE  Steady
<1> USE DEF SealInv
<1>1. \A f \in Executions : execs'[f].truthAt = execs[f].truthAt
  BY DEF MarkExecutionIncomplete, FinalizeExecution, TypeOK, ExecRows
<1>2. \A c \in Calls : calls'[c] = calls[c] \/ calls'[c] = Abandoned(calls[c])
  BY DEF MarkExecutionIncomplete, FinalizeExecution
<1>3. ObservationsGrow
  BY DEF MarkExecutionIncomplete, FinalizeExecution, ObservationsGrow, TypeOK
<1> QED
  BY <1>1, <1>2, <1>3, AbandonedSteady DEF Steady

--------------------------------------------------------------------------------
(* The two steps that record an instant.                                    *)

\* Recording an instant of execution e at time now in its round leaves the
\* others as they are.
LEMMA OthersKeep ==
  ASSUME TruthInv, TypeOK', NEW e \in Executions, NEW f \in Executions, f # e,
         ObservationsGrow, grantOf' = grantOf, execs'[f].truthAt = execs[f].truthAt,
         \A s \in Slots : calls'[<<f, s>>] = calls[<<f, s>>]
  PROVE  Ordered(f)' /\ Observed(f)'
<1>1. Ordered(f)'
  BY DEF TruthInv, Ordered, Call, Slots
<1>2. SUFFICES ASSUME grantOf[f] \in Rounds, status'[grantOf[f]] \in ActiveStatuses
               PROVE  /\ execs[f].truthAt <= lastObserved'[grantOf[f]]
                      /\ Call(f, "flash").reservedAt <= lastObserved'[grantOf[f]]
  BY <1>1 DEF Observed, Call, Slots
<1>3. /\ status[grantOf[f]] \in ActiveStatuses
      /\ lastObserved'[grantOf[f]] >= lastObserved[grantOf[f]]
  BY <1>2 DEF ObservationsGrow, TruthInv, SealInv, Sealing, FundedRoundsExist
<1>4. /\ execs[f].truthAt <= lastObserved[grantOf[f]]
      /\ Call(f, "flash").reservedAt <= lastObserved[grantOf[f]]
  BY <1>2, <1>3 DEF TruthInv, Observed
<1>5. "flash" \in Slots /\ TypeOK
  BY DEF Slots, TruthInv, SealInv
<1>6. execs[f].truthAt \in Int /\ Call(f, "flash").reservedAt \in Int
  BY <1>5, CallType
<1>7. lastObserved[grantOf[f]] \in Int /\ lastObserved'[grantOf[f]] \in Int
  BY <1>2, <1>5 DEF TypeOK
<1> QED
  BY <1>3, <1>4, <1>6, <1>7

LEMMA LockKeeps ==
  ASSUME TruthInv, TypeOK', NEW e \in Executions, NEW t \in 0..MaxTime,
         LockGroundTruth(e, t), ~EndByGuard(grantOf[e]), NEW f \in Executions
  PROVE  Ordered(f)' /\ Observed(f)'
<1> USE DEF TruthInv, SealInv
<1>1. grantOf[e] \in Rounds
  BY DEF LockGroundTruth, ClaimsAreGranted
<1>2. LockAllowed(e, t) /\ Observe(grantOf[e]) /\ UNCHANGED <<now, status, grantOf, calls>>
  BY DEF LockGroundTruth
<1>3. /\ execs'[e].truthAt = t
      /\ \A g \in Executions : g # e => execs'[g] = execs[g]
  BY DEF LockGroundTruth, TypeOK, ExecRows
<1>4. ObservationsGrow /\ now \in Nat /\ lastObserved'[grantOf[e]] = now
  BY <1>1, <1>2, PassingObserves DEF LockAllowed, GuardPasses, ActiveStatuses
<1>5. CASE f # e
  BY <1>2, <1>3, <1>4, <1>5, OthersKeep
<1>6. CASE f = e
  <2>1. execs[e].truthAt = NoTime /\ PrimarySucceeded(e) /\ t <= now
        /\ Call(e, "primary").completedAt <= t
    BY <1>2 DEF LockAllowed
  <2>2. Call(e, "flash").reservedAt = NoTime /\ Call(e, "plus").reservedAt = NoTime
    BY <2>1 DEF Ordered
  <2>3. \A s \in Slots : Call(e, s)' = Call(e, s)
    BY <1>2 DEF Call
  <2>4. Ordered(e)'
    BY <1>3, <2>1, <2>2, <2>3 DEF Ordered, PrimarySucceeded, Slots
  <2>5. Call(e, "flash")'.reservedAt <= now
    BY <1>4, <2>2, <2>3 DEF NoTime, Slots
  <2>6. Observed(e)'
    BY <1>2, <1>3, <1>4, <2>1, <2>5 DEF Observed
  <2> QED
    BY <1>6, <2>4, <2>6
<1> QED
  BY <1>5, <1>6

LEMMA ReserveKeeps ==
  ASSUME TruthInv, TypeOK', NEW e \in Executions, NEW s \in Slots,
         ReserveCall(e, s), ~EndByGuard(grantOf[e]), NEW f \in Executions
  PROVE  Ordered(f)' /\ Observed(f)'
<1> USE DEF TruthInv, SealInv
<1>1. grantOf[e] \in Rounds
  BY DEF ReserveCall, ClaimsAreGranted
<1>2. /\ ReserveAllowed(e, s) /\ Observe(grantOf[e])
      /\ UNCHANGED <<now, status, grantOf, execs>>
  BY DEF ReserveCall
<1>3. /\ ObservationsGrow /\ now \in Nat /\ lastObserved'[grantOf[e]] = now
      /\ lastObserved[grantOf[e]] <= now /\ status[grantOf[e]] \in ActiveStatuses
  BY <1>1, <1>2, PassingObserves DEF ReserveAllowed, GuardPasses, ActiveStatuses
<1>4. /\ Call(e, s)'.state = "reserved" /\ Call(e, s)'.reservedAt = now
      /\ Call(e, s)'.completedAt = Call(e, s).completedAt
      /\ \A g \in Executions, u \in Slots : <<g, u>> # <<e, s>> => calls'[<<g, u>>] = calls[<<g, u>>]
  <2>1. <<e, s>> \in Calls /\ calls[<<e, s>>] \in CallRows /\ calls \in [Calls -> CallRows]
    BY CallType DEF Call, TypeOK
  <2>2. calls' = [calls EXCEPT ![<<e, s>>] = [calls[<<e, s>>] EXCEPT !.state = "reserved",
                                                                     !.reservedAt = now]]
    BY DEF ReserveCall
  <2>3. \A g \in Executions, u \in Slots : <<g, u>> \in Calls
    BY DEF Calls
  <2> QED
    BY <2>1, <2>2, <2>3 DEF CallRows, Call
<1>5. CASE f # e
  BY <1>2, <1>3, <1>4, <1>5, OthersKeep
<1>6. CASE f = e
  <2>1. /\ Call(e, s).reservedAt = NoTime /\ Call(e, s).state = "planned"
        /\ PrerequisitesMet(e, s)
    BY <1>2 DEF ReserveAllowed
  <2>2. /\ Call(e, "primary").completedAt \in Int /\ execs[e].truthAt \in Int
        /\ Call(e, "flash").reservedAt \in Int /\ Call(e, "plus").reservedAt \in Int
        /\ lastObserved[grantOf[e]] \in Int
    <3>1. "primary" \in Slots /\ "flash" \in Slots /\ "plus" \in Slots
      BY DEF Slots
    <3>2. \A u \in Slots : /\ Call(e, u).reservedAt \in Int /\ Call(e, u).completedAt \in Int
                           /\ execs[e].truthAt \in Int
      BY CallType
    <3>3. lastObserved[grantOf[e]] \in Nat
      BY <1>1 DEF TypeOK
    <3> QED
      BY <3>1, <3>2, <3>3
  <2>3. /\ execs[e].truthAt <= now /\ Call(e, "flash").reservedAt <= now
        /\ Ordered(e)
    BY <1>1, <1>3, <2>2 DEF Observed
  <2>4. \A u \in Slots : u # s => Call(e, u)' = Call(e, u)
    BY <1>4 DEF Call
  <2>5. CASE s = "primary"
    <3>1. execs[e].truthAt = NoTime
      BY <2>1, <2>3, <2>5 DEF Ordered
    <3>2. Ordered(e)'
      BY <1>2, <1>3, <1>4, <2>3, <2>4, <2>5, <3>1 DEF Ordered, Slots, NoTime
    <3>3. Observed(e)'
      BY <1>2, <1>3, <2>3, <2>4, <2>5 DEF Observed, Slots
    <3> QED
      BY <1>6, <3>2, <3>3
  <2>6. CASE s = "flash"
    <3>1. execs[e].truthAt # NoTime /\ Call(e, "plus").reservedAt = NoTime
      BY <2>1, <2>3, <2>6 DEF Ordered, PrerequisitesMet
    <3>2. Ordered(e)'
      BY <1>2, <1>3, <1>4, <2>3, <2>4, <2>6, <3>1 DEF Ordered, Slots, NoTime
    <3>3. Observed(e)'
      BY <1>2, <1>3, <1>4, <2>3, <2>6 DEF Observed
    <3> QED
      BY <1>6, <3>2, <3>3
  <2>7. CASE s = "plus"
    <3>1. Call(e, "flash").reservedAt # NoTime
      BY <2>1, <2>3, <2>7 DEF Ordered, PrerequisitesMet, Taken, Slots
    <3>2. Ordered(e)'
      BY <1>2, <1>3, <1>4, <2>3, <2>4, <2>7, <3>1 DEF Ordered, Slots, NoTime
    <3>3. Observed(e)'
      BY <1>2, <1>3, <2>3, <2>4, <2>7 DEF Observed, Slots
    <3> QED
      BY <1>6, <3>2, <3>3
  <2> QED
    BY <2>5, <2>6, <2>7 DEF Slots
<1> QED
  BY <1>5, <1>6

--------------------------------------------------------------------------------

LEMMA TruthStep == TruthInv /\ [Next]_vars => TruthInv'
<1> SUFFICES ASSUME TruthInv, [Next]_vars PROVE TruthInv'
  OBVIOUS
<1>1. SealInv'
  BY TypeStep, GrantedStep, SealStep DEF TruthInv, SealInv
<1>2. TypeOK' /\ SealInv
  BY <1>1 DEF SealInv, TruthInv
<1>3. CASE Steady
  BY <1>1, <1>2, <1>3, SteadyKeeps, StepMoves DEF TruthInv
<1>4. CASE UNCHANGED vars
  <2>1. Steady
    BY <1>2, <1>4 DEF vars, Steady, ObservationsGrow, TypeOK
  <2> QED
    BY <1>3, <2>1
<1>5. CASE ClockMoves
  <2>1. Steady
    BY <1>2, <1>5 DEF ClockMoves, Steady, ObservationsGrow, TypeOK
  <2> QED
    BY <1>3, <2>1
<1>6. ASSUME NEW a \in Authorizations, AuthorizationStep(a) PROVE TruthInv'
  <2>1. CASE RecordRevocation(a)
    <3>1. Steady
      BY <1>2, <2>1 DEF RecordRevocation, Steady, ObservationsGrow, SealInv, TypeOK
    <3> QED
      BY <1>3, <3>1
  <2>2. CASE StopRevokedRounds(a)
    BY <1>2, <1>3, <2>2, TerminateSteady DEF StopRevokedRounds, SealInv, TerminalStatuses
  <2> QED
    BY <1>6, <2>1, <2>2 DEF AuthorizationStep
<1>7. ASSUME NEW r \in Rounds, RoundStep(r) PROVE TruthInv'
  BY <1>2, <1>3, <1>7, RoundStepSteady
<1>8. ASSUME NEW e \in Executions, ExecutionStep(e) PROVE TruthInv'
  <2>1. CASE EndByGuard(grantOf[e])
    BY <1>2, <1>3, <2>1, GuardSteady DEF SealInv
  <2>2. ASSUME NEW s \in Slots, ReserveCall(e, s), ~EndByGuard(grantOf[e]) PROVE TruthInv'
    BY <1>1, <1>2, <2>2, ReserveKeeps DEF TruthInv
  <2>3. ASSUME NEW t \in 0..MaxTime, LockGroundTruth(e, t), ~EndByGuard(grantOf[e])
        PROVE  TruthInv'
    BY <1>1, <1>2, <2>3, LockKeeps DEF TruthInv
  <2> QED
    BY <1>2, <1>3, <1>8, <2>1, <2>2, <2>3, SendStepSteady, EndStepSteady DEF ExecutionStep
<1> QED
  BY <1>4, <1>5, <1>6, <1>7, <1>8 DEF Next

LEMMA TruthInit == Init => TruthInv
<1> SUFFICES ASSUME Init PROVE TruthInv
  OBVIOUS
<1>1. SealInv
  BY TypeInit, GrantedInit, SealInit DEF SealInv
<1>2. \A e \in Executions, s \in Slots : Call(e, s) = NoCall /\ execs[e] = NoExec
  BY DEF Init, Call, Calls
<1>3. \A e \in Executions : Ordered(e) /\ Observed(e)
  BY <1>2 DEF Init, Ordered, Observed, NoCall, NoExec, NoTime, Slots, Taken, ActiveStatuses
<1> QED
  BY <1>1, <1>3 DEF TruthInv

LEMMA TruthInvariant == Spec => []TruthInv
  BY TruthInit, TruthStep, PTL DEF Spec

\* lockGroundTruth and reserveCall of ledger.ts: whatever jumps the clock makes
\* and whoever ends the round, a verifier's slot is taken only after the truth
\* was locked, and the truth is timed between the Primary's answer and Flash.
THEOREM TruthIsBlind == Spec => []TruthPrecedesVerifiers
<1>1. TruthInv => TruthPrecedesVerifiers
  BY DEF TruthInv, Ordered, TruthPrecedesVerifiers
<1> QED
  BY <1>1, TruthInvariant, PTL

--------------------------------------------------------------------------------
(* 4. What a completed round holds.                                         *)
(*                                                                          *)
(* completeRound only counts.  That the counts cover the authorized         *)
(* executions, all of them and no others, rests on grants not being shared  *)
(* and on an execution being complete only with everything it needs.        *)

CompleteAreEvaluable ==
    \A e \in Executions : execs[e].state = "complete" => Evaluable(e)

CompletedAreWhole ==
    \A r \in Rounds : status[r] = "completed" =>
        \A e \in ExecutionsOf(r) : execs[e].state = "complete"

SuiteInv == SealInv /\ GrantsAreNotShared /\ CompleteAreEvaluable /\ CompletedAreWhole

--------------------------------------------------------------------------------
(* Grants.                                                                  *)

\* A step that creates no round.
NothingCreated ==
    /\ grantOf' = grantOf
    /\ \A r \in Rounds : status'[r] = "absent" <=> status[r] = "absent"

LEMMA TerminateCreates ==
  ASSUME TypeOK, NEW R, NEW final \in TerminalStatuses, Terminate(R, final),
         \A r \in Rounds : r \in R => status[r] # "absent"
  PROVE  NothingCreated
  BY DEF Terminate, NothingCreated, TerminalStatuses

LEMMA GuardCreates ==
  ASSUME TypeOK, NEW r \in Rounds, EndByGuard(r)
  PROVE  NothingCreated
  BY TerminateCreates DEF EndByGuard, GuardEnds, Withdraw, ActiveStatuses, TerminalStatuses

LEMMA RoundStepCreates ==
  ASSUME TypeOK, NEW r \in Rounds, RoundStep(r), ~CreateRound(r)
  PROVE  NothingCreated
<1>1. CASE ArmRound(r)
  <2>1. CASE Withdraw(r)
    BY <1>1, <2>1, TerminateCreates DEF ArmRound, Withdraw, TerminalStatuses
  <2>2. CASE ~Withdraw(r)
    BY <1>1, <2>2 DEF ArmRound, NothingCreated, TypeOK
  <2> QED
    BY <2>1, <2>2
<1>2. CASE CompleteRound(r)
  <2>1. CASE EndByGuard(r)
    BY <2>1, GuardCreates
  <2>2. CASE ~EndByGuard(r)
    BY <1>2, <2>2
    DEF CompleteRound, CompleteRoundAllowed, GuardPasses, NothingCreated, TypeOK
  <2> QED
    BY <2>1, <2>2
<1>3. CASE StopRound(r)
  BY <1>3, TerminateCreates DEF StopRound, ActiveStatuses, TerminalStatuses
<1>4. CASE RecoverInterrupted(r)
  BY <1>4 DEF RecoverInterrupted, NothingCreated, ActiveStatuses, TypeOK
<1>5. ASSUME NEW e \in Executions, ClaimExecution(r, e) PROVE NothingCreated
  <2>1. CASE EndByGuard(r)
    BY <2>1, GuardCreates
  <2>2. CASE ~EndByGuard(r)
    BY <1>5, <2>2 DEF ClaimExecution, ClaimAllowed, GuardPasses, NothingCreated, TypeOK
  <2> QED
    BY <2>1, <2>2
<1> QED
  BY <1>1, <1>2, <1>3, <1>4, <1>5 DEF RoundStep

LEMMA ExecutionStepCreates ==
  ASSUME TypeOK, ClaimsAreGranted, NEW e \in Executions, ExecutionStep(e)
  PROVE  NothingCreated
<1>1. CASE UNCHANGED <<status, grantOf>>
  BY <1>1 DEF NothingCreated
<1>2. CASE execs[e].state # "none" /\ EndByGuard(grantOf[e])
  BY <1>2, GuardCreates DEF ClaimsAreGranted
<1> QED
  BY <1>1, <1>2
  DEF ExecutionStep, ReserveCall, MarkDispatched, FinishCall, LockGroundTruth,
      MarkExecutionIncomplete, FinalizeExecution

LEMMA CreateGrants ==
  ASSUME SuiteInv, NEW r \in Rounds, CreateRound(r)
  PROVE  GrantsAreNotShared'
<1> USE DEF SuiteInv, SealInv
<1> DEFINE a == AuthOf[r]
<1>1. /\ status[r] = "absent" /\ \A q \in Rounds : AuthOf[q] = a => status[q] = "absent"
      /\ \A e \in Authorized[a] : grantOf[e] = NoRound
      /\ Authorized[a] \subseteq Executions
  BY ConstantsAssumption DEF CreateRound, CreateAllowed
<1>2. /\ \A q \in Rounds : q # r => status'[q] = status[q]
      /\ \A e \in Executions : grantOf'[e] = IF e \in Authorized[a] THEN r ELSE grantOf[e]
  BY DEF CreateRound, TypeOK
<1>3. \A e \in Executions : grantOf[e] # r
  BY <1>1 DEF Sealing, FundedRoundsExist
<1>4. {e \in Executions : grantOf'[e] = r} = Authorized[a]
  BY <1>1, <1>2, <1>3
<1>5. ASSUME NEW q \in Rounds, q # r, status[q] # "absent"
      PROVE  {e \in Executions : grantOf'[e] = q} = Authorized[AuthOf[q]]
  <2>1. ExecutionsOf(q) = Authorized[AuthOf[q]]
    BY <1>5 DEF GrantsAreNotShared
  <2>2. \A e \in Executions : grantOf'[e] = q <=> grantOf[e] = q
    BY <1>1, <1>2, <1>5, ConstantsAssumption
  <2> QED
    BY <2>1, <2>2 DEF ExecutionsOf
<1> QED
  BY <1>1, <1>2, <1>4, <1>5 DEF GrantsAreNotShared, ExecutionsOf

LEMMA OthersGrants ==
  ASSUME GrantsAreNotShared, NothingCreated
  PROVE  GrantsAreNotShared'
  BY DEF GrantsAreNotShared, NothingCreated, ExecutionsOf

--------------------------------------------------------------------------------
(* Completions.                                                             *)

\* An execution is new to complete only by finalizeExecution, and a round only
\* by completeRound.
NothingCompleted ==
    /\ \A e \in Executions : execs'[e].state = "complete" => execs[e].state = "complete"
    /\ \A r \in Rounds : status'[r] = "completed" => status[r] = "completed"

LEMMA TerminateCompletes ==
  ASSUME TypeOK, NEW R, NEW final \in TerminalStatuses \ {"completed"}, Terminate(R, final)
  PROVE  NothingCompleted
<1>1. \A e \in Executions : execs'[e].state = "complete" => execs[e].state = "complete"
  BY TerminateRows
<1>2. \A r \in Rounds : status'[r] = "completed" => status[r] = "completed"
  BY DEF Terminate
<1> QED
  BY <1>1, <1>2 DEF NothingCompleted

LEMMA WithdrawCompletes ==
  ASSUME TypeOK, NEW r, Withdraw(r)
  PROVE  NothingCompleted
  BY TerminateCompletes DEF Withdraw, TerminalStatuses

LEMMA GuardCompletes ==
  ASSUME TypeOK, NEW r, EndByGuard(r)
  PROVE  NothingCompleted
  BY WithdrawCompletes DEF EndByGuard

LEMMA RoundStepCompletes ==
  ASSUME TypeOK, NEW r \in Rounds, RoundStep(r), ~CompleteRound(r)
  PROVE  NothingCompleted
<1>1. CASE CreateRound(r)
  BY <1>1 DEF CreateRound, NothingCompleted, TypeOK
<1>2. CASE ArmRound(r)
  BY <1>2, WithdrawCompletes DEF ArmRound, NothingCompleted, TypeOK
<1>3. CASE StopRound(r)
  BY <1>3, TerminateCompletes DEF StopRound, TerminalStatuses
<1>4. CASE RecoverInterrupted(r)
  BY <1>4 DEF RecoverInterrupted, NothingCompleted, TypeOK, ExecRows
<1>5. ASSUME NEW e \in Executions, ClaimExecution(r, e) PROVE NothingCompleted
  BY <1>5, GuardCompletes DEF ClaimExecution, NothingCompleted, TypeOK, ExecRows
<1> QED
  BY <1>1, <1>2, <1>3, <1>4, <1>5 DEF RoundStep

LEMMA ExecutionStepCompletes ==
  ASSUME TypeOK, NEW e \in Executions, ExecutionStep(e), ~FinalizeExecution(e)
  PROVE  NothingCompleted
<1>1. CASE EndByGuard(grantOf[e])
  BY <1>1, GuardCompletes
<1>2. CASE ~EndByGuard(grantOf[e])
  <2>1. ASSUME NEW s \in Slots, ReserveCall(e, s) PROVE NothingCompleted
    BY <1>2, <2>1 DEF ReserveCall, NothingCompleted
  <2>2. ASSUME NEW s \in Slots, MarkDispatched(e, s) PROVE NothingCompleted
    BY <1>2, <2>2 DEF MarkDispatched, NothingCompleted
  <2>3. ASSUME NEW s \in Slots, NEW o \in ProviderOutcomes, FinishCall(e, s, o)
        PROVE  NothingCompleted
    <3>1. PICK b : execs' = [execs EXCEPT ![e].candidate = b]
      BY <2>3 DEF FinishCall
    <3>2. UNCHANGED status /\ execs \in [Executions -> ExecRows]
      BY <2>3 DEF FinishCall, TypeOK
    <3> QED
      BY <3>1, <3>2 DEF NothingCompleted, ExecRows
  <2>4. ASSUME NEW t \in 0..MaxTime, LockGroundTruth(e, t) PROVE NothingCompleted
    BY <1>2, <2>4 DEF LockGroundTruth, NothingCompleted, TypeOK, ExecRows
  <2>5. CASE MarkExecutionIncomplete(e)
    BY <2>5 DEF MarkExecutionIncomplete, NothingCompleted, TypeOK, ExecRows
  <2> QED
    BY <2>3, <2>4, <2>5, <2>1, <2>2 DEF ExecutionStep
<1> QED
  BY <1>1, <1>2

--------------------------------------------------------------------------------
(* The invariant.                                                           *)

\* What is complete stays evaluable: recorded results and locked truths stay.
LEMMA EvaluableStays ==
  ASSUME SealInv, [Next]_vars, NEW e \in Executions, Evaluable(e)
  PROVE  Evaluable(e)'
<1>1. \A s \in Slots : Call(e, s)' = Call(e, s)
  <2>1. ASSUME NEW s \in Slots PROVE calls'[<<e, s>>] = calls[<<e, s>>]
    <3>1. <<e, s>> \in Calls
      BY DEF Calls
    <3> QED
      BY <3>1, StepMoves DEF Evaluable, Call, CallMoves
  <2> QED
    BY <2>1 DEF Call
<1>2. execs'[e].state = execs[e].state /\ execs'[e].truthAt = execs[e].truthAt
  BY StepStays DEF EndingsStay, Evaluable
<1> QED
  BY <1>1, <1>2 DEF Evaluable, PrimarySucceeded, Slots

LEMMA FinalizedIsEvaluable ==
  ASSUME SealInv, NEW e \in Executions, FinalizeExecution(e)
  PROVE  /\ Evaluable(e)' /\ UNCHANGED <<status, grantOf>>
         /\ \A f \in Executions : f # e => execs'[f] = execs[f]
<1>1. /\ execs'[e].state = "complete" /\ execs'[e].truthAt = execs[e].truthAt
      /\ \A f \in Executions : f # e => execs'[f] = execs[f]
  BY DEF FinalizeExecution, SealInv, TypeOK, ExecRows
<1>2. FinalizeAllowed(e) /\ UNCHANGED <<status, grantOf, calls>>
  BY DEF FinalizeExecution
<1>3. \A s \in Slots : Call(e, s)' = Call(e, s)
  BY <1>2 DEF Call
<1>4. \A s \in Slots : Call(e, s).state = "result" /\ Call(e, s).outcome \in ProviderOutcomes
  BY <1>2 DEF FinalizeAllowed, PrimarySucceeded, ProviderOutcomes, Slots
<1>5. PrimarySucceeded(e)' /\ execs[e].truthAt # NoTime
  BY <1>2, <1>3 DEF FinalizeAllowed, PrimarySucceeded, Slots
<1> QED
  BY <1>1, <1>2, <1>3, <1>4, <1>5 DEF Evaluable

\* The counts of completeRound cover the grant.
LEMMA CompletionIsWhole ==
  ASSUME SuiteInv, NEW r \in Rounds, CompleteRoundAllowed(r), NEW e \in ExecutionsOf(r)
  PROVE  execs[e].state = "complete"
<1> USE DEF SuiteInv, SealInv
<1>1. status[r] # "absent"
  BY DEF CompleteRoundAllowed, GuardPasses
<1>2. ExecutionsOf(r) = Authorized[AuthOf[r]] /\ IsFiniteSet(ExecutionsOf(r))
  <2>1. ExecutionsOf(r) \in SUBSET Executions
    BY DEF ExecutionsOf
  <2> QED
    BY <1>1, <2>1, ConstantsAssumption, FS_Subset DEF GrantsAreNotShared
<1>3. /\ Claimed(r) \in SUBSET ExecutionsOf(r)
      /\ Cardinality(Claimed(r)) = Cardinality(ExecutionsOf(r))
  BY <1>2 DEF Claimed, CompleteRoundAllowed, MaxExecutions
<1>4. Claimed(r) = ExecutionsOf(r)
  BY <1>2, <1>3, FS_Subset
<1>5. e \in Executions /\ grantOf[e] = r /\ execs[e].state # "none"
  BY <1>4 DEF Claimed, ExecutionsOf
<1> QED
  BY <1>5, CompletionCoversAll

LEMMA SuiteStep == SuiteInv /\ [Next]_vars => SuiteInv'
<1> SUFFICES ASSUME SuiteInv, [Next]_vars PROVE SuiteInv'
  OBVIOUS
<1>1. SealInv /\ TypeOK /\ ClaimsAreGranted
  BY DEF SuiteInv, SealInv
<1>2. SealInv'
  BY <1>1, TypeStep, GrantedStep, SealStep DEF SealInv
<1>3. GrantsAreNotShared'
  <2>1. ASSUME NEW r \in Rounds, CreateRound(r) PROVE GrantsAreNotShared'
    BY <2>1, CreateGrants
  <2>2. CASE NothingCreated
    BY <2>2, OthersGrants DEF SuiteInv
  <2>3. CASE UNCHANGED <<status, grantOf>>
    BY <2>2, <2>3 DEF NothingCreated
  <2>4. ASSUME NEW a \in Authorizations, StopRevokedRounds(a) PROVE NothingCreated
    BY <1>1, <2>4, TerminateCreates DEF StopRevokedRounds, ActiveStatuses, TerminalStatuses
  <2> QED
    BY <1>1, <2>1, <2>2, <2>3, <2>4, RoundStepCreates, ExecutionStepCreates
    DEF Next, vars, ClockMoves, AuthorizationStep, RecordRevocation
<1>4. \/ NothingCompleted
      \/ \E e \in Executions : FinalizeExecution(e)
      \/ \E r \in Rounds : CompleteRound(r) /\ ~EndByGuard(r)
  <2>1. CASE UNCHANGED <<status, execs>>
    BY <2>1 DEF NothingCompleted
  <2>2. ASSUME NEW a \in Authorizations, StopRevokedRounds(a) PROVE NothingCompleted
    BY <1>1, <2>2, TerminateCompletes DEF StopRevokedRounds, TerminalStatuses
  <2> QED
    BY <1>1, <2>1, <2>2, RoundStepCompletes, ExecutionStepCompletes, GuardCompletes
    DEF Next, vars, ClockMoves, AuthorizationStep, RecordRevocation
<1>5. CompleteAreEvaluable'
  <2> SUFFICES ASSUME NEW e \in Executions, execs'[e].state = "complete" PROVE Evaluable(e)'
    BY DEF CompleteAreEvaluable
  <2>1. CASE execs[e].state = "complete"
    BY <1>1, <2>1, EvaluableStays DEF SuiteInv, CompleteAreEvaluable
  <2>2. CASE execs[e].state # "complete"
    <3>1. ASSUME NEW r \in Rounds, CompleteRound(r), ~EndByGuard(r) PROVE FALSE
      BY <2>2, <3>1 DEF CompleteRound
    <3>2. PICK f \in Executions : FinalizeExecution(f)
      BY <1>4, <2>2, <3>1 DEF NothingCompleted
    <3> QED
      BY <1>1, <2>2, <3>2, FinalizedIsEvaluable
  <2> QED
    BY <2>1, <2>2
<1>6. CompletedAreWhole'
  <2> SUFFICES ASSUME NEW r \in Rounds, status'[r] = "completed",
                      NEW e \in Executions, grantOf'[e] = r
               PROVE  execs'[e].state = "complete"
    BY DEF CompletedAreWhole, ExecutionsOf
  <2>1. CASE status[r] = "completed"
    <3>1. {f \in Executions : grantOf'[f] = r} = ExecutionsOf(r)
      BY <1>3, <2>1 DEF SuiteInv, GrantsAreNotShared, ExecutionsOf
    <3>2. execs[e].state = "complete"
      BY <2>1, <3>1 DEF SuiteInv, CompletedAreWhole
    <3> QED
      BY <1>1, <3>2, StepStays DEF EndingsStay
  <2>2. CASE status[r] # "completed"
    <3>1. ~NothingCompleted /\ \A f \in Executions : ~FinalizeExecution(f)
      BY <1>1, <2>2, FinalizedIsEvaluable DEF NothingCompleted
    <3>2. PICK q \in Rounds : CompleteRound(q) /\ ~EndByGuard(q)
      BY <1>4, <3>1
    <3>3. q = r /\ CompleteRoundAllowed(r) /\ UNCHANGED <<execs, grantOf>>
      BY <1>1, <2>2, <3>2 DEF CompleteRound, TypeOK
    <3> QED
      BY <3>3, CompletionIsWhole DEF ExecutionsOf
  <2> QED
    BY <2>1, <2>2
<1> QED
  BY <1>2, <1>3, <1>5, <1>6 DEF SuiteInv

LEMMA SuiteInit == Init => SuiteInv
<1> SUFFICES ASSUME Init PROVE SuiteInv
  OBVIOUS
<1>1. SealInv
  BY TypeInit, GrantedInit, SealInit DEF SealInv
<1>2. GrantsAreNotShared /\ CompleteAreEvaluable /\ CompletedAreWhole
  BY DEF Init, GrantsAreNotShared, CompleteAreEvaluable, CompletedAreWhole, NoExec
<1> QED
  BY <1>1, <1>2 DEF SuiteInv

LEMMA SuiteInvariant == Spec => []SuiteInv
  BY SuiteInit, SuiteStep, PTL DEF Spec

\* completeRound and exportSuite of ledger.ts: a completed round has all the
\* executions its grant lists and no others, each with a locked truth and three
\* evaluable answers, whatever manifests reuse the grant or its execution ids.
THEOREM SuitesAreWhole == Spec => []CompletedRoundsAreEvaluable
<1>1. SuiteInv => CompletedRoundsAreEvaluable
  <2> SUFFICES ASSUME SuiteInv, NEW r \in Rounds, status[r] = "completed",
                      NEW e \in Authorized[AuthOf[r]]
               PROVE  grantOf[e] = r /\ Evaluable(e)
    BY DEF SuiteInv, CompletedRoundsAreEvaluable
  <2>1. e \in ExecutionsOf(r)
    BY DEF SuiteInv, GrantsAreNotShared
  <2>2. e \in Executions /\ grantOf[e] = r
    BY <2>1 DEF ExecutionsOf
  <2> QED
    BY <2>1, <2>2 DEF SuiteInv, CompletedAreWhole, CompleteAreEvaluable
<1> QED
  BY <1>1, SuiteInvariant, PTL

--------------------------------------------------------------------------------
(* 5. The agreement of the tables with the audit log, and what rests on it. *)

RoundAgrees(r) ==
    /\ roundLog[r] \cap TerminalStatuses \subseteq {status[r]}
    /\ status[r] \in TerminalStatuses <=> ClosedByEvent(r)
    /\ status[r] # "absent" <=> "created" \in roundLog[r]

\* Beyond LogsAgree: an execution given up by its caller has nothing in flight,
\* and a truth was locked for a candidate.
ExecAgrees(e) ==
    /\ grantOf[e] # NoRound <=> "registered" \in execLog[e]
    /\ execs[e].state # "none" <=> "claimed" \in execLog[e]
    /\ execs[e].truthAt # NoTime <=> "truth_locked" \in execLog[e]
    /\ execs[e].state = "complete" <=> "completed" \in execLog[e]
    /\ "incomplete" \in execLog[e] => execs[e].state = "incomplete"
    /\ (execs[e].state = "incomplete" /\ "incomplete" \notin execLog[e])
           => ClosedByEvent(grantOf[e])
    /\ "incomplete" \in execLog[e] => \A s \in Slots : Call(e, s).state # "dispatched"
    /\ execs[e].truthAt # NoTime => execs[e].candidate = TRUE

\* Beyond LogsAgree: nothing was sent of a call not yet planned, and a verifier's
\* slot is taken for a candidate.
CallAgrees(e, s) ==
    /\ Call(e, s).reservedAt # NoTime <=> "reserved" \in callLog[<<e, s>>]
    /\ Call(e, s).state \in {"none", "planned", "reserved"} =>
           "dispatched" \notin callLog[<<e, s>>]
    /\ Call(e, s).state = "dispatched" => callLog[<<e, s>>] = {"reserved", "dispatched"}
    /\ Call(e, s).state = "result" =>
           ("result" \in callLog[<<e, s>>] <=> Call(e, s).outcome # "unknown_after_crash")
    /\ (s # "primary" /\ Call(e, s).state \in Taken) => execs[e].candidate = TRUE

LogInv ==
    /\ TruthInv
    /\ \A r \in Rounds : RoundAgrees(r)
    /\ \A e \in Executions : ExecAgrees(e)
    /\ \A e \in Executions, s \in Slots : CallAgrees(e, s)
    /\ \A a \in Authorizations : a \in revoked <=> "revoked" \in authLog[a]

LEMMA LogInvTypes ==
  ASSUME LogInv
  PROVE  SealInv /\ TypeOK /\ ClaimsAreGranted /\ Sealing
  BY DEF LogInv, TruthInv, SealInv

--------------------------------------------------------------------------------
(* Rounds.                                                                  *)

LEMMA TerminateRoundAgrees ==
  ASSUME LogInv, NEW R, NEW final \in TerminalStatuses, Terminate(R, final),
         NEW r \in Rounds, r \in R => status[r] \in ActiveStatuses
  PROVE  RoundAgrees(r)'
<1>1. TypeOK /\ RoundAgrees(r)
  BY LogInvTypes DEF LogInv
<1>2. CASE r \in R
  <2>1. status'[r] = final /\ roundLog'[r] = roundLog[r] \cup {final}
    BY <1>2 DEF Terminate
  <2>2. /\ status[r] \notin TerminalStatuses /\ status[r] # "absent"
        /\ final # "created" /\ final # "absent" /\ final \in TerminalEvents
    BY <1>2 DEF ActiveStatuses, TerminalStatuses, TerminalEvents
  <2> QED
    BY <1>1, <2>1, <2>2 DEF RoundAgrees, ClosedByEvent, TerminalEvents
<1>3. CASE r \notin R
  BY <1>1, <1>3 DEF Terminate, RoundAgrees, ClosedByEvent
<1> QED
  BY <1>2, <1>3

LEMMA GuardRoundAgrees ==
  ASSUME LogInv, NEW q \in Rounds, EndByGuard(q), NEW r \in Rounds
  PROVE  RoundAgrees(r)'
  BY TerminateRoundAgrees DEF EndByGuard, GuardEnds, Withdraw, TerminalStatuses

LEMMA SameRoundAgrees ==
  ASSUME LogInv, NEW r \in Rounds, status'[r] = status[r], roundLog'[r] = roundLog[r]
  PROVE  RoundAgrees(r)'
  BY DEF LogInv, RoundAgrees, ClosedByEvent

LEMMA RoundStepRoundAgrees ==
  ASSUME LogInv, NEW q \in Rounds, RoundStep(q), NEW r \in Rounds
  PROVE  RoundAgrees(r)'
<1>1. TypeOK /\ Sealing /\ RoundAgrees(r)
  BY LogInvTypes DEF LogInv
<1>2. status \in [Rounds -> RoundStatuses] /\ roundLog \in [Rounds -> SUBSET RoundEvents]
  BY <1>1 DEF TypeOK
<1>3. CASE CreateRound(q)
  <2>1. CASE r = q
    <3>1. status[r] = "absent" /\ status'[r] = "draft" /\ roundLog'[r] = roundLog[r] \cup {"created"}
      BY <1>2, <1>3, <2>1 DEF CreateRound, CreateAllowed, Log
    <3> QED
      BY <1>1, <3>1 DEF RoundAgrees, ClosedByEvent, TerminalEvents, TerminalStatuses
  <2>2. CASE r # q
    BY <1>2, <1>3, <2>2, SameRoundAgrees DEF CreateRound, Log
  <2> QED
    BY <2>1, <2>2
<1>4. CASE ArmRound(q)
  <2>1. CASE Withdraw(q)
    BY <1>4, <2>1, TerminateRoundAgrees DEF ArmRound, Withdraw, TerminalStatuses, ActiveStatuses
  <2>2. CASE ~Withdraw(q) /\ r = q
    <3>1. status[r] = "draft" /\ status'[r] = "armed" /\ roundLog'[r] = roundLog[r] \cup {"armed"}
      BY <1>2, <1>4, <2>2 DEF ArmRound, Log
    <3> QED
      BY <1>1, <3>1 DEF RoundAgrees, ClosedByEvent, TerminalEvents, TerminalStatuses
  <2>3. CASE ~Withdraw(q) /\ r # q
    BY <1>2, <1>4, <2>3, SameRoundAgrees DEF ArmRound, Log
  <2> QED
    BY <2>1, <2>2, <2>3
<1>5. CASE CompleteRound(q)
  <2>1. CASE EndByGuard(q)
    BY <2>1, GuardRoundAgrees
  <2>2. CASE ~EndByGuard(q) /\ r = q
    <3>1. /\ status[r] \in {"armed", "running"} /\ status'[r] = "completed"
          /\ roundLog'[r] = roundLog[r] \cup {"completed"}
      BY <1>2, <1>5, <2>2 DEF CompleteRound, CompleteRoundAllowed, GuardPasses, Log
    <3> QED
      BY <1>1, <3>1 DEF RoundAgrees, ClosedByEvent, TerminalEvents, TerminalStatuses
  <2>3. CASE ~EndByGuard(q) /\ r # q
    BY <1>2, <1>5, <2>3, SameRoundAgrees DEF CompleteRound, Log
  <2> QED
    BY <2>1, <2>2, <2>3
<1>6. CASE StopRound(q)
  BY <1>6, TerminateRoundAgrees DEF StopRound, TerminalStatuses
<1>7. CASE RecoverInterrupted(q)
  <2>1. CASE r = q
    <3>1. status[r] # "absent"
      <4>1. PICK e \in Executions : grantOf[e] = q
        BY <1>7 DEF RecoverInterrupted, Recoverable, CallsOf, ExecutionsOf
      <4> QED
        BY <1>1, <2>1, <4>1 DEF Sealing, FundedRoundsExist
    <3>2. /\ roundLog'[r] = roundLog[r] \cup {"recovered"}
          /\ status'[r] = IF status[r] \in ActiveStatuses THEN "review_required" ELSE status[r]
      BY <1>2, <1>7, <2>1 DEF RecoverInterrupted, Log
    <3>3. status[r] \in ActiveStatuses \cup TerminalStatuses
      BY <1>2, <3>1 DEF RoundStatuses
    <3> QED
      BY <1>1, <3>1, <3>2, <3>3
      DEF RoundAgrees, ClosedByEvent, TerminalEvents, TerminalStatuses, ActiveStatuses
  <2>2. CASE r # q
    BY <1>2, <1>7, <2>2, SameRoundAgrees DEF RecoverInterrupted, Log
  <2> QED
    BY <2>1, <2>2
<1>8. ASSUME NEW e \in Executions, ClaimExecution(q, e) PROVE RoundAgrees(r)'
  <2>1. CASE EndByGuard(q)
    BY <2>1, GuardRoundAgrees
  <2>2. CASE ~EndByGuard(q)
    <3>1. /\ roundLog'[r] = roundLog[r]
          /\ \/ status'[r] = status[r]
             \/ status[r] \in {"armed", "running"} /\ status'[r] = "running"
      BY <1>2, <1>8, <2>2 DEF ClaimExecution, ClaimAllowed, GuardPasses
    <3> QED
      BY <1>1, <3>1 DEF RoundAgrees, ClosedByEvent, TerminalEvents, TerminalStatuses
  <2> QED
    BY <2>1, <2>2
<1> QED
  BY <1>3, <1>4, <1>5, <1>6, <1>7, <1>8 DEF RoundStep

LEMMA ExecutionStepRoundAgrees ==
  ASSUME LogInv, NEW e \in Executions, ExecutionStep(e), NEW r \in Rounds
  PROVE  RoundAgrees(r)'
<1>1. CASE UNCHANGED <<status, roundLog>>
  BY <1>1, SameRoundAgrees
<1>2. CASE execs[e].state # "none" /\ EndByGuard(grantOf[e])
  BY <1>2, LogInvTypes, GuardRoundAgrees DEF ClaimsAreGranted
<1> QED
  BY <1>1, <1>2
  DEF ExecutionStep, ReserveCall, MarkDispatched, FinishCall, LockGroundTruth,
      MarkExecutionIncomplete, FinalizeExecution

--------------------------------------------------------------------------------
(* Executions and calls that a step leaves alone, gives up or answers.      *)

\* The log of a round only grows, and so does what is known of an execution.
LogsGrow ==
    /\ \A r \in Rounds : roundLog[r] \subseteq roundLog'[r]
    /\ \A e \in Executions : execs[e].candidate = TRUE => execs'[e].candidate = TRUE

\* An execution whose row and log stay, while none of its calls is sent once its
\* caller gave it up.
LEMMA ExecAgreesKept ==
  ASSUME LogInv, LogsGrow, NEW e \in Executions,
         grantOf'[e] = grantOf[e], execLog'[e] = execLog[e],
         execs'[e].state = execs[e].state, execs'[e].truthAt = execs[e].truthAt,
         \A s \in Slots : Call(e, s)'.state = "dispatched" =>
             Call(e, s).state = "dispatched" \/ ~ExecutionSettled(e)
  PROVE  ExecAgrees(e)'
<1>1. ExecAgrees(e) /\ (execs[e].state # "none" => grantOf[e] \in Rounds)
  BY LogInvTypes DEF LogInv, ClaimsAreGranted
<1>2. ClosedByEvent(grantOf[e]) /\ grantOf[e] \in Rounds => ClosedByEvent(grantOf[e])'
  BY DEF ClosedByEvent, LogsGrow
<1>3. execs[e].candidate = TRUE => execs'[e].candidate = TRUE
  BY DEF LogsGrow
<1> QED
  BY <1>1, <1>2, <1>3 DEF ExecAgrees, ExecutionSettled, ExecTerminal

\* An execution that a step ends because its round ends.
LEMMA ExecAgreesEnded ==
  ASSUME LogInv, LogsGrow, NEW e \in Executions, execs[e].state = "running",
         execs'[e].state = "incomplete", execs'[e].truthAt = execs[e].truthAt,
         grantOf'[e] = grantOf[e], execLog'[e] = execLog[e], ClosedByEvent(grantOf[e])',
         \A s \in Slots : Call(e, s)'.state = "dispatched" => Call(e, s).state = "dispatched"
  PROVE  ExecAgrees(e)'
<1>1. ExecAgrees(e)
  BY DEF LogInv
<1>2. execs[e].candidate = TRUE => execs'[e].candidate = TRUE
  BY DEF LogsGrow
<1> QED
  BY <1>1, <1>2 DEF ExecAgrees

\* A call whose log stays: it stays itself, is planned, is cancelled, or is
\* answered with an unknown outcome.
QuietCall(e, s) ==
    /\ callLog'[<<e, s>>] = callLog[<<e, s>>]
    /\ Call(e, s)'.reservedAt = Call(e, s).reservedAt
    /\ \/ /\ Call(e, s)'.state = Call(e, s).state
          /\ Call(e, s)'.outcome = Call(e, s).outcome
       \/ Call(e, s).state = "none" /\ Call(e, s)'.state = "planned"
       \/ Call(e, s)'.state = "cancelled"
       \/ /\ Call(e, s).state = "dispatched" /\ Call(e, s)'.state = "result"
          /\ Call(e, s)'.outcome = "unknown_after_crash"

LEMMA CallAgreesKept ==
  ASSUME LogInv, LogsGrow, NEW e \in Executions, NEW s \in Slots, QuietCall(e, s)
  PROVE  CallAgrees(e, s)'
<1>1. CallAgrees(e, s) /\ (execs[e].candidate = TRUE => execs'[e].candidate = TRUE)
  BY DEF LogInv, LogsGrow
<1> QED
  BY <1>1 DEF CallAgrees, QuietCall, Taken

\* The rows of calls that a step leaves, plans, cancels or abandons.
LEMMA QuietRows ==
  ASSUME TypeOK, NEW e \in Executions, NEW s \in Slots, UNCHANGED callLog,
         \/ calls'[<<e, s>>] = calls[<<e, s>>]
         \/ calls[<<e, s>>].state = "none"
            /\ calls'[<<e, s>>] = [calls[<<e, s>>] EXCEPT !.state = "planned"]
         \/ calls'[<<e, s>>] = [calls[<<e, s>>] EXCEPT !.state = "cancelled",
                                                       !.outcome = "cancelled_before_dispatch"]
         \/ calls'[<<e, s>>] = Abandoned(calls[<<e, s>>])
  PROVE  QuietCall(e, s)
<1>1. calls[<<e, s>>] \in CallRows
  BY CallType DEF Call
<1> QED
  BY <1>1 DEF QuietCall, Call, CallRows, Abandoned

--------------------------------------------------------------------------------
(* #terminate.                                                              *)

LEMMA TerminateAgrees ==
  ASSUME LogInv, NEW R \in SUBSET Rounds, NEW final \in TerminalStatuses, Terminate(R, final),
         NEW e \in Executions
  PROVE  ExecAgrees(e)' /\ \A s \in Slots : CallAgrees(e, s)'
<1>1. TypeOK
  BY LogInvTypes
<1>2. execs[e] \in ExecRows /\ \A s \in Slots : <<e, s>> \in Calls /\ <<e, s>>[1] = e
  BY <1>1 DEF TypeOK, Calls
<1>3. LogsGrow
  BY <1>1 DEF Terminate, LogsGrow, TypeOK, ExecRows
<1>4. \A s \in Slots : QuietCall(e, s)
  <2>1. ASSUME NEW s \in Slots PROVE QuietCall(e, s)
    <3>1. UNCHANGED callLog
      BY DEF Terminate
    <3>2. calls'[<<e, s>>] \in {calls[<<e, s>>],
              [calls[<<e, s>>] EXCEPT !.state = "cancelled",
                                      !.outcome = "cancelled_before_dispatch"]}
      BY <1>2 DEF Terminate
    <3> QED
      BY <1>1, <3>1, <3>2, QuietRows
  <2> QED
    BY <2>1
<1>5. \A s \in Slots : CallAgrees(e, s)'
  BY <1>3, <1>4, CallAgreesKept
<1>6. \A s \in Slots : Call(e, s)'.state = "dispatched" => Call(e, s).state = "dispatched"
  BY <1>4 DEF QuietCall
<1>7. grantOf' = grantOf /\ execLog' = execLog
  BY DEF Terminate
<1>8. CASE grantOf[e] \in R /\ execs[e].state = "running"
  <2>1. execs'[e].state = "incomplete" /\ execs'[e].truthAt = execs[e].truthAt
    BY <1>2, <1>8 DEF Terminate, ExecRows
  <2>2. ClosedByEvent(grantOf[e])'
    BY <1>7, <1>8 DEF Terminate, ClosedByEvent, TerminalEvents
  <2> QED
    BY <1>3, <1>5, <1>6, <1>7, <1>8, <2>1, <2>2, ExecAgreesEnded
<1>9. CASE ~(grantOf[e] \in R /\ execs[e].state = "running")
  <2>1. execs'[e] = execs[e]
    BY <1>9 DEF Terminate
  <2> QED
    BY <1>3, <1>5, <1>6, <1>7, <2>1, ExecAgreesKept
<1> QED
  BY <1>8, <1>9

LEMMA WithdrawAgrees ==
  ASSUME LogInv, NEW r \in Rounds, Withdraw(r), NEW e \in Executions
  PROVE  ExecAgrees(e)' /\ \A s \in Slots : CallAgrees(e, s)'
  BY TerminateAgrees DEF Withdraw, TerminalStatuses

LEMMA GuardAgrees ==
  ASSUME LogInv, NEW r \in Rounds, EndByGuard(r), NEW e \in Executions
  PROVE  ExecAgrees(e)' /\ \A s \in Slots : CallAgrees(e, s)'
  BY WithdrawAgrees DEF EndByGuard

\* A step that touches neither executions nor calls.
LEMMA RoundsOnlyAgrees ==
  ASSUME LogInv, UNCHANGED <<grantOf, execs, calls, execLog, callLog>>,
         \A r \in Rounds : roundLog[r] \subseteq roundLog'[r], NEW e \in Executions
  PROVE  ExecAgrees(e)' /\ \A s \in Slots : CallAgrees(e, s)'
<1>1. LogsGrow
  BY DEF LogsGrow
<1>2. \A s \in Slots : QuietCall(e, s)
  BY DEF QuietCall, Call
<1> QED
  BY <1>1, <1>2, ExecAgreesKept, CallAgreesKept DEF Call

--------------------------------------------------------------------------------
(* The operations on rounds.                                                *)

LEMMA CreateAgrees ==
  ASSUME LogInv, NEW r \in Rounds, CreateRound(r), NEW e \in Executions
  PROVE  ExecAgrees(e)' /\ \A s \in Slots : CallAgrees(e, s)'
<1>1. TypeOK /\ ClaimsAreGranted /\ ExecAgrees(e)
  BY LogInvTypes DEF LogInv
<1>2. UNCHANGED <<execs, calls, callLog>> /\ \A q \in Rounds : roundLog[q] \subseteq roundLog'[q]
  BY <1>1 DEF CreateRound, Log, TypeOK
<1>3. LogsGrow /\ \A s \in Slots : QuietCall(e, s)
  BY <1>2 DEF LogsGrow, QuietCall, Call
<1>4. \A s \in Slots : CallAgrees(e, s)'
  BY <1>3, CallAgreesKept
<1>5. CASE e \in Authorized[AuthOf[r]]
  <2>1. grantOf[e] = NoRound /\ grantOf'[e] = r /\ execLog'[e] = execLog[e] \cup {"registered"}
    BY <1>5 DEF CreateRound, CreateAllowed
  <2>2. execs[e].state = "none" /\ r # NoRound
    BY <1>1, <2>1, ConstantsAssumption DEF ClaimsAreGranted
  <2>3. ExecAgrees(e)'
    BY <1>1, <1>2, <2>1, <2>2 DEF ExecAgrees, Call
  <2> QED
    BY <1>4, <2>3
<1>6. CASE e \notin Authorized[AuthOf[r]]
  <2>1. grantOf'[e] = grantOf[e] /\ execLog'[e] = execLog[e]
    BY <1>6 DEF CreateRound
  <2> QED
    BY <1>2, <1>3, <1>4, <2>1, ExecAgreesKept DEF Call
<1> QED
  BY <1>5, <1>6

LEMMA RecoverAgrees ==
  ASSUME LogInv, NEW r \in Rounds, RecoverInterrupted(r), NEW e \in Executions
  PROVE  ExecAgrees(e)' /\ \A s \in Slots : CallAgrees(e, s)'
<1>1. TypeOK
  BY LogInvTypes
<1>2. /\ execs[e] \in ExecRows /\ \A s \in Slots : <<e, s>> \in Calls
      /\ UNCHANGED <<grantOf, execLog, callLog>>
  BY <1>1 DEF TypeOK, Calls, RecoverInterrupted
<1>3. LogsGrow
  BY <1>1 DEF RecoverInterrupted, Log, LogsGrow, TypeOK, ExecRows
<1>4. ASSUME NEW s \in Slots PROVE QuietCall(e, s)
  <2>1. calls'[<<e, s>>] \in {calls[<<e, s>>], Abandoned(calls[<<e, s>>])}
    BY <1>2 DEF RecoverInterrupted
  <2> QED
    BY <1>1, <1>2, <2>1, QuietRows
<1>5. \A s \in Slots : CallAgrees(e, s)'
  BY <1>3, <1>4, CallAgreesKept
<1>6. \A s \in Slots : Call(e, s)'.state = "dispatched" => Call(e, s).state = "dispatched"
  BY <1>4 DEF QuietCall
<1>7. CASE grantOf[e] = r /\ execs[e].state = "running"
  <2>1. execs'[e].state = "incomplete" /\ execs'[e].truthAt = execs[e].truthAt
    BY <1>2, <1>7 DEF RecoverInterrupted, ExecRows
  <2>2. ClosedByEvent(grantOf[e])'
    BY <1>1, <1>2, <1>7 DEF RecoverInterrupted, ClosedByEvent, TerminalEvents, Log, TypeOK
  <2> QED
    BY <1>2, <1>3, <1>5, <1>6, <1>7, <2>1, <2>2, ExecAgreesEnded
<1>8. CASE ~(grantOf[e] = r /\ execs[e].state = "running")
  <2>1. execs'[e] = execs[e]
    BY <1>8 DEF RecoverInterrupted
  <2> QED
    BY <1>2, <1>3, <1>5, <1>6, <2>1, ExecAgreesKept
<1> QED
  BY <1>7, <1>8

LEMMA ClaimAgrees ==
  ASSUME LogInv, NEW r \in Rounds, NEW f \in Executions, ClaimExecution(r, f),
         ~EndByGuard(r), NEW e \in Executions
  PROVE  ExecAgrees(e)' /\ \A s \in Slots : CallAgrees(e, s)'
<1>1. TypeOK /\ Sealing /\ ExecAgrees(e)
  BY LogInvTypes DEF LogInv
<1>2. /\ execs \in [Executions -> ExecRows] /\ execs[f] \in ExecRows
      /\ \A s \in Slots : <<e, s>> \in Calls /\ <<e, s>>[1] = e
  BY <1>1 DEF TypeOK, Calls
<1>3. /\ execs[f].state = "none" /\ execs' = [execs EXCEPT ![f].state = "running"]
      /\ UNCHANGED <<grantOf, roundLog, callLog>>
      /\ execLog' = [execLog EXCEPT ![f] = @ \cup {"claimed"}]
  BY DEF ClaimExecution, ClaimAllowed, Log
<1>4. LogsGrow
  BY <1>2, <1>3 DEF LogsGrow, ExecRows
<1>5. ASSUME NEW s \in Slots PROVE QuietCall(e, s)
  <2>1. CASE e = f
    <3>1. calls[<<e, s>>].state = "none"
      BY <1>1, <1>3, <2>1 DEF Sealing, RowsMatch
    <3>2. calls'[<<e, s>>] = [calls[<<e, s>>] EXCEPT !.state = "planned"]
      BY <1>2, <2>1 DEF ClaimExecution
    <3> QED
      BY <1>1, <1>3, <3>1, <3>2, QuietRows
  <2>2. CASE e # f
    <3>1. calls'[<<e, s>>] = calls[<<e, s>>]
      BY <1>2, <2>2 DEF ClaimExecution
    <3> QED
      BY <1>1, <1>3, <3>1, QuietRows
  <2> QED
    BY <2>1, <2>2
<1>6. \A s \in Slots : CallAgrees(e, s)'
  BY <1>4, <1>5, CallAgreesKept
<1>7. \A s \in Slots : Call(e, s)'.state = "dispatched" => Call(e, s).state = "dispatched"
  BY <1>5 DEF QuietCall
<1>8. CASE e = f
  <2>1. /\ execs'[e].state = "running" /\ execs'[e].truthAt = execs[e].truthAt
        /\ execs'[e].candidate = execs[e].candidate
        /\ execLog'[e] = execLog[e] \cup {"claimed"}
    BY <1>1, <1>2, <1>3, <1>8 DEF ExecRows, TypeOK
  <2>2. ExecAgrees(e)'
    BY <1>1, <1>3, <1>8, <2>1 DEF ExecAgrees
  <2> QED
    BY <1>6, <2>2
<1>9. CASE e # f
  <2>1. execs'[e] = execs[e] /\ execLog'[e] = execLog[e]
    BY <1>3, <1>9
  <2> QED
    BY <1>3, <1>4, <1>6, <1>7, <2>1, ExecAgreesKept
<1> QED
  BY <1>8, <1>9

LEMMA RoundStepAgrees ==
  ASSUME LogInv, NEW r \in Rounds, RoundStep(r), NEW e \in Executions
  PROVE  ExecAgrees(e)' /\ \A s \in Slots : CallAgrees(e, s)'
<1>1. TypeOK
  BY LogInvTypes
<1>2. CASE ArmRound(r)
  <2>1. CASE Withdraw(r)
    BY <2>1, WithdrawAgrees
  <2>2. CASE ~Withdraw(r)
    BY <1>1, <1>2, <2>2, RoundsOnlyAgrees DEF ArmRound, Log, TypeOK
  <2> QED
    BY <2>1, <2>2
<1>3. CASE CompleteRound(r)
  <2>1. CASE EndByGuard(r)
    BY <2>1, GuardAgrees
  <2>2. CASE ~EndByGuard(r)
    BY <1>1, <1>3, <2>2, RoundsOnlyAgrees DEF CompleteRound, Log, TypeOK
  <2> QED
    BY <2>1, <2>2
<1>4. CASE StopRound(r)
  BY <1>4, TerminateAgrees DEF StopRound, TerminalStatuses
<1>5. ASSUME NEW f \in Executions, ClaimExecution(r, f)
      PROVE  ExecAgrees(e)' /\ \A s \in Slots : CallAgrees(e, s)'
  BY <1>5, ClaimAgrees, GuardAgrees
<1> QED
  BY <1>2, <1>3, <1>4, <1>5, CreateAgrees, RecoverAgrees DEF RoundStep

--------------------------------------------------------------------------------
(* The operations on executions.                                            *)

\* The executions that a step on another one leaves alone.
LEMMA OtherRowsAgree ==
  ASSUME LogInv, LogsGrow, NEW f \in Executions, NEW e \in Executions, e # f,
         grantOf' = grantOf, execs'[e] = execs[e], execLog'[e] = execLog[e],
         \A s \in Slots : calls'[<<e, s>>] = calls[<<e, s>>] /\ callLog'[<<e, s>>] = callLog[<<e, s>>]
  PROVE  ExecAgrees(e)' /\ \A s \in Slots : CallAgrees(e, s)'
<1>1. \A s \in Slots : QuietCall(e, s)
  BY DEF QuietCall, Call
<1> QED
  BY <1>1, ExecAgreesKept, CallAgreesKept DEF Call

\* A step on one call of an execution that is not settled, and on nothing else.
LEMMA OneCallAgrees ==
  ASSUME LogInv, NEW f \in Executions, NEW u \in Slots, ~ExecutionSettled(f),
         UNCHANGED <<grantOf, execs, roundLog, execLog>>,
         \A e \in Executions, s \in Slots : <<e, s>> # <<f, u>> =>
             calls'[<<e, s>>] = calls[<<e, s>>] /\ callLog'[<<e, s>>] = callLog[<<e, s>>],
         CallAgrees(f, u)', NEW e \in Executions
  PROVE  ExecAgrees(e)' /\ \A s \in Slots : CallAgrees(e, s)'
<1>1. LogsGrow
  BY DEF LogsGrow
<1>2. ASSUME NEW s \in Slots, <<e, s>> # <<f, u>> PROVE QuietCall(e, s)
  BY <1>2 DEF QuietCall, Call
<1>3. \A s \in Slots : CallAgrees(e, s)'
  BY <1>1, <1>2, CallAgreesKept
<1>4. \A s \in Slots : Call(e, s)'.state = "dispatched" =>
          Call(e, s).state = "dispatched" \/ ~ExecutionSettled(e)
  BY <1>2 DEF QuietCall
<1> QED
  BY <1>1, <1>3, <1>4, ExecAgreesKept

LEMMA ReserveAgrees ==
  ASSUME LogInv, NEW f \in Executions, NEW u \in Slots, ReserveCall(f, u),
         ~EndByGuard(grantOf[f]), NEW e \in Executions
  PROVE  ExecAgrees(e)' /\ \A s \in Slots : CallAgrees(e, s)'
<1>1. /\ TypeOK /\ CallAgrees(f, u) /\ ExecAgrees(f)
      /\ calls \in [Calls -> CallRows] /\ calls[<<f, u>>] \in CallRows
      /\ callLog \in [Calls -> SUBSET CallEvents] /\ <<f, u>> \in Calls
  BY LogInvTypes, CallType DEF LogInv, TypeOK, Call
<1>2. /\ ReserveAllowed(f, u) /\ UNCHANGED <<now, grantOf, execs, roundLog, execLog>>
      /\ calls' = [calls EXCEPT ![<<f, u>>] = [calls[<<f, u>>] EXCEPT !.state = "reserved",
                                                                     !.reservedAt = now]]
      /\ callLog' = [callLog EXCEPT ![<<f, u>>] = callLog[<<f, u>>] \cup {"reserved"}]
  BY DEF ReserveCall, Log
<1>3. /\ \A g \in Executions, s \in Slots : <<g, s>> # <<f, u>> =>
             calls'[<<g, s>>] = calls[<<g, s>>] /\ callLog'[<<g, s>>] = callLog[<<g, s>>]
      /\ Call(f, u)'.state = "reserved" /\ Call(f, u)'.reservedAt = now
      /\ callLog'[<<f, u>>] = callLog[<<f, u>>] \cup {"reserved"}
  <2>1. \A g \in Executions, s \in Slots : <<g, s>> \in Calls
    BY DEF Calls
  <2> QED
    BY <1>1, <1>2, <2>1 DEF Call, CallRows
<1>4. /\ Call(f, u).state = "planned" /\ PrerequisitesMet(f, u) /\ ~ExecutionSettled(f)
      /\ now # NoTime
  BY <1>1, <1>2 DEF ReserveAllowed, TypeOK, NoTime
<1>5. u # "primary" => execs[f].candidate = TRUE
  BY <1>1, <1>4 DEF PrerequisitesMet, ExecAgrees
<1>6. CallAgrees(f, u)'
  BY <1>1, <1>2, <1>3, <1>4, <1>5 DEF CallAgrees
<1> QED
  BY <1>2, <1>3, <1>4, <1>6, OneCallAgrees

LEMMA DispatchAgrees ==
  ASSUME LogInv, NEW f \in Executions, NEW u \in Slots, MarkDispatched(f, u),
         ~EndByGuard(grantOf[f]), NEW e \in Executions
  PROVE  ExecAgrees(e)' /\ \A s \in Slots : CallAgrees(e, s)'
<1>1. /\ TypeOK /\ CallAgrees(f, u)
      /\ calls \in [Calls -> CallRows] /\ calls[<<f, u>>] \in CallRows
      /\ callLog \in [Calls -> SUBSET CallEvents] /\ <<f, u>> \in Calls
  BY LogInvTypes, CallType DEF LogInv, TypeOK, Call
<1>2. /\ DispatchAllowed(f, u) /\ UNCHANGED <<grantOf, execs, roundLog, execLog>>
      /\ calls' = [calls EXCEPT ![<<f, u>>] = [calls[<<f, u>>] EXCEPT !.state = "dispatched"]]
      /\ callLog' = [callLog EXCEPT ![<<f, u>>] = callLog[<<f, u>>] \cup {"dispatched"}]
  BY DEF MarkDispatched, Log
<1>3. /\ \A g \in Executions, s \in Slots : <<g, s>> # <<f, u>> =>
             calls'[<<g, s>>] = calls[<<g, s>>] /\ callLog'[<<g, s>>] = callLog[<<g, s>>]
      /\ Call(f, u)'.state = "dispatched" /\ Call(f, u)'.reservedAt = Call(f, u).reservedAt
      /\ callLog'[<<f, u>>] = callLog[<<f, u>>] \cup {"dispatched"}
  <2>1. \A g \in Executions, s \in Slots : <<g, s>> \in Calls
    BY DEF Calls
  <2> QED
    BY <1>1, <1>2, <2>1 DEF Call, CallRows
<1>4. /\ Call(f, u).state = "reserved" /\ callLog[<<f, u>>] = {"reserved"}
      /\ ~ExecutionSettled(f)
  <2>1. callLog[<<f, u>>] \subseteq CallEvents
    BY <1>1
  <2> QED
    BY <1>2, <2>1 DEF DispatchAllowed, CallEvents
<1>5. CallAgrees(f, u)'
  BY <1>1, <1>2, <1>3, <1>4 DEF CallAgrees, Taken
<1> QED
  BY <1>2, <1>3, <1>4, <1>5, OneCallAgrees

LEMMA FinishAgrees ==
  ASSUME LogInv, NEW f \in Executions, NEW u \in Slots, NEW o \in ProviderOutcomes,
         FinishCall(f, u, o), NEW e \in Executions
  PROVE  ExecAgrees(e)' /\ \A s \in Slots : CallAgrees(e, s)'
<1>1. /\ TypeOK /\ CallAgrees(f, u) /\ ExecAgrees(f)
      /\ calls \in [Calls -> CallRows] /\ calls[<<f, u>>] \in CallRows
      /\ callLog \in [Calls -> SUBSET CallEvents] /\ <<f, u>> \in Calls
      /\ execs \in [Executions -> ExecRows] /\ execs[f] \in ExecRows
  BY LogInvTypes, CallType DEF LogInv, TypeOK, Call
<1>2. /\ FinishAllowed(f, u) /\ UNCHANGED <<grantOf, roundLog, execLog>>
      /\ calls' = [calls EXCEPT ![<<f, u>>] =
                      [calls[<<f, u>>] EXCEPT !.state = "result", !.outcome = o,
                                              !.completedAt = now]]
      /\ callLog' = [callLog EXCEPT ![<<f, u>>] = callLog[<<f, u>>] \cup {"result"}]
  BY DEF FinishCall, Log
<1>3. /\ \A g \in Executions, s \in Slots : <<g, s>> # <<f, u>> =>
             calls'[<<g, s>>] = calls[<<g, s>>] /\ callLog'[<<g, s>>] = callLog[<<g, s>>]
      /\ Call(f, u)'.state = "result" /\ Call(f, u)'.reservedAt = Call(f, u).reservedAt
      /\ Call(f, u)'.outcome = o
      /\ callLog'[<<f, u>>] = callLog[<<f, u>>] \cup {"result"}
  <2>1. \A g \in Executions, s \in Slots : <<g, s>> \in Calls
    BY DEF Calls
  <2> QED
    BY <1>1, <1>2, <2>1 DEF Call, CallRows
<1>4. /\ \A g \in Executions : g # f => execs'[g] = execs[g]
      /\ execs'[f].state = execs[f].state /\ execs'[f].truthAt = execs[f].truthAt
      /\ execs[f].candidate = TRUE => execs'[f].candidate = TRUE
  <2> DEFINE b == execs[f].candidate \/ (u = "primary" /\ o = "success")
  <2>1. execs' = [execs EXCEPT ![f].candidate = b]
    BY DEF FinishCall
  <2>2. execs[f].candidate = TRUE => b = TRUE
    OBVIOUS
  <2> HIDE DEF b
  <2> QED
    BY <1>1, <2>1, <2>2 DEF ExecRows
<1>5. LogsGrow
  BY <1>2, <1>4 DEF LogsGrow
<1>6. o # "unknown_after_crash"
  BY ConstantsAssumption DEF ProviderOutcomes
<1>7. Call(f, u).state = "dispatched"
  BY <1>2 DEF FinishAllowed
<1>8. CallAgrees(f, u)'
  BY <1>1, <1>3, <1>4, <1>6, <1>7 DEF CallAgrees, Taken
<1>9. CASE e = f
  <2>1. \A s \in Slots : s # u => QuietCall(f, s)
    BY <1>3 DEF QuietCall, Call
  <2>2. \A s \in Slots : CallAgrees(f, s)'
    BY <1>5, <1>8, <2>1, CallAgreesKept
  <2>3. \A s \in Slots : Call(f, s)'.state = "dispatched" => Call(f, s).state = "dispatched"
    BY <1>3, <2>1 DEF QuietCall
  <2> QED
    BY <1>2, <1>4, <1>5, <1>9, <2>2, <2>3, ExecAgreesKept
<1>10. CASE e # f
  BY <1>2, <1>3, <1>4, <1>5, <1>10, OtherRowsAgree
<1> QED
  BY <1>9, <1>10

\* A step on one execution's row and log that changes no call.
LEMMA OneExecAgrees ==
  ASSUME LogInv, LogsGrow, NEW f \in Executions, UNCHANGED <<grantOf, callLog>>,
         \A g \in Executions : g # f => execs'[g] = execs[g] /\ execLog'[g] = execLog[g],
         \A g \in Executions, s \in Slots : g # f => calls'[<<g, s>>] = calls[<<g, s>>],
         ExecAgrees(f)', \A s \in Slots : QuietCall(f, s), NEW e \in Executions
  PROVE  ExecAgrees(e)' /\ \A s \in Slots : CallAgrees(e, s)'
<1>1. CASE e = f
  BY <1>1, CallAgreesKept
<1>2. CASE e # f
  BY <1>2, OtherRowsAgree
<1> QED
  BY <1>1, <1>2

LEMMA LockAgrees ==
  ASSUME LogInv, NEW f \in Executions, NEW t \in 0..MaxTime, LockGroundTruth(f, t),
         ~EndByGuard(grantOf[f]), NEW e \in Executions
  PROVE  ExecAgrees(e)' /\ \A s \in Slots : CallAgrees(e, s)'
<1>1. /\ TypeOK /\ ExecAgrees(f) /\ execs \in [Executions -> ExecRows] /\ execs[f] \in ExecRows
      /\ execLog \in [Executions -> SUBSET ExecEvents]
  BY LogInvTypes DEF LogInv, TypeOK
<1>2. /\ LockAllowed(f, t) /\ UNCHANGED <<grantOf, calls, roundLog, callLog>>
      /\ execs' = [execs EXCEPT ![f].truthAt = t]
      /\ execLog' = [execLog EXCEPT ![f] = execLog[f] \cup {"truth_locked"}]
  BY DEF LockGroundTruth, Log
<1>3. /\ execs'[f].truthAt = t /\ execs'[f].state = execs[f].state
      /\ execs'[f].candidate = execs[f].candidate
      /\ execLog'[f] = execLog[f] \cup {"truth_locked"}
      /\ \A g \in Executions : g # f => execs'[g] = execs[g] /\ execLog'[g] = execLog[g]
  BY <1>1, <1>2 DEF ExecRows
<1>4. LogsGrow /\ \A s \in Slots : QuietCall(f, s)
  BY <1>2, <1>3 DEF LogsGrow, QuietCall, Call
<1>5. execs[f].state = "running" /\ execs[f].candidate = TRUE /\ t # NoTime
  BY <1>1, <1>2 DEF LockAllowed, ExecRows, NoTime
<1>6. ExecAgrees(f)'
  BY <1>1, <1>2, <1>3, <1>5 DEF ExecAgrees, Call
<1> QED
  BY <1>2, <1>3, <1>4, <1>6, OneExecAgrees

LEMMA EndAgrees ==
  ASSUME LogInv, NEW f \in Executions, MarkExecutionIncomplete(f) \/ FinalizeExecution(f),
         NEW e \in Executions
  PROVE  ExecAgrees(e)' /\ \A s \in Slots : CallAgrees(e, s)'
<1>1. /\ TypeOK /\ ExecAgrees(f) /\ execs \in [Executions -> ExecRows] /\ execs[f] \in ExecRows
      /\ execLog \in [Executions -> SUBSET ExecEvents]
      /\ \A g \in Executions, s \in Slots : <<g, s>> \in Calls /\ <<g, s>>[1] = g
      /\ \A s \in Slots : calls[<<f, s>>] \in CallRows
  BY LogInvTypes DEF LogInv, TypeOK, Calls
<1>2. PICK state \in {"incomplete", "complete"}, event \in {"incomplete", "completed"} :
          /\ state = "complete" <=> event = "completed"
          /\ execs' = [execs EXCEPT ![f].state = state]
          /\ execLog' = [execLog EXCEPT ![f] = execLog[f] \cup {event}]
          /\ state = "incomplete" => MarkExecutionIncomplete(f)
  BY DEF MarkExecutionIncomplete, FinalizeExecution, Log
<1>3. /\ UNCHANGED <<grantOf, roundLog, callLog>> /\ execs[f].state = "running"
  BY DEF MarkExecutionIncomplete, FinalizeExecution, MarkIncompleteAllowed, FinalizeAllowed
<1>4. /\ execs'[f].truthAt = execs[f].truthAt /\ execs'[f].state = state
      /\ execs'[f].candidate = execs[f].candidate
      /\ execLog'[f] = execLog[f] \cup {event}
      /\ \A g \in Executions : g # f => execs'[g] = execs[g] /\ execLog'[g] = execLog[g]
  BY <1>1, <1>2 DEF ExecRows
<1>5. \A g \in Executions, s \in Slots :
          /\ g # f => calls'[<<g, s>>] = calls[<<g, s>>]
          /\ calls'[<<f, s>>] \in {calls[<<f, s>>], Abandoned(calls[<<f, s>>])}
          /\ MarkExecutionIncomplete(f) => calls'[<<f, s>>] = Abandoned(calls[<<f, s>>])
  BY <1>1 DEF MarkExecutionIncomplete, FinalizeExecution
<1>6. LogsGrow
  BY <1>3, <1>4 DEF LogsGrow
<1>7. \A s \in Slots : QuietCall(f, s)
  BY <1>1, <1>3, <1>5, QuietRows
<1>8. state = "incomplete" => \A s \in Slots : Call(f, s)'.state # "dispatched"
  BY <1>1, <1>2, <1>5 DEF Abandoned, Call, CallRows, OpenStates
<1>9. ExecAgrees(f)'
  BY <1>1, <1>2, <1>3, <1>4, <1>8 DEF ExecAgrees
<1> QED
  BY <1>3, <1>4, <1>5, <1>6, <1>7, <1>9, OneExecAgrees

LEMMA ExecutionStepAgrees ==
  ASSUME LogInv, NEW f \in Executions, ExecutionStep(f), NEW e \in Executions
  PROVE  ExecAgrees(e)' /\ \A s \in Slots : CallAgrees(e, s)'
<1>1. CASE execs[f].state # "none" /\ EndByGuard(grantOf[f])
  BY <1>1, LogInvTypes, GuardAgrees DEF ClaimsAreGranted
<1>2. CASE ~(execs[f].state # "none" /\ EndByGuard(grantOf[f]))
  <2>1. ASSUME NEW s \in Slots, ReserveCall(f, s)
        PROVE  ExecAgrees(e)' /\ \A u \in Slots : CallAgrees(e, u)'
    BY <1>2, <2>1, ReserveAgrees DEF ReserveCall
  <2>2. ASSUME NEW s \in Slots, MarkDispatched(f, s)
        PROVE  ExecAgrees(e)' /\ \A u \in Slots : CallAgrees(e, u)'
    BY <1>2, <2>2, DispatchAgrees DEF MarkDispatched
  <2>3. ASSUME NEW t \in 0..MaxTime, LockGroundTruth(f, t)
        PROVE  ExecAgrees(e)' /\ \A u \in Slots : CallAgrees(e, u)'
    BY <1>2, <2>3, LockAgrees DEF LockGroundTruth
  <2> QED
    BY <2>1, <2>2, <2>3, FinishAgrees, EndAgrees DEF ExecutionStep
<1> QED
  BY <1>1, <1>2

--------------------------------------------------------------------------------

LEMMA LogStep == LogInv /\ [Next]_vars => LogInv'
<1> SUFFICES ASSUME LogInv, [Next]_vars PROVE LogInv'
  OBVIOUS
<1>1. TruthInv' /\ TypeOK
  BY TruthStep, LogInvTypes DEF LogInv
<1>2. ASSUME NEW r \in Rounds PROVE RoundAgrees(r)'
  <2>1. CASE UNCHANGED <<status, roundLog>>
    BY <2>1, SameRoundAgrees
  <2>2. ASSUME NEW a \in Authorizations, StopRevokedRounds(a) PROVE RoundAgrees(r)'
    BY <2>2, TerminateRoundAgrees DEF StopRevokedRounds, TerminalStatuses
  <2> QED
    BY <2>1, <2>2, RoundStepRoundAgrees, ExecutionStepRoundAgrees
    DEF Next, vars, logs, ClockMoves, AuthorizationStep, RecordRevocation
<1>3. ASSUME NEW e \in Executions
      PROVE  ExecAgrees(e)' /\ \A s \in Slots : CallAgrees(e, s)'
  <2>1. CASE UNCHANGED <<grantOf, execs, calls, roundLog, execLog, callLog>>
    BY <2>1, RoundsOnlyAgrees
  <2>2. ASSUME NEW a \in Authorizations, StopRevokedRounds(a)
        PROVE  ExecAgrees(e)' /\ \A s \in Slots : CallAgrees(e, s)'
    BY <2>2, TerminateAgrees DEF StopRevokedRounds, TerminalStatuses
  <2> QED
    BY <2>1, <2>2, RoundStepAgrees, ExecutionStepAgrees
    DEF Next, vars, logs, ClockMoves, AuthorizationStep, RecordRevocation
<1>4. ASSUME NEW a \in Authorizations PROVE a \in revoked' <=> "revoked" \in authLog'[a]
  <2>1. (a \in revoked <=> "revoked" \in authLog[a])
        /\ authLog \in [Authorizations -> SUBSET {"consumed", "revoked"}]
    BY <1>1 DEF LogInv, TypeOK
  <2>2. CASE UNCHANGED <<revoked, authLog>>
    BY <2>1, <2>2
  <2>3. ASSUME NEW b \in Authorizations, RecordRevocation(b)
        PROVE  a \in revoked' <=> "revoked" \in authLog'[a]
    BY <2>1, <2>3 DEF RecordRevocation, Log
  <2>4. ASSUME NEW r \in Rounds, CreateRound(r)
        PROVE  a \in revoked' <=> "revoked" \in authLog'[a]
    BY <2>1, <2>4 DEF CreateRound, Log
  <2>5. ASSUME NEW r \in Rounds, RoundStep(r), ~CreateRound(r)
        PROVE  UNCHANGED <<revoked, authLog>>
    BY <2>5
    DEF RoundStep, ArmRound, CompleteRound, StopRound, RecoverInterrupted, ClaimExecution,
        EndByGuard, Withdraw, Terminate
  <2>6. ASSUME NEW e \in Executions, ExecutionStep(e) PROVE UNCHANGED <<revoked, authLog>>
    BY <2>6
    DEF ExecutionStep, ReserveCall, MarkDispatched, FinishCall, LockGroundTruth,
        MarkExecutionIncomplete, FinalizeExecution, EndByGuard, Withdraw, Terminate
  <2> QED
    BY <2>2, <2>3, <2>4, <2>5, <2>6
    DEF Next, vars, logs, ClockMoves, AuthorizationStep, StopRevokedRounds, Terminate
<1> QED
  BY <1>1, <1>2, <1>3, <1>4 DEF LogInv

LEMMA LogInit == Init => LogInv
<1> SUFFICES ASSUME Init PROVE LogInv
  OBVIOUS
<1>1. TruthInv
  BY TruthInit
<1>2. \A e \in Executions, s \in Slots :
          /\ Call(e, s) = NoCall /\ execs[e] = NoExec /\ callLog[<<e, s>>] = {}
          /\ grantOf[e] = NoRound /\ execLog[e] = {}
  BY DEF Init, Call, Calls
<1>3. \A e \in Executions, s \in Slots : ExecAgrees(e) /\ CallAgrees(e, s)
  BY <1>2 DEF ExecAgrees, CallAgrees, NoCall, NoExec, Taken
<1>4. \A r \in Rounds : RoundAgrees(r)
  BY DEF Init, RoundAgrees, ClosedByEvent, TerminalStatuses
<1>5. \A a \in Authorizations : a \in revoked <=> "revoked" \in authLog[a]
  BY DEF Init
<1>6. \A e \in Executions : ExecAgrees(e)
  BY <1>3 DEF Slots
<1> QED
  BY <1>1, <1>3, <1>4, <1>5, <1>6 DEF LogInv

LEMMA LogInvariant == Spec => []LogInv
  BY LogInit, LogStep, PTL DEF Spec

\* ledger.ts: its tables and its audit events tell the same story of every round,
\* execution, call and authorization, whichever of the two a check reads.
THEOREM LogsTellTheTables == Spec => []LogsAgree
<1>1. LogInv => LogsAgree
  <2> SUFFICES ASSUME LogInv PROVE LogsAgree
    OBVIOUS
  <2>1. \A c \in Calls :
            /\ calls[c].reservedAt # NoTime <=> "reserved" \in callLog[c]
            /\ calls[c].state \in {"planned", "reserved"} => "dispatched" \notin callLog[c]
            /\ calls[c].state = "dispatched" => callLog[c] = {"reserved", "dispatched"}
            /\ calls[c].state = "result" =>
                  ("result" \in callLog[c] <=> calls[c].outcome # "unknown_after_crash")
    BY DEF LogInv, CallAgrees, Call, Calls
  <2> QED
    BY <2>1 DEF LogInv, RoundAgrees, ExecAgrees, LogsAgree
<1> QED
  BY <1>1, LogInvariant, PTL

\* finishCall of ledger.ts: an answer that arrives late finds its call, whatever
\* ended its round in the meantime.
THEOREM LateAnswersCount == Spec => []LateAnswersAreAccepted
<1>1. LogInv => LateAnswersAreAccepted
  <2> SUFFICES ASSUME LogInv, NEW e \in Executions, NEW s \in Slots,
                      Call(e, s).state = "dispatched"
               PROVE  FinishAllowed(e, s)
    BY DEF LateAnswersAreAccepted
  <2>1. ExecAgrees(e) /\ CallAgrees(e, s) /\ Sealing
    BY LogInvTypes DEF LogInv
  <2>2. execs[e].state # "complete"
    BY <2>1 DEF Sealing, RowsMatch, Call
  <2>3. ~ExecutionSettled(e)
    BY <2>1, <2>2 DEF ExecAgrees, ExecutionSettled, ExecTerminal
  <2>4. callLog[<<e, s>>] = {"reserved", "dispatched"}
        /\ (s # "primary" => execs[e].candidate)
    BY <2>1 DEF CallAgrees, Taken
  <2> QED
    BY <2>3, <2>4 DEF FinishAllowed
<1> QED
  BY <1>1, LogInvariant, PTL

--------------------------------------------------------------------------------
(* 6. CollectorLedger implements SendAuthority.                             *)
(*                                                                          *)
(* Three kinds of transactions map to a step of their own: a round is       *)
(* created, a slot reserved, a request sent.  All others are a withdrawal,  *)
(* of nothing or of what the step closes, because the rounds that are       *)
(* closed afterwards are sealed.                                            *)

\* A step that enlists no execution and takes or sends no slot.
Withdrawing ==
    /\ UNCHANGED grantOf
    /\ \A c \in Calls : /\ calls'[c].state \in {"reserved", "dispatched"} =>
                               calls'[c].state = calls[c].state
                        /\ calls[c].state = "none" => calls'[c].state \in {"none", "planned"}

LEMMA WithdrawingWithdraws ==
  ASSUME SealInv, SealInv', [Next]_vars, Withdrawing
  PROVE  Authority!Withdraw
<1> DEFINE closed == {r \in Rounds : status[r] \in TerminalStatuses}
           phase  == [c \in Calls |-> PhaseOf(calls[c].state)]
<1>1. closed \subseteq closed' /\ closed' \subseteq Rounds
  BY StepStays DEF EndingsStay
<1>2. ASSUME NEW c \in Calls
      PROVE  /\ phase'[c] \in {phase[c], Authority!GivenUp(phase[c])}
             /\ grantOf[c[1]] \in closed' => phase'[c] # "reserved"
  <2>1. /\ phase[c] = PhaseOf(calls[c].state) /\ phase'[c] = PhaseOf(calls'[c].state)
        /\ calls[c].state \in CallStates /\ calls'[c].state \in CallStates
    BY DEF SealInv, TypeOK, CallRows
  <2>2. phase'[c] \in {phase[c], Authority!GivenUp(phase[c])}
    <3>1. CallMoves(c)
      BY StepMoves
    <3> QED
      BY <2>1, <3>1 DEF Withdrawing, CallMoves, CallStates, PhaseOf, Authority!GivenUp
  <2>3. ASSUME grantOf[c[1]] \in closed' PROVE phase'[c] # "reserved"
    <3>1. grantOf'[c[1]] \in Rounds /\ status'[grantOf'[c[1]]] \in TerminalStatuses
      BY <2>3 DEF Withdrawing
    <3>2. PICK e \in Executions, s \in Slots : c = <<e, s>>
      BY DEF Calls
    <3>3. calls'[c].state # "reserved"
      BY <3>1, <3>2 DEF SealInv, Sealing, ExecutionsEnd, RowsMatch, TypeOK, ExecRows,
                        ExecStates, OpenStates
    <3> QED
      BY <2>1, <3>3 DEF CallStates, PhaseOf
  <2> QED
    BY <2>2, <2>3
<1>3. phase' = [c \in Calls |-> phase'[c]]
  OBVIOUS
<1> QED
  BY <1>1, <1>2, <1>3 DEF Authority!Withdraw, Authority!Calls, Calls, Withdrawing

--------------------------------------------------------------------------------
(* The steps that withdraw.                                                 *)

LEMMA TerminateWithdraws ==
  ASSUME TypeOK, NEW R, NEW final, Terminate(R, final)
  PROVE  Withdrawing
<1>1. UNCHANGED grantOf
  BY DEF Terminate
<1>2. ASSUME NEW c \in Calls
      PROVE  \/ calls'[c] = calls[c]
             \/ calls[c].state \in OpenStates /\ calls'[c].state = "cancelled"
  BY DEF Terminate, TypeOK, CallRows
<1> QED
  BY <1>1, <1>2 DEF Withdrawing, OpenStates

LEMMA GuardWithdraws ==
  ASSUME TypeOK, NEW r, EndByGuard(r)
  PROVE  Withdrawing
  BY TerminateWithdraws DEF EndByGuard, Withdraw

LEMMA AbandonedWithdraws ==
  ASSUME TypeOK, NEW c \in Calls
  PROVE  /\ Abandoned(calls[c]).state \in {"reserved", "dispatched"} =>
               Abandoned(calls[c]).state = calls[c].state
         /\ calls[c].state = "none" => Abandoned(calls[c]).state = "none"
<1>1. calls[c] \in CallRows
  BY DEF TypeOK
<1> QED
  BY <1>1 DEF Abandoned, OpenStates, CallRows

LEMMA RoundStepWithdraws ==
  ASSUME SealInv, NEW r \in Rounds, RoundStep(r), ~CreateRound(r)
  PROVE  Withdrawing
<1> USE DEF SealInv
<1>1. CASE ArmRound(r)
  BY <1>1, TerminateWithdraws DEF ArmRound, Withdraw, Withdrawing
<1>2. CASE CompleteRound(r)
  BY <1>2, GuardWithdraws DEF CompleteRound, Withdrawing
<1>3. CASE StopRound(r)
  BY <1>3, TerminateWithdraws DEF StopRound
<1>4. CASE RecoverInterrupted(r)
  <2>1. \A c \in Calls : calls'[c] = calls[c] \/ calls'[c] = Abandoned(calls[c])
    BY <1>4 DEF RecoverInterrupted
  <2> QED
    BY <1>4, <2>1, AbandonedWithdraws DEF RecoverInterrupted, Withdrawing
<1>5. ASSUME NEW e \in Executions, ClaimExecution(r, e) PROVE Withdrawing
  <2>1. CASE EndByGuard(r)
    BY <2>1, GuardWithdraws
  <2>2. CASE ~EndByGuard(r)
    <3>1. \A c \in Calls : calls'[c] = calls[c] \/ calls'[c] = [calls[c] EXCEPT !.state = "planned"]
      BY <1>5, <2>2 DEF ClaimExecution
    <3>2. \A c \in Calls : calls'[c] = calls[c] \/ calls'[c].state = "planned"
      BY <3>1 DEF TypeOK, CallRows
    <3> QED
      BY <1>5, <2>2, <3>2 DEF ClaimExecution, Withdrawing
  <2> QED
    BY <2>1, <2>2
<1> QED
  BY <1>1, <1>2, <1>3, <1>4, <1>5 DEF RoundStep

LEMMA ExecutionStepWithdraws ==
  ASSUME SealInv, NEW e \in Executions, ExecutionStep(e),
         \A s \in Slots : ~ReserveCall(e, s) /\ ~MarkDispatched(e, s)
  PROVE  Withdrawing
<1> USE DEF SealInv
<1>1. ASSUME NEW s \in Slots, NEW o \in ProviderOutcomes, FinishCall(e, s, o)
      PROVE  Withdrawing
  <2>1. \A c \in Calls : calls'[c] = calls[c] \/ c = <<e, s>>
    BY <1>1 DEF FinishCall, TypeOK
  <2>2. calls[<<e, s>>].state = "dispatched" /\ calls'[<<e, s>>].state = "result"
    BY <1>1 DEF FinishCall, FinishAllowed, Call, TypeOK, CallRows, Calls
  <2> QED
    BY <1>1, <2>1, <2>2 DEF FinishCall, Withdrawing
<1>2. ASSUME NEW t \in 0..MaxTime, LockGroundTruth(e, t) PROVE Withdrawing
  BY <1>2, GuardWithdraws DEF LockGroundTruth, Withdrawing
<1>3. CASE MarkExecutionIncomplete(e)
  <2>1. \A c \in Calls : calls'[c] = calls[c] \/ calls'[c] = Abandoned(calls[c])
    BY <1>3 DEF MarkExecutionIncomplete
  <2> QED
    BY <1>3, <2>1, AbandonedWithdraws DEF MarkExecutionIncomplete, Withdrawing
<1>4. CASE FinalizeExecution(e)
  BY <1>4 DEF FinalizeExecution, Withdrawing
<1> QED
  BY <1>1, <1>2, <1>3, <1>4 DEF ExecutionStep

--------------------------------------------------------------------------------
(* The steps that do not.                                                   *)

LEMMA CreateEnlists ==
  ASSUME SealInv, NEW r \in Rounds, CreateRound(r)
  PROVE  Authority!Enlist(r)
<1> USE DEF SealInv
<1>1. \A e \in Executions : grantOf[e] # r
  BY DEF CreateRound, CreateAllowed, Sealing, FundedRoundsExist
<1>2. status[r] = "absent" /\ \A q \in Rounds : q # r => status'[q] = status[q]
  BY DEF CreateRound, CreateAllowed, TypeOK
<1>3. status'[r] = "draft"
  BY DEF CreateRound, TypeOK
<1>4. {q \in Rounds : status'[q] \in TerminalStatuses} = {q \in Rounds : status[q] \in TerminalStatuses}
  BY <1>2, <1>3 DEF TerminalStatuses
<1>5. /\ grantOf' = [e \in Executions |-> grantOf'[e]]
      /\ \A e \in Executions : grantOf'[e] # grantOf[e] => grantOf[e] = NoRound /\ grantOf'[e] = r
  BY DEF CreateRound, CreateAllowed
<1> QED
  BY <1>1, <1>2, <1>4, <1>5 DEF Authority!Enlist, CreateRound, TerminalStatuses

\* A step that changes one call's state and neither rounds nor enlistments.
LEMMA OneCallMaps ==
  ASSUME TypeOK, NEW c \in Calls, NEW row, NEW p, PhaseOf(row.state) = p,
         calls' = [calls EXCEPT ![c] = row]
  PROVE  [d \in Calls |-> PhaseOf(calls'[d].state)]
             = [[d \in Calls |-> PhaseOf(calls[d].state)] EXCEPT ![c] = p]
  BY DEF TypeOK

LEMMA PassedIsOpen ==
  ASSUME SealInv, NEW c \in Calls, execs[c[1]].state # "none", GuardPasses(grantOf[c[1]])
  PROVE  Authority!Open(c)
  BY DEF SealInv, ClaimsAreGranted, GuardPasses, Authority!Open, Calls, TerminalStatuses

LEMMA ReserveReserves ==
  ASSUME SealInv, NEW e \in Executions, NEW s \in Slots, ReserveCall(e, s),
         ~EndByGuard(grantOf[e])
  PROVE  Authority!Reserve(<<e, s>>)
<1> DEFINE row == [calls[<<e, s>>] EXCEPT !.state = "reserved", !.reservedAt = now]
<1>1. /\ <<e, s>> \in Calls /\ <<e, s>>[1] = e
      /\ calls[<<e, s>>] \in CallRows /\ calls[<<e, s>>].state = "planned"
      /\ execs[e].state # "none" /\ GuardPasses(grantOf[e])
  BY DEF Calls, SealInv, TypeOK, ReserveCall, ReserveAllowed, Call
<1>2. row \in CallRows /\ row.state = "reserved"
  BY <1>1 DEF CallRows, CallStates, Instant, SealInv, TypeOK
<1>3. calls' = [calls EXCEPT ![<<e, s>>] = row] /\ UNCHANGED <<grantOf, status>>
  BY DEF ReserveCall
<1>4. Authority!Open(<<e, s>>)
  BY <1>1, PassedIsOpen
<1>5. PhaseOf(calls[<<e, s>>].state) = "unspent" /\ PhaseOf(row.state) = "reserved"
  BY <1>1, <1>2 DEF PhaseOf
<1> HIDE DEF row
<1>6. [d \in Calls |-> PhaseOf(calls'[d].state)]
          = [[d \in Calls |-> PhaseOf(calls[d].state)] EXCEPT ![<<e, s>>] = "reserved"]
  BY <1>1, <1>3, <1>5, OneCallMaps, Zenon DEF SealInv
<1> QED
  BY <1>1, <1>3, <1>4, <1>5, <1>6 DEF Authority!Reserve

LEMMA DispatchSends ==
  ASSUME SealInv, NEW e \in Executions, NEW s \in Slots, MarkDispatched(e, s),
         ~EndByGuard(grantOf[e])
  PROVE  Authority!Send(<<e, s>>)
<1> DEFINE row == [calls[<<e, s>>] EXCEPT !.state = "dispatched"]
<1>1. /\ <<e, s>> \in Calls /\ <<e, s>>[1] = e
      /\ calls[<<e, s>>] \in CallRows /\ calls[<<e, s>>].state = "reserved"
      /\ execs[e].state # "none" /\ GuardPasses(grantOf[e])
  BY DEF Calls, SealInv, TypeOK, MarkDispatched, DispatchAllowed, Call
<1>2. row \in CallRows /\ row.state = "dispatched"
  BY <1>1 DEF CallRows, CallStates
<1>3. calls' = [calls EXCEPT ![<<e, s>>] = row] /\ UNCHANGED <<grantOf, status>>
  BY DEF MarkDispatched
<1>4. Authority!Open(<<e, s>>)
  BY <1>1, PassedIsOpen
<1>5. PhaseOf(calls[<<e, s>>].state) = "reserved" /\ PhaseOf(row.state) = "sent"
  BY <1>1, <1>2 DEF PhaseOf
<1> HIDE DEF row
<1>6. [d \in Calls |-> PhaseOf(calls'[d].state)]
          = [[d \in Calls |-> PhaseOf(calls[d].state)] EXCEPT ![<<e, s>>] = "sent"]
  BY <1>1, <1>3, <1>5, OneCallMaps, Zenon DEF SealInv
<1> QED
  BY <1>1, <1>3, <1>4, <1>5, <1>6 DEF Authority!Send

--------------------------------------------------------------------------------

LEMMA StepMaps ==
  ASSUME SealInv, SealInv', [Next]_vars
  PROVE  [Authority!ANext]_(Authority!avars)
<1>1. CASE Withdrawing
  BY <1>1, WithdrawingWithdraws DEF Authority!ANext
<1>2. CASE UNCHANGED vars \/ ClockMoves
  BY <1>2, <1>1 DEF vars, ClockMoves, Withdrawing
<1>3. ASSUME NEW r \in Rounds, RoundStep(r) PROVE Withdrawing \/ Authority!ANext
  BY <1>3, RoundStepWithdraws, CreateEnlists DEF Authority!ANext
<1>4. ASSUME NEW a \in Authorizations, AuthorizationStep(a) PROVE Withdrawing
  BY <1>4, TerminateWithdraws
  DEF AuthorizationStep, RecordRevocation, StopRevokedRounds, Withdrawing, SealInv
<1>5. ASSUME NEW e \in Executions, ExecutionStep(e) PROVE Withdrawing \/ Authority!ANext
  <2>1. ASSUME NEW s \in Slots, ReserveCall(e, s) PROVE Withdrawing \/ Authority!ANext
    <3>1. CASE EndByGuard(grantOf[e])
      BY <3>1, GuardWithdraws DEF SealInv
    <3>2. CASE ~EndByGuard(grantOf[e])
      BY <2>1, <3>2, ReserveReserves DEF Authority!ANext, Authority!Calls
    <3> QED
      BY <3>1, <3>2
  <2>2. ASSUME NEW s \in Slots, MarkDispatched(e, s) PROVE Withdrawing \/ Authority!ANext
    <3>1. CASE EndByGuard(grantOf[e])
      BY <3>1, GuardWithdraws DEF SealInv
    <3>2. CASE ~EndByGuard(grantOf[e])
      BY <2>2, <3>2, DispatchSends DEF Authority!ANext, Authority!Calls
    <3> QED
      BY <3>1, <3>2
  <2> QED
    BY <1>5, <2>1, <2>2, ExecutionStepWithdraws
<1> QED
  BY <1>1, <1>2, <1>3, <1>4, <1>5 DEF Next

\* ledger.ts as a whole: seen through the slots of its calls, every run of the
\* ledger is a run of SendAuthority, so that a request is sent at most once and
\* only while its round is open, and whatever ends the round withdraws the
\* reservations not yet sent in the same transaction.
THEOREM SendsAreAuthorized == Spec => ImplementsSendAuthority
<1>1. Init => Authority!AInit
  BY DEF Init, Authority!AInit, Authority!Calls, Calls, NoCall, PhaseOf, TerminalStatuses
<1>2. SealInv /\ SealInv' /\ [Next]_vars => [Authority!ANext]_(Authority!avars)
  BY StepMaps
<1> QED
  BY <1>1, <1>2, SealInvariant, PTL DEF Spec, ImplementsSendAuthority, Authority!ASpec
================================================================================
