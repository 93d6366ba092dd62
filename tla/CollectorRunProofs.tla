--------------------------- MODULE CollectorRunProofs ---------------------------
(***************************************************************************)
(* Theorems about the runners on the collector ledger, for every set of    *)
(* rounds, grants and executions, every clock, and crashes, stops,         *)
(* revocations and recoveries between any two steps of any runner.         *)
(*                                                                         *)
(* Every step of a runner is a transaction of the ledger or invisible to   *)
(* it, so the ledger's invariants hold; what is added ties the program     *)
(* point of each runner, and what the provider received, to the log.       *)
(***************************************************************************)
EXTENDS CollectorRun, CollectorLedgerProofs

--------------------------------------------------------------------------------
(* The invariant.                                                           *)

RunnerRows == [pc : Points, slot : Slots, answer : {"none"} \cup ProviderOutcomes,
               stamp : Instant]

\* Of the ledger alone: a call that was sent was reserved, and Plus is reserved
\* once Flash is settled.
SendsInOrder ==
    \A e \in Executions :
        /\ \A s \in Slots : "dispatched" \in callLog[<<e, s>>] => Call(e, s).reservedAt # NoTime
        /\ Call(e, "plus").reservedAt # NoTime => Call(e, "flash").state = "result"

\* A request was sent at most once, if the log has its dispatch, and exactly once
\* if the log has its result.
SentAsLogged(e) ==
    \A s \in Slots :
        /\ sent[<<e, s>>] <= (IF "dispatched" \in callLog[<<e, s>>] THEN 1 ELSE 0)
        /\ "result" \in callLog[<<e, s>>] => sent[<<e, s>>] = 1

CompleteIsClean(e) ==
    execs[e].state = "complete" => e \in cleaned /\ \A s \in Slots : sent[<<e, s>>] = 1

\* What a runner may rely on at its program points.
PointHolds(e) ==
    LET call == <<e, Current(e)>> IN
    /\ runner[e].pc \notin AtRest => execs[e].state # "none"
    /\ At(e, "invoke") => "dispatched" \in callLog[call] /\ sent[call] = 0
    /\ runner[e].pc \in {"await", "finish"} => sent[call] = 1
    /\ At(e, "finish") => runner[e].answer \in ProviderOutcomes
    /\ At(e, "lock") => runner[e].stamp \in 0..MaxTime
    /\ At(e, "finalize") => e \in cleaned

RunnerInv(e) == SentAsLogged(e) /\ CompleteIsClean(e) /\ PointHolds(e)

LedgerInv == LogInv /\ SuiteInv /\ SendsInOrder /\ now \in 0..MaxTime

RunInv == LedgerInv /\ RTypeOK /\ \A e \in Executions : RunnerInv(e)

--------------------------------------------------------------------------------
(* Steps of the ledger that neither record an answer nor complete an        *)
(* execution.                                                               *)

\* Of the rows a runner relies on: claims stay, logs grow.
Grows ==
    /\ \A e \in Executions : execs[e].state # "none" => execs'[e].state # "none"
    /\ \A c \in Calls : callLog[c] \subseteq callLog'[c]

Quiet ==
    /\ Grows
    /\ \A e \in Executions : execs'[e].state = "complete" => execs[e].state = "complete"
    /\ \A c \in Calls : "result" \in callLog'[c] => "result" \in callLog[c]

LEMMA UnchangedQuiet ==
  ASSUME UNCHANGED <<execs, callLog>>
  PROVE  Quiet
  BY DEF Quiet, Grows

LEMMA TerminateQuiet ==
  ASSUME TypeOK, NEW R, NEW final, Terminate(R, final)
  PROVE  Quiet
<1>1. \A e \in Executions : \/ execs'[e] = execs[e]
                            \/ execs[e].state = "running" /\ execs'[e].state = "incomplete"
  BY DEF Terminate, TypeOK, ExecRows
<1>2. callLog' = callLog
  BY DEF Terminate
<1> QED
  BY <1>1, <1>2 DEF Quiet, Grows

LEMMA GuardQuiet ==
  ASSUME TypeOK, NEW r, EndByGuard(r)
  PROVE  Quiet
  BY TerminateQuiet DEF EndByGuard, Withdraw

\* A call or truth is logged, an execution moves on: anything but an answer and a
\* completion.
LEMMA LogQuiet ==
  ASSUME TypeOK, NEW c \in Calls, NEW event, event # "result",
         callLog' = Log(callLog, c, event), execs' = execs
  PROVE  Quiet
<1>1. \A d \in Calls : callLog'[d] = IF d = c THEN callLog[d] \cup {event} ELSE callLog[d]
  BY DEF Log, TypeOK
<1> QED
  BY <1>1 DEF Quiet, Grows

LEMMA RowQuiet ==
  ASSUME TypeOK, NEW e \in Executions, callLog' = callLog,
         \A d \in Executions : d # e => execs'[d] = execs[d],
         execs'[e].state \notin {"none", "complete"} \/ execs'[e].state = execs[e].state
  PROVE  Quiet
  BY DEF Quiet, Grows

LEMMA ClaimQuiet ==
  ASSUME TypeOK, NEW e \in Executions, NEW r, ClaimExecution(r, e)
  PROVE  Quiet
<1>1. CASE EndByGuard(r)
  BY <1>1, GuardQuiet
<1>2. CASE execs' = [execs EXCEPT ![e].state = "running"] /\ callLog' = callLog
  <2>1. execs'[e].state = "running" /\ \A d \in Executions : d # e => execs'[d] = execs[d]
    BY <1>2 DEF TypeOK, ExecRows
  <2> QED
    BY <1>2, <2>1, RowQuiet
<1> QED
  BY <1>1, <1>2 DEF ClaimExecution

LEMMA ReserveQuiet ==
  ASSUME TypeOK, NEW e \in Executions, NEW s \in Slots, grantOf[e] \in Rounds, ReserveCall(e, s)
  PROVE  Quiet
<1>1. CASE EndByGuard(grantOf[e])
  BY <1>1, GuardQuiet
<1>2. CASE callLog' = Log(callLog, <<e, s>>, "reserved") /\ execs' = execs
  BY <1>2, LogQuiet DEF Calls
<1> QED
  BY <1>1, <1>2 DEF ReserveCall

LEMMA DispatchQuiet ==
  ASSUME TypeOK, NEW e \in Executions, NEW s \in Slots, grantOf[e] \in Rounds, MarkDispatched(e, s)
  PROVE  Quiet
<1>1. CASE EndByGuard(grantOf[e])
  BY <1>1, GuardQuiet
<1>2. CASE callLog' = Log(callLog, <<e, s>>, "dispatched") /\ execs' = execs
  BY <1>2, LogQuiet DEF Calls
<1> QED
  BY <1>1, <1>2 DEF MarkDispatched

LEMMA LockQuiet ==
  ASSUME TypeOK, NEW e \in Executions, NEW t, LockGroundTruth(e, t)
  PROVE  Quiet
<1>1. CASE EndByGuard(grantOf[e])
  BY <1>1, GuardQuiet
<1>2. CASE execs' = [execs EXCEPT ![e].truthAt = t] /\ callLog' = callLog
  <2>1. execs'[e].state = execs[e].state /\ \A d \in Executions : d # e => execs'[d] = execs[d]
    BY <1>2 DEF TypeOK, ExecRows
  <2> QED
    BY <1>2, <2>1, RowQuiet
<1> QED
  BY <1>1, <1>2 DEF LockGroundTruth

LEMMA GiveUpQuiet ==
  ASSUME TypeOK, NEW e \in Executions, GiveUpExecution(e)
  PROVE  Quiet
<1>1. CASE MarkExecutionIncomplete(e)
  <2>1. execs'[e].state = "incomplete" /\ callLog' = callLog
        /\ \A d \in Executions : d # e => execs'[d] = execs[d]
    BY <1>1 DEF MarkExecutionIncomplete, TypeOK, ExecRows
  <2> QED
    BY <2>1, RowQuiet
<1>2. CASE UNCHANGED vars
  BY <1>2, UnchangedQuiet DEF vars, logs
<1> QED
  BY <1>1, <1>2 DEF GiveUpExecution

LEMMA RefusedQuiet ==
  ASSUME TypeOK, NEW e \in Executions, Refused(e)
  PROVE  Quiet
<1>1. CASE EndByGuard(grantOf[e])
  BY <1>1, GuardQuiet
<1>2. CASE UNCHANGED vars
  BY <1>2, UnchangedQuiet DEF vars, logs
<1> QED
  BY <1>1, <1>2 DEF Refused

LEMMA OperateQuiet ==
  ASSUME TypeOK, Operate
  PROVE  Quiet
<1>1. CASE ClockMoves
  BY <1>1, UnchangedQuiet DEF ClockMoves, logs
<1>2. ASSUME NEW r \in Rounds,
             CreateRound(r) \/ ArmRound(r) \/ CompleteRound(r) \/ StopRound(r)
      PROVE  Quiet
  BY <1>2, UnchangedQuiet, TerminateQuiet, GuardQuiet
  DEF CreateRound, ArmRound, Withdraw, CompleteRound, StopRound
<1>3. ASSUME NEW r \in Rounds, RecoverInterrupted(r) PROVE Quiet
  <2>1. \A e \in Executions : \/ execs'[e] = execs[e]
                              \/ execs[e].state = "running" /\ execs'[e].state = "incomplete"
    BY <1>3 DEF RecoverInterrupted, TypeOK, ExecRows
  <2>2. callLog' = callLog
    BY <1>3 DEF RecoverInterrupted
  <2> QED
    BY <2>1, <2>2 DEF Quiet, Grows
<1>4. ASSUME NEW a \in Authorizations, AuthorizationStep(a) PROVE Quiet
  BY <1>4, UnchangedQuiet, TerminateQuiet DEF AuthorizationStep, RecordRevocation, StopRevokedRounds
<1> QED
  BY <1>1, <1>2, <1>3, <1>4 DEF Operate

\* The two steps that are not quiet.
LEMMA FinishGrows ==
  ASSUME TypeOK, NEW e \in Executions, NEW s \in Slots, NEW o, FinishCall(e, s, o)
  PROVE  /\ Grows
         /\ \A d \in Executions : execs'[d].state = execs[d].state
         /\ \A c \in Calls : "result" \in callLog'[c] => c = <<e, s>> \/ "result" \in callLog[c]
<1>1. \A d \in Executions : execs'[d].state = execs[d].state
  BY DEF FinishCall, TypeOK, ExecRows
<1>2. \A c \in Calls : callLog'[c] = IF c = <<e, s>> THEN callLog[c] \cup {"result"} ELSE callLog[c]
  BY DEF FinishCall, Log, TypeOK, Calls
<1> QED
  BY <1>1, <1>2 DEF Grows

LEMMA FinalizeGrows ==
  ASSUME TypeOK, NEW e \in Executions, FinalizeExecution(e)
  PROVE  Grows /\ callLog' = callLog /\ \A d \in Executions : d # e => execs'[d] = execs[d]
  BY DEF FinalizeExecution, Grows, TypeOK, ExecRows

--------------------------------------------------------------------------------
(* The ledger under the runners.                                            *)

\* Which steps reserve a call or log its dispatch.
NothingTaken == callLog' = callLog /\ \A c \in Calls : calls'[c].reservedAt = calls[c].reservedAt

LEMMA TerminateSends ==
  ASSUME TypeOK, NEW R, NEW final, Terminate(R, final)
  PROVE  NothingTaken
  BY DEF Terminate, TypeOK, CallRows, NothingTaken

LEMMA GuardSends ==
  ASSUME TypeOK, NEW r, EndByGuard(r)
  PROVE  NothingTaken
  BY TerminateSends DEF EndByGuard, Withdraw

LEMMA AbandonedReserved ==
  ASSUME NEW call \in CallRows
  PROVE  Abandoned(call).reservedAt = call.reservedAt
  BY DEF Abandoned, CallRows

LEMMA RoundStepSends ==
  ASSUME TypeOK, NEW r \in Rounds, RoundStep(r)
  PROVE  NothingTaken
<1>1. CASE CreateRound(r) \/ ArmRound(r) \/ CompleteRound(r) \/ StopRound(r)
  BY <1>1, TerminateSends, GuardSends
  DEF CreateRound, ArmRound, Withdraw, CompleteRound, StopRound, NothingTaken
<1>2. CASE RecoverInterrupted(r)
  BY <1>2, AbandonedReserved DEF RecoverInterrupted, TypeOK, NothingTaken
<1>3. ASSUME NEW e \in Executions, ClaimExecution(r, e)
      PROVE  NothingTaken
  BY <1>3, GuardSends DEF ClaimExecution, TypeOK, CallRows, NothingTaken
<1> QED
  BY <1>1, <1>2, <1>3 DEF RoundStep

\* A dispatch is logged of a call that is reserved, Plus is reserved after Flash.
TakesInOrder(e) ==
    /\ \A s \in Slots : "dispatched" \in callLog'[<<e, s>>] =>
          \/ "dispatched" \in callLog[<<e, s>>]
          \/ Call(e, s).state = "reserved" /\ Call(e, s).reservedAt # NoTime
    /\ calls'[<<e, "plus">>].reservedAt # NoTime =>
          Call(e, "plus").reservedAt # NoTime \/ Call(e, "flash").state = "result"

LEMMA OrderKept ==
  ASSUME SealInv, [Next]_vars, SendsInOrder, NEW e \in Executions, TakesInOrder(e)
  PROVE  /\ \A s \in Slots : "dispatched" \in callLog'[<<e, s>>] => calls'[<<e, s>>].reservedAt # NoTime
         /\ calls'[<<e, "plus">>].reservedAt # NoTime => calls'[<<e, "flash">>].state = "result"
<1>1. \A s \in Slots : CallMoves(<<e, s>>)
  BY StepMoves DEF Calls
<1>2. \A s \in Slots : Call(e, s).reservedAt # NoTime => calls'[<<e, s>>].reservedAt # NoTime
  BY <1>1 DEF CallMoves, Call
<1>3. Call(e, "flash").state = "result" => calls'[<<e, "flash">>].state = "result"
  BY <1>1 DEF CallMoves, Call, Slots
<1> QED
  BY <1>2, <1>3 DEF SendsInOrder, TakesInOrder

LEMMA ExecutionStepSends ==
  ASSUME LogInv, NEW e \in Executions, ExecutionStep(e)
  PROVE  \A d \in Executions : TakesInOrder(d)
<1>1. TypeOK
  BY LogInvTypes
<1>2. CASE NothingTaken
  BY <1>2 DEF NothingTaken, TakesInOrder, Call, Calls, Slots
<1>3. ASSUME NEW s \in Slots, ReserveCall(e, s), ~NothingTaken
      PROVE  \A d \in Executions : TakesInOrder(d)
  <2>1. /\ ReserveAllowed(e, s) /\ callLog' = Log(callLog, <<e, s>>, "reserved")
        /\ calls' = [calls EXCEPT ![<<e, s>>] = [@ EXCEPT !.state = "reserved", !.reservedAt = now]]
    BY <1>1, <1>3, GuardSends DEF ReserveCall, NothingTaken
  <2>2. \A d \in Executions, t \in Slots : <<d, t>> \in Calls /\
           callLog'[<<d, t>>] = IF <<d, t>> = <<e, s>> THEN callLog[<<d, t>>] \cup {"reserved"}
                                                      ELSE callLog[<<d, t>>]
    BY <1>1, <2>1 DEF Log, TypeOK, Calls
  <2>3. \A d \in Executions : <<d, "plus">> # <<e, s>> => calls'[<<d, "plus">>] = calls[<<d, "plus">>]
    BY <1>1, <2>1 DEF TypeOK, Calls, Slots
  <2>4. s = "plus" => Call(e, "flash").state = "result"
    BY <2>1 DEF ReserveAllowed, PrerequisitesMet
  <2>5. \A d \in Executions : calls'[<<d, "plus">>].reservedAt # NoTime =>
            Call(d, "plus").reservedAt # NoTime \/ Call(d, "flash").state = "result"
    <3> SUFFICES ASSUME NEW d \in Executions, calls'[<<d, "plus">>].reservedAt # NoTime
                 PROVE  Call(d, "plus").reservedAt # NoTime \/ Call(d, "flash").state = "result"
      OBVIOUS
    <3>1. CASE <<d, "plus">> = <<e, s>>
      <4>1. d = e /\ s = "plus"
        BY <3>1
      <4> QED
        BY <2>4, <4>1
    <3>2. CASE <<d, "plus">> # <<e, s>>
      BY <2>3, <3>2 DEF Call
    <3> QED
      BY <3>1, <3>2
  <2>6. \A d \in Executions, t \in Slots :
            "dispatched" \in callLog'[<<d, t>>] => "dispatched" \in callLog[<<d, t>>]
    <3> SUFFICES ASSUME NEW d \in Executions, NEW t \in Slots, "dispatched" \in callLog'[<<d, t>>]
                 PROVE  "dispatched" \in callLog[<<d, t>>]
      OBVIOUS
    <3>1. CASE <<d, t>> = <<e, s>>
      <4>1. callLog'[<<d, t>>] = callLog[<<d, t>>] \cup {"reserved"}
        BY <2>2, <3>1
      <4> QED
        BY <4>1
    <3>2. CASE <<d, t>> # <<e, s>>
      BY <2>2, <3>2
    <3> QED
      BY <3>1, <3>2
  <2> QED
    BY <2>5, <2>6 DEF TakesInOrder
<1>4. ASSUME NEW s \in Slots, MarkDispatched(e, s), ~NothingTaken
      PROVE  \A d \in Executions : TakesInOrder(d)
  <2>1. /\ DispatchAllowed(e, s) /\ callLog' = Log(callLog, <<e, s>>, "dispatched")
        /\ calls' = [calls EXCEPT ![<<e, s>>] = [@ EXCEPT !.state = "dispatched"]]
    BY <1>1, <1>4, GuardSends DEF MarkDispatched, NothingTaken
  <2>2. \A d \in Executions, t \in Slots : <<d, t>> # <<e, s>> => callLog'[<<d, t>>] = callLog[<<d, t>>]
    BY <1>1, <2>1 DEF Log, TypeOK, Calls
  <2>3. Call(e, s).state = "reserved" /\ Call(e, s).reservedAt # NoTime
    <3>1. Call(e, s).state = "reserved"
      BY <2>1 DEF DispatchAllowed
    <3> QED
      BY <3>1 DEF LogInv, TruthInv, Ordered, Taken
  <2>4. \A d \in Executions : calls'[<<d, "plus">>].reservedAt = Call(d, "plus").reservedAt
    BY <1>1, <2>1 DEF TypeOK, CallRows, Calls, Slots, Call
  <2>5. \A d \in Executions, t \in Slots : "dispatched" \in callLog'[<<d, t>>] =>
            \/ "dispatched" \in callLog[<<d, t>>]
            \/ Call(d, t).state = "reserved" /\ Call(d, t).reservedAt # NoTime
    BY <2>2, <2>3
  <2> QED
    BY <2>4, <2>5 DEF TakesInOrder
<1>5. ASSUME NEW s \in Slots, NEW o \in ProviderOutcomes, FinishCall(e, s, o)
      PROVE  /\ \A c \in Calls : calls'[c].reservedAt = calls[c].reservedAt
             /\ \A c \in Calls : "dispatched" \in callLog'[c] => "dispatched" \in callLog[c]
  BY <1>1, <1>5 DEF FinishCall, Log, TypeOK, CallRows, Calls
<1>6. ASSUME NEW t \in 0..MaxTime, LockGroundTruth(e, t) PROVE NothingTaken
  BY <1>1, <1>6, GuardSends DEF LockGroundTruth, NothingTaken
<1>7. CASE MarkExecutionIncomplete(e)
  BY <1>1, <1>2, <1>7, AbandonedReserved DEF MarkExecutionIncomplete, TypeOK, NothingTaken
<1>8. CASE FinalizeExecution(e)
  BY <1>2, <1>8 DEF FinalizeExecution, NothingTaken
<1>9. CASE \E s \in Slots, o \in ProviderOutcomes : FinishCall(e, s, o)
  BY <1>5, <1>9 DEF TakesInOrder, Call, Calls, Slots
<1>10. CASE \E s \in Slots : MarkDispatched(e, s)
  BY <1>2, <1>4, <1>10
<1>11. CASE \E s \in Slots : ReserveCall(e, s)
  BY <1>2, <1>3, <1>11
<1> QED
  BY <1>2, <1>6, <1>7, <1>8, <1>9, <1>10, <1>11 DEF ExecutionStep

LEMMA OrderStep ==
  ASSUME LogInv, SendsInOrder, [Next]_vars
  PROVE  SendsInOrder'
<1>1. TypeOK /\ SealInv
  BY LogInvTypes
<1>2. ASSUME NEW d \in Executions PROVE TakesInOrder(d)
  <2>1. CASE NothingTaken
    BY <2>1 DEF NothingTaken, TakesInOrder, Call, Calls, Slots
  <2>2. ASSUME NEW e \in Executions, ExecutionStep(e) PROVE TakesInOrder(d)
    BY <2>2, ExecutionStepSends
  <2>3. CASE UNCHANGED vars \/ ClockMoves
    BY <2>1, <2>3 DEF vars, logs, ClockMoves, NothingTaken
  <2>4. ASSUME NEW r \in Rounds, RoundStep(r) PROVE NothingTaken
    BY <1>1, <2>4, RoundStepSends DEF NothingTaken
  <2>5. ASSUME NEW a \in Authorizations, AuthorizationStep(a) PROVE NothingTaken
    BY <1>1, <2>5, TerminateSends DEF AuthorizationStep, RecordRevocation, StopRevokedRounds, NothingTaken
  <2> QED
    BY <2>3, <2>4, <2>5, <2>1, <2>2 DEF Next
<1>3. ASSUME NEW d \in Executions
      PROVE  /\ \A s \in Slots : "dispatched" \in callLog'[<<d, s>>] => calls'[<<d, s>>].reservedAt # NoTime
             /\ calls'[<<d, "plus">>].reservedAt # NoTime => calls'[<<d, "flash">>].state = "result"
  BY <1>1, <1>2, OrderKept
<1> QED
  BY <1>3 DEF SendsInOrder, Call

LEMMA LedgerInit ==
  ASSUME Init
  PROVE  LedgerInv
<1>1. LogInv /\ SuiteInv
  BY LogInit, SuiteInit
<1>2. SendsInOrder
  BY DEF Init, SendsInOrder, Call, Calls, Slots, NoCall
<1>3. now \in 0..MaxTime
  BY ConstantsAssumption DEF ConstantsAssumption, Init
<1> QED
  BY <1>1, <1>2, <1>3 DEF LedgerInv

LEMMA LedgerStep ==
  ASSUME LedgerInv, [Next]_vars, now' \in 0..MaxTime
  PROVE  LedgerInv'
  BY LogStep, SuiteStep, OrderStep DEF LedgerInv

--------------------------------------------------------------------------------
(* Every step of a runner is a call of the ledger or none.                  *)

LEMMA PassingIsNotEnded ==
  ASSUME NEW r, GuardPasses(r)
  PROVE  ~EndByGuard(r)
  BY DEF GuardPasses, EndByGuard, GuardEnds

LEMMA RefusedCalls ==
  ASSUME NEW e \in Executions, grantOf[e] \in Rounds, Refused(e)
  PROVE  [Next]_vars /\ now' = now
<1>1. CASE EndByGuard(grantOf[e])
  <2>1. CompleteRound(grantOf[e])
    BY <1>1 DEF CompleteRound
  <2>2. now' = now
    BY <1>1 DEF EndByGuard, Withdraw, Terminate
  <2> QED
    BY <2>1, <2>2 DEF Next, RoundStep
<1>2. CASE UNCHANGED vars
  BY <1>2 DEF vars
<1> QED
  BY <1>1, <1>2 DEF Refused

LEMMA GiveUpCalls ==
  ASSUME NEW e \in Executions, GiveUpExecution(e)
  PROVE  [Next]_vars /\ now' = now
<1>1. CASE MarkExecutionIncomplete(e)
  BY <1>1 DEF MarkExecutionIncomplete, Next, ExecutionStep
<1>2. CASE UNCHANGED vars
  BY <1>2 DEF vars
<1> QED
  BY <1>1, <1>2 DEF GiveUpExecution

LEMMA OperateCalls ==
  ASSUME Operate, now \in 0..MaxTime
  PROVE  [Next]_vars /\ now' \in 0..MaxTime
<1>1. CASE ClockMoves
  BY <1>1 DEF ClockMoves, Next
<1>2. ASSUME NEW r \in Rounds,
             \/ CreateRound(r) \/ ArmRound(r) \/ CompleteRound(r)
             \/ StopRound(r) \/ RecoverInterrupted(r)
      PROVE  [Next]_vars /\ now' = now
  <2>1. RoundStep(r)
    BY <1>2 DEF RoundStep
  <2>2. now' = now
    BY <1>2 DEF CreateRound, ArmRound, CompleteRound, StopRound, RecoverInterrupted, EndByGuard,
                Withdraw, Terminate
  <2> QED
    BY <2>1, <2>2 DEF Next
<1>3. ASSUME NEW a \in Authorizations, AuthorizationStep(a) PROVE [Next]_vars /\ now' = now
  BY <1>3 DEF AuthorizationStep, RecordRevocation, StopRevokedRounds, Terminate, Next
<1> QED
  BY <1>1, <1>2, <1>3 DEF Operate

\* The calls of a runner, each with what its row says of the execution.
LEMMA ClaimCalls ==
  ASSUME TypeOK, NEW e \in Executions, grantOf[e] \in Rounds,
         ClaimAllowed(grantOf[e], e), ClaimExecution(grantOf[e], e)
  PROVE  [Next]_vars /\ now' = now /\ execs'[e].state # "none"
<1>1. ~EndByGuard(grantOf[e])
  BY PassingIsNotEnded DEF ClaimAllowed
<1>2. execs' = [execs EXCEPT ![e].state = "running"] /\ now' = now
  BY <1>1 DEF ClaimExecution
<1>3. execs'[e].state = "running"
  BY <1>2 DEF TypeOK, ExecRows
<1> QED
  BY <1>2, <1>3 DEF Next, RoundStep

LEMMA ReserveCalls ==
  ASSUME NEW e \in Executions, NEW s \in Slots, ReserveAllowed(e, s), ReserveCall(e, s)
  PROVE  [Next]_vars /\ now' = now
<1>1. ~EndByGuard(grantOf[e])
  BY PassingIsNotEnded DEF ReserveAllowed
<1> QED
  BY <1>1 DEF ReserveCall, Next, ExecutionStep

LEMMA DispatchCalls ==
  ASSUME TypeOK, NEW e \in Executions, NEW s \in Slots, DispatchAllowed(e, s), MarkDispatched(e, s)
  PROVE  [Next]_vars /\ now' = now /\ "dispatched" \in callLog'[<<e, s>>]
<1>1. ~EndByGuard(grantOf[e])
  BY PassingIsNotEnded DEF DispatchAllowed
<1>2. callLog' = Log(callLog, <<e, s>>, "dispatched") /\ now' = now
  BY <1>1 DEF MarkDispatched
<1>3. "dispatched" \in callLog'[<<e, s>>]
  BY <1>2 DEF Log, TypeOK, Calls
<1> QED
  BY <1>2, <1>3 DEF Next, ExecutionStep

LEMMA LockCalls ==
  ASSUME NEW e \in Executions, NEW t \in 0..MaxTime, LockAllowed(e, t), LockGroundTruth(e, t)
  PROVE  [Next]_vars /\ now' = now
<1>1. ~EndByGuard(grantOf[e])
  BY PassingIsNotEnded DEF LockAllowed
<1> QED
  BY <1>1 DEF LockGroundTruth, Next, ExecutionStep

LEMMA FinishCalls ==
  ASSUME NEW e \in Executions, NEW s \in Slots, NEW o \in ProviderOutcomes, FinishCall(e, s, o)
  PROVE  [Next]_vars /\ now' = now
  BY DEF FinishCall, Next, ExecutionStep

LEMMA FinalizeCalls ==
  ASSUME NEW e \in Executions, FinalizeExecution(e)
  PROVE  [Next]_vars /\ now' = now
  BY DEF FinalizeExecution, Next, ExecutionStep

--------------------------------------------------------------------------------
(* What one step means for one runner.                                      *)

\* The rows of execution d and the requests sent for it, as a runner that does
\* not move sees them.
QuietFor(d) ==
    /\ execs[d].state # "none" => execs'[d].state # "none"
    /\ execs'[d].state = "complete" => execs[d].state = "complete"
    /\ \A s \in Slots : /\ callLog[<<d, s>>] \subseteq callLog'[<<d, s>>]
                        /\ "result" \in callLog'[<<d, s>>] => "result" \in callLog[<<d, s>>]
                        /\ sent'[<<d, s>>] = sent[<<d, s>>]
    /\ d \in cleaned => d \in cleaned'

LEMMA QuietForAll ==
  ASSUME Quiet, UNCHANGED sent, cleaned \subseteq cleaned', NEW d \in Executions
  PROVE  QuietFor(d)
  BY DEF Quiet, Grows, QuietFor, Calls

LEMMA SentKept ==
  ASSUME RTypeOK, NEW d \in Executions, RunnerInv(d), QuietFor(d)
  PROVE  SentAsLogged(d)' /\ CompleteIsClean(d)'
<1>1. \A s \in Slots : sent[<<d, s>>] \in Nat
  BY DEF RTypeOK, Calls
<1>2. SentAsLogged(d)'
  BY <1>1 DEF RunnerInv, SentAsLogged, QuietFor
<1>3. CompleteIsClean(d)'
  BY DEF RunnerInv, CompleteIsClean, QuietFor
<1> QED
  BY <1>2, <1>3

LEMMA RunnerKept ==
  ASSUME RTypeOK, NEW d \in Executions, RunnerInv(d), QuietFor(d), runner'[d] = runner[d]
  PROVE  RunnerInv(d)'
<1>1. Current(d) \in Slots /\ Current(d)' = Current(d)
  BY DEF RTypeOK, Current
<1>2. PointHolds(d)'
  BY <1>1 DEF RunnerInv, PointHolds, QuietFor, At
<1> QED
  BY <1>2, SentKept DEF RunnerInv

\* Program points at which a runner relies on nothing but its claim.
Calm == Points \ {"invoke", "await", "finish", "lock", "finalize"}

LEMMA CalmHolds ==
  ASSUME NEW e \in Executions, runner'[e].pc \in Calm,
         runner'[e].pc \notin AtRest => execs'[e].state # "none"
  PROVE  PointHolds(e)'
  BY DEF PointHolds, At, Calm

--------------------------------------------------------------------------------
(* The steps of one runner.                                                 *)

LEMMA RunnerTypes ==
  ASSUME RTypeOK
  PROVE  /\ runner \in [Executions -> RunnerRows]
         /\ \A e \in Executions : runner[e] \in RunnerRows /\ Current(e) \in Slots
  BY DEF RTypeOK, RunnerRows, Current

\* The runner of e moves, no other does.
Moves(e) ==
    /\ runner' \in [Executions -> RunnerRows]
    /\ \A d \in Executions : d # e => runner'[d] = runner[d]

LEMMA GotoMoves ==
  ASSUME RTypeOK, NEW e \in Executions, NEW pc \in Points, Goto(e, pc)
  PROVE  /\ Moves(e)
         /\ runner'[e].pc = pc
         /\ runner'[e].slot = runner[e].slot
         /\ runner'[e].answer = runner[e].answer
         /\ runner'[e].stamp = runner[e].stamp
<1>1. runner \in [Executions -> RunnerRows] /\ runner[e] \in RunnerRows
  BY RunnerTypes
<1>2. runner'[e] = [runner[e] EXCEPT !.pc = pc] /\ \A d \in Executions : d # e => runner'[d] = runner[d]
  BY <1>1 DEF Goto
<1>3. runner'[e] \in RunnerRows /\ runner' \in [Executions -> RunnerRows]
  BY <1>1, <1>2 DEF RunnerRows, Goto
<1> QED
  BY <1>1, <1>2, <1>3 DEF Moves, RunnerRows

LEMMA RunTypes ==
  ASSUME RunInv
  PROVE  /\ TypeOK /\ RTypeOK /\ LogInv /\ now \in 0..MaxTime
         /\ \A e \in Executions : runner[e].pc \notin AtRest => grantOf[e] \in Rounds
<1>1. TypeOK /\ ClaimsAreGranted /\ LogInv /\ RTypeOK
  BY LogInvTypes DEF RunInv, LedgerInv
<1> QED
  BY <1>1 DEF ClaimsAreGranted, RunInv, LedgerInv, RunnerInv, PointHolds

LEMMA RunKept ==
  ASSUME RunInv, NEW e \in Executions, [Next]_vars, now' \in 0..MaxTime, Moves(e),
         sent' \in [Calls -> Nat], cleaned' \subseteq Executions,
         \A d \in Executions : d # e => QuietFor(d), RunnerInv(e)'
  PROVE  RunInv'
<1>1. LedgerInv'
  BY LedgerStep DEF RunInv
<1>2. TypeOK'
  <2>1. LogInv'
    BY <1>1 DEF LedgerInv
  <2> QED
    BY <2>1 DEF LogInv, TruthInv, SealInv
<1>3. RTypeOK'
  BY <1>2 DEF RTypeOK, Moves, RunnerRows
<1>4. ASSUME NEW d \in Executions PROVE RunnerInv(d)'
  <2>1. CASE d = e
    BY <2>1
  <2>2. CASE d # e
    BY <2>2, RunnerKept DEF RunInv, Moves
  <2> QED
    BY <2>1, <2>2
<1> QED
  BY <1>1, <1>3, <1>4 DEF RunInv

\* A step that leaves the runner at a point whose promise holds, records no
\* answer and completes nothing.
LEMMA QuietKeeps ==
  ASSUME RunInv, NEW e \in Executions, [Next]_vars, now' \in 0..MaxTime, Moves(e), Quiet,
         UNCHANGED sent, cleaned \subseteq cleaned', cleaned' \subseteq Executions, PointHolds(e)'
  PROVE  RunInv'
<1>1. \A d \in Executions : QuietFor(d)
  BY QuietForAll
<1>2. RTypeOK /\ RunnerInv(e)
  BY DEF RunInv
<1>3. RunnerInv(e)'
  BY <1>1, <1>2, SentKept DEF RunnerInv
<1>4. sent' \in [Calls -> Nat]
  BY <1>2 DEF RTypeOK
<1> QED
  BY <1>1, <1>3, <1>4, RunKept

LEMMA CalmKeeps ==
  ASSUME RunInv, NEW e \in Executions, [Next]_vars, now' \in 0..MaxTime, Moves(e), Quiet,
         UNCHANGED sent, cleaned \subseteq cleaned', cleaned' \subseteq Executions,
         runner'[e].pc \in Calm,
         runner'[e].pc \in AtRest \/ runner[e].pc \notin AtRest \/ execs'[e].state # "none"
  PROVE  RunInv'
<1>1. runner'[e].pc \notin AtRest => execs'[e].state # "none"
  BY DEF RunInv, RunnerInv, PointHolds, Quiet, Grows
<1> QED
  BY <1>1, CalmHolds, QuietKeeps

\* A refused call, or a try to give up, followed by a calm point.
LEMMA RefusedKeeps ==
  ASSUME RunInv, NEW e \in Executions, Refused(e), grantOf[e] \in Rounds, UNCHANGED <<sent, cleaned>>,
         NEW pc \in Calm, Goto(e, pc), pc \in AtRest \/ runner[e].pc \notin AtRest
  PROVE  RunInv'
<1>1. TypeOK /\ RTypeOK /\ now \in 0..MaxTime
  BY RunTypes
<1>2. [Next]_vars /\ now' = now /\ Quiet
  BY <1>1, RefusedCalls, RefusedQuiet
<1>3. Moves(e) /\ runner'[e].pc = pc
  BY <1>1, GotoMoves DEF Calm
<1>4. cleaned \subseteq Executions
  BY <1>1 DEF RTypeOK
<1> QED
  BY <1>1, <1>2, <1>3, <1>4, CalmKeeps

LEMMA GivenUpKeeps ==
  ASSUME RunInv, NEW e \in Executions, GiveUpExecution(e), UNCHANGED sent,
         cleaned \subseteq cleaned', cleaned' \subseteq Executions,
         NEW pc \in Calm, Goto(e, pc), runner[e].pc \notin AtRest
  PROVE  RunInv'
<1>1. TypeOK /\ RTypeOK /\ now \in 0..MaxTime
  BY RunTypes
<1>2. [Next]_vars /\ now' = now /\ Quiet
  BY <1>1, GiveUpCalls, GiveUpQuiet
<1>3. Moves(e) /\ runner'[e].pc = pc
  BY <1>1, GotoMoves DEF Calm
<1> QED
  BY <1>1, <1>2, <1>3, CalmKeeps

\* A step of the runner alone.
LEMMA PrivateKeeps ==
  ASSUME RunInv, NEW e \in Executions, UNCHANGED <<vars, sent>>, Moves(e),
         cleaned \subseteq cleaned', cleaned' \subseteq Executions, PointHolds(e)'
  PROVE  RunInv'
<1>1. [Next]_vars /\ now' = now /\ Quiet
  BY UnchangedQuiet DEF vars, logs
<1> QED
  BY <1>1, RunTypes, QuietKeeps

LEMMA PrivateCalm ==
  ASSUME RunInv, NEW e \in Executions, UNCHANGED <<vars, sent>>,
         cleaned \subseteq cleaned', cleaned' \subseteq Executions,
         NEW pc \in Calm, Goto(e, pc), runner[e].pc \notin AtRest
  PROVE  RunInv'
<1>1. Moves(e) /\ runner'[e].pc = pc
  BY RunTypes, GotoMoves DEF Calm
<1>2. [Next]_vars /\ now' = now /\ Quiet
  BY UnchangedQuiet DEF vars, logs
<1> QED
  BY <1>1, <1>2, RunTypes, CalmKeeps

LEMMA StartKeeps ==
  ASSUME RunInv, NEW e \in Executions, Start(e)
  PROVE  RunInv'
<1>1. TypeOK /\ RTypeOK /\ now \in 0..MaxTime
  BY RunTypes
<1>2. grantOf[e] \in Rounds
  BY <1>1 DEF Start, TypeOK
<1>3. CASE ClaimAllowed(grantOf[e], e)
  <2>1. [Next]_vars /\ now' = now /\ execs'[e].state # "none" /\ Quiet
    BY <1>1, <1>2, <1>3, ClaimCalls, ClaimQuiet DEF Start
  <2>2. runner' = [runner EXCEPT ![e] = [Idle EXCEPT !.pc = "reserve"]]
    BY <1>3 DEF Start
  <2>3. [Idle EXCEPT !.pc = "reserve"] \in RunnerRows
    BY DEF Idle, RunnerRows, Points, Slots, Instant
  <2>4. Moves(e) /\ runner'[e].pc = "reserve"
    BY <1>1, <2>2, <2>3, RunnerTypes DEF Moves, Idle
  <2>5. cleaned \subseteq Executions /\ UNCHANGED <<sent, cleaned>>
    BY <1>1 DEF RTypeOK, Start
  <2> QED
    BY <1>1, <2>1, <2>4, <2>5, CalmKeeps DEF Calm, Points
<1>4. CASE ~ClaimAllowed(grantOf[e], e)
  BY <1>2, <1>4, RefusedKeeps DEF Start, Calm, Points, AtRest
<1> QED
  BY <1>3, <1>4

LEMMA ReserveStepKeeps ==
  ASSUME RunInv, NEW e \in Executions, Reserve(e)
  PROVE  RunInv'
<1>0. runner[e].pc \notin AtRest
  BY DEF Reserve, At, AtRest
<1>1. /\ TypeOK /\ RTypeOK /\ now \in 0..MaxTime /\ Current(e) \in Slots
      /\ runner[e].pc \notin AtRest /\ grantOf[e] \in Rounds
  BY <1>0, RunTypes, RunnerTypes
<1>2. CASE ReserveAllowed(e, Current(e))
  <2>1. PICK s \in Slots : s = Current(e)
    BY <1>1
  <2>2. ReserveAllowed(e, s) /\ ReserveCall(e, s) /\ Goto(e, "dispatch") /\ UNCHANGED <<sent, cleaned>>
    BY <1>2, <2>1 DEF Reserve
  <2>3. [Next]_vars /\ now' = now /\ Quiet
    BY <1>1, <2>2, ReserveCalls, ReserveQuiet
  <2>4. Moves(e) /\ runner'[e].pc = "dispatch"
    BY <1>1, <2>2, GotoMoves DEF Points
  <2>5. cleaned \subseteq Executions
    BY <1>1 DEF RTypeOK
  <2> QED
    BY <1>1, <2>2, <2>3, <2>4, <2>5, CalmKeeps DEF Calm, Points
<1>3. CASE ~ReserveAllowed(e, Current(e))
  BY <1>1, <1>3, RefusedKeeps DEF Reserve, Calm, Points
<1> QED
  BY <1>2, <1>3

\* The request to come is the first of its call: the dispatch was not logged before.
LEMMA DispatchKeeps ==
  ASSUME RunInv, NEW e \in Executions, Dispatch(e)
  PROVE  RunInv'
<1>0. runner[e].pc \notin AtRest
  BY DEF Dispatch, At, AtRest
<1>1. /\ TypeOK /\ RTypeOK /\ now \in 0..MaxTime /\ Current(e) \in Slots
      /\ runner[e].pc \notin AtRest /\ grantOf[e] \in Rounds
  BY <1>0, RunTypes, RunnerTypes
<1>2. CASE DispatchAllowed(e, Current(e))
  <2>1. PICK s \in Slots : s = Current(e)
    BY <1>1
  <2>2. DispatchAllowed(e, s) /\ MarkDispatched(e, s) /\ Goto(e, "invoke") /\ UNCHANGED <<sent, cleaned>>
    BY <1>2, <2>1 DEF Dispatch
  <2>3. [Next]_vars /\ now' = now /\ Quiet /\ "dispatched" \in callLog'[<<e, s>>]
    BY <1>1, <2>2, DispatchCalls, DispatchQuiet
  <2>4. Moves(e) /\ runner'[e].pc = "invoke" /\ Current(e)' = s
    BY <1>1, <2>1, <2>2, GotoMoves DEF Points, Current
  <2>5. sent[<<e, s>>] = 0
    <3>1. sent[<<e, s>>] \in Nat /\ "dispatched" \notin callLog[<<e, s>>]
      BY <1>1, <2>2 DEF RTypeOK, Calls, DispatchAllowed
    <3>2. sent[<<e, s>>] <= 0
      BY <3>1 DEF RunInv, RunnerInv, SentAsLogged
    <3> QED
      BY <3>1, <3>2
  <2>6. execs'[e].state # "none"
    BY <1>1, <2>3 DEF RunInv, RunnerInv, PointHolds, Quiet, Grows
  <2>7. PointHolds(e)'
    BY <2>2, <2>3, <2>4, <2>5, <2>6 DEF PointHolds, At
  <2>8. cleaned \subseteq Executions
    BY <1>1 DEF RTypeOK
  <2> QED
    BY <1>1, <2>2, <2>3, <2>4, <2>7, <2>8, QuietKeeps
<1>3. CASE ~DispatchAllowed(e, Current(e))
  BY <1>1, <1>3, RefusedKeeps DEF Dispatch, Calm, Points
<1> QED
  BY <1>2, <1>3

LEMMA InvokeKeeps ==
  ASSUME RunInv, NEW e \in Executions, Invoke(e)
  PROVE  RunInv'
<1>1. RTypeOK /\ now \in 0..MaxTime /\ Moves(e) /\ runner'[e].pc = "await" /\ Current(e)' = Current(e)
  BY RunTypes, GotoMoves DEF Invoke, Points, Current
<1>2. PICK s \in Slots : s = Current(e)
  BY <1>1, RunnerTypes
<1>3. sent[<<e, s>>] = 0 /\ "dispatched" \in callLog[<<e, s>>] /\ execs[e].state # "none"
  BY <1>2 DEF Invoke, RunInv, RunnerInv, PointHolds, At, AtRest
<1>4. sent \in [Calls -> Nat] /\ sent' = [sent EXCEPT ![<<e, s>>] = @ + 1] /\ UNCHANGED <<vars, cleaned>>
  BY <1>1, <1>2 DEF RTypeOK, Invoke
<1>5. sent' \in [Calls -> Nat] /\ \A c \in Calls : sent'[c] = IF c = <<e, s>> THEN 1 ELSE sent[c]
  <2>1. PICK call \in Calls : call = <<e, s>>
    BY DEF Calls
  <2>2. sent' = [sent EXCEPT ![call] = sent[call] + 1] /\ sent[call] = 0
    BY <1>3, <1>4, <2>1
  <2> QED
    BY <1>4, <2>1, <2>2
<1>6. [Next]_vars /\ now' = now /\ Quiet
  BY <1>4, UnchangedQuiet DEF vars, logs
<1>7. ASSUME NEW d \in Executions, d # e PROVE QuietFor(d)
  <2>1. \A t \in Slots : <<d, t>> \in Calls /\ <<d, t>> # <<e, s>>
    BY <1>7 DEF Calls
  <2>2. \A t \in Slots : sent'[<<d, t>>] = sent[<<d, t>>]
    BY <1>5, <2>1
  <2> QED
    BY <1>4, <2>2 DEF QuietFor, vars, logs
<1>8. RunnerInv(e)'
  <2>1. \A t \in Slots : sent'[<<e, t>>] = IF t = s THEN 1 ELSE sent[<<e, t>>]
    BY <1>5 DEF Calls
  <2>2. execs' = execs /\ callLog' = callLog /\ cleaned' = cleaned
    BY <1>4 DEF vars, logs
  <2>3. SentAsLogged(e) /\ CompleteIsClean(e)
    BY DEF RunInv, RunnerInv
  <2>4. SentAsLogged(e)'
    <3> SUFFICES ASSUME NEW t \in Slots
                 PROVE  /\ sent'[<<e, t>>] <= (IF "dispatched" \in callLog[<<e, t>>] THEN 1 ELSE 0)
                        /\ "result" \in callLog[<<e, t>>] => sent'[<<e, t>>] = 1
      BY <2>2 DEF SentAsLogged
    <3>1. CASE t = s
      BY <1>3, <2>1, <3>1
    <3>2. CASE t # s
      BY <2>1, <2>3, <3>2 DEF SentAsLogged
    <3> QED
      BY <3>1, <3>2
  <2>5. CompleteIsClean(e)'
    BY <1>3, <2>1, <2>2, <2>3 DEF CompleteIsClean
  <2>6. sent'[<<e, s>>] = 1
    BY <2>1
  <2>7. PointHolds(e)'
    BY <1>1, <1>2, <1>3, <2>2, <2>6 DEF PointHolds, At
  <2> QED
    BY <2>4, <2>5, <2>7 DEF RunnerInv
<1>9. cleaned' \subseteq Executions
  BY <1>1, <1>4 DEF RTypeOK
<1> QED
  BY <1>1, <1>5, <1>6, <1>7, <1>8, <1>9, RunKept

LEMMA AnswerKeeps ==
  ASSUME RunInv, NEW e \in Executions, Answer(e)
  PROVE  RunInv'
<1>1. /\ RTypeOK /\ runner[e].pc = "await" /\ runner[e].pc \notin AtRest
      /\ UNCHANGED <<vars, sent, cleaned>> /\ cleaned \subseteq Executions
  BY RunTypes DEF Answer, At, AtRest, RTypeOK
<1>2. CASE Goto(e, "giveup")
  BY <1>1, <1>2, PrivateCalm DEF Calm, Points
<1>3. ASSUME NEW o \in ProviderOutcomes, runner' = [runner EXCEPT ![e].pc = "finish", ![e].answer = o]
      PROVE  RunInv'
  <2>1. runner \in [Executions -> RunnerRows] /\ runner[e] \in RunnerRows
    BY <1>1, RunnerTypes
  <2>2. /\ runner'[e] = [runner[e] EXCEPT !.pc = "finish", !.answer = o]
        /\ \A d \in Executions : d # e => runner'[d] = runner[d]
    BY <1>3, <2>1
  <2>3. /\ runner'[e] \in RunnerRows /\ runner' \in [Executions -> RunnerRows]
        /\ runner'[e].pc = "finish" /\ runner'[e].answer = o /\ runner'[e].slot = runner[e].slot
    BY <1>3, <2>1, <2>2 DEF RunnerRows, Points
  <2>4. Moves(e) /\ Current(e)' = Current(e)
    BY <2>2, <2>3 DEF Moves, Current
  <2>5. sent[<<e, Current(e)>>] = 1 /\ execs[e].state # "none"
    BY <1>1 DEF RunInv, RunnerInv, PointHolds
  <2>6. sent' = sent /\ execs' = execs
    BY <1>1 DEF vars
  <2>7. PointHolds(e)'
    BY <2>3, <2>4, <2>5, <2>6 DEF PointHolds, At
  <2> QED
    BY <1>1, <2>4, <2>7, PrivateKeeps
<1> QED
  BY <1>2, <1>3 DEF Answer

LEMMA AfterFinishCalm ==
  ASSUME RTypeOK, NEW e \in Executions, runner' = [runner EXCEPT ![e] = AfterFinish(e)]
  PROVE  Moves(e) /\ runner'[e].pc \in Calm
<1>1. runner \in [Executions -> RunnerRows] /\ runner[e] \in RunnerRows /\ Current(e) \in Slots
  BY RunnerTypes
<1>2. PICK row : row = runner[e]
  OBVIOUS
<1>3. /\ [row EXCEPT !.pc = "label"] \in RunnerRows /\ [row EXCEPT !.pc = "fail_primary"] \in RunnerRows
      /\ [row EXCEPT !.pc = "cleanup"] \in RunnerRows
      /\ [row EXCEPT !.pc = "reserve", !.slot = "plus"] \in RunnerRows
      /\ [row EXCEPT !.pc = "label"].pc = "label" /\ [row EXCEPT !.pc = "fail_primary"].pc = "fail_primary"
      /\ [row EXCEPT !.pc = "cleanup"].pc = "cleanup"
      /\ [row EXCEPT !.pc = "reserve", !.slot = "plus"].pc = "reserve"
  BY <1>1, <1>2 DEF RunnerRows, Points, Slots
<1>4. AfterFinish(e) \in {[row EXCEPT !.pc = "label"], [row EXCEPT !.pc = "fail_primary"],
                         [row EXCEPT !.pc = "cleanup"], [row EXCEPT !.pc = "reserve", !.slot = "plus"]}
  BY <1>1, <1>2 DEF AfterFinish, Slots
<1>5. PICK new : new = AfterFinish(e)
  OBVIOUS
<1>6. new \in RunnerRows /\ new.pc \in Calm
  BY <1>3, <1>4, <1>5 DEF Calm, Points
<1> QED
  BY <1>1, <1>5, <1>6 DEF Moves

\* A recorded answer was sent for exactly once: its runner waited for it.
LEMMA FinishKeeps ==
  ASSUME RunInv, NEW e \in Executions, Finish(e)
  PROVE  RunInv'
<1>1. /\ TypeOK /\ RTypeOK /\ now \in 0..MaxTime /\ Current(e) \in Slots
      /\ runner[e].pc \notin AtRest /\ cleaned \subseteq Executions
      /\ UNCHANGED <<sent, cleaned>> /\ At(e, "finish")
  BY RunTypes, RunnerTypes DEF Finish, At, AtRest, RTypeOK
<1>2. CASE FinishAllowed(e, Current(e))
  <2>1. PICK s \in Slots : s = Current(e)
    BY <1>1
  <2>2. PICK o \in ProviderOutcomes : o = runner[e].answer
    BY <1>1 DEF RunInv, RunnerInv, PointHolds
  <2>3. FinishCall(e, s, o) /\ runner' = [runner EXCEPT ![e] = AfterFinish(e)]
    BY <1>2, <2>1, <2>2 DEF Finish
  <2>4. Moves(e) /\ runner'[e].pc \in Calm
    BY <1>1, <2>3, AfterFinishCalm
  <2>5. [Next]_vars /\ now' = now
    BY <2>3, FinishCalls
  <2>6. /\ Grows
        /\ \A d \in Executions : execs'[d].state = execs[d].state
        /\ \A c \in Calls : "result" \in callLog'[c] => c = <<e, s>> \/ "result" \in callLog[c]
    BY <1>1, <2>3, FinishGrows
  <2>7. sent[<<e, s>>] = 1 /\ execs[e].state # "none"
    BY <1>1, <2>1 DEF RunInv, RunnerInv, PointHolds, At, AtRest
  <2>8. ASSUME NEW d \in Executions, d # e PROVE QuietFor(d)
    <3>1. \A t \in Slots : <<d, t>> \in Calls /\ <<d, t>> # <<e, s>>
      BY <2>8 DEF Calls
    <3> QED
      BY <1>1, <2>6, <3>1 DEF QuietFor, Grows
  <2>9. RunnerInv(e)'
    <3>1. SentAsLogged(e) /\ CompleteIsClean(e)
      BY DEF RunInv, RunnerInv
    <3>2. \A t \in Slots : /\ sent'[<<e, t>>] = sent[<<e, t>>] /\ sent[<<e, t>>] \in Nat
                           /\ callLog[<<e, t>>] \subseteq callLog'[<<e, t>>]
                           /\ "result" \in callLog'[<<e, t>>] => t = s \/ "result" \in callLog[<<e, t>>]
      BY <1>1, <2>6 DEF Calls, Grows, RTypeOK
    <3>3. SentAsLogged(e)'
      <4> SUFFICES ASSUME NEW t \in Slots
                   PROVE  /\ sent'[<<e, t>>] <= (IF "dispatched" \in callLog'[<<e, t>>] THEN 1 ELSE 0)
                          /\ "result" \in callLog'[<<e, t>>] => sent'[<<e, t>>] = 1
        BY DEF SentAsLogged
      <4>1. sent'[<<e, t>>] <= (IF "dispatched" \in callLog'[<<e, t>>] THEN 1 ELSE 0)
        BY <3>1, <3>2 DEF SentAsLogged
      <4>2. "result" \in callLog'[<<e, t>>] => sent'[<<e, t>>] = 1
        BY <2>7, <3>1, <3>2 DEF SentAsLogged
      <4> QED
        BY <4>1, <4>2
    <3>4. CompleteIsClean(e)'
      BY <1>1, <2>6, <3>1, <3>2 DEF CompleteIsClean
    <3>5. PointHolds(e)'
      BY <2>4, <2>6, <2>7, CalmHolds
    <3> QED
      BY <3>3, <3>4, <3>5 DEF RunnerInv
  <2>10. sent' \in [Calls -> Nat] /\ cleaned' \subseteq Executions
    BY <1>1 DEF RTypeOK
  <2> QED
    BY <1>1, <2>4, <2>5, <2>8, <2>9, <2>10, RunKept
<1>3. CASE ~FinishAllowed(e, Current(e))
  BY <1>1, <1>3, PrivateCalm DEF Finish, Calm, Points
<1> QED
  BY <1>2, <1>3

LEMMA GiveUpKeeps ==
  ASSUME RunInv, NEW e \in Executions, GiveUp(e)
  PROVE  RunInv'
<1>1. runner[e].pc \notin AtRest /\ cleaned \subseteq Executions
  BY RunTypes DEF GiveUp, At, AtRest, RTypeOK
<1> QED
  BY <1>1, GivenUpKeeps DEF GiveUp, Calm, Points

LEMMA LabelKeeps ==
  ASSUME RunInv, NEW e \in Executions, Label(e)
  PROVE  RunInv'
<1>1. /\ RTypeOK /\ runner[e].pc = "label" /\ runner[e].pc \notin AtRest /\ now \in 0..MaxTime
      /\ UNCHANGED <<sent, cleaned>> /\ cleaned \subseteq Executions
  BY RunTypes DEF Label, At, AtRest, RTypeOK
<1>2. CASE GiveUpExecution(e) /\ Goto(e, "unwind")
  BY <1>1, <1>2, GivenUpKeeps DEF Calm, Points
<1>3. CASE runner' = [runner EXCEPT ![e].pc = "lock", ![e].stamp = now] /\ UNCHANGED vars
  <2>1. runner \in [Executions -> RunnerRows] /\ runner[e] \in RunnerRows
    BY <1>1, RunnerTypes
  <2>2. /\ runner'[e] = [runner[e] EXCEPT !.pc = "lock", !.stamp = now]
        /\ \A d \in Executions : d # e => runner'[d] = runner[d]
    BY <1>3, <2>1
  <2>3. now \in Instant
    BY <1>1, ConstantsAssumption DEF Instant, ConstantsAssumption
  <2>4. /\ runner'[e] \in RunnerRows /\ runner' \in [Executions -> RunnerRows]
        /\ runner'[e].pc = "lock" /\ runner'[e].stamp = now
    BY <1>3, <2>1, <2>2, <2>3 DEF RunnerRows, Points
  <2>5. Moves(e)
    BY <2>2, <2>4 DEF Moves
  <2>6. execs[e].state # "none" /\ execs' = execs
    BY <1>1, <1>3 DEF RunInv, RunnerInv, PointHolds, vars
  <2>7. PointHolds(e)'
    BY <1>1, <2>4, <2>6 DEF PointHolds, At
  <2> QED
    BY <1>1, <1>3, <2>5, <2>7, PrivateKeeps
<1> QED
  BY <1>2, <1>3 DEF Label

LEMMA LockStepKeeps ==
  ASSUME RunInv, NEW e \in Executions, Lock(e)
  PROVE  RunInv'
<1>0. runner[e].pc \notin AtRest /\ At(e, "lock")
  BY DEF Lock, At, AtRest
<1>1. /\ TypeOK /\ RTypeOK /\ now \in 0..MaxTime /\ grantOf[e] \in Rounds
      /\ cleaned \subseteq Executions /\ UNCHANGED <<sent, cleaned>>
  BY <1>0, RunTypes DEF RTypeOK, Lock
<1>2. CASE LockAllowed(e, runner[e].stamp)
  <2>1. PICK t \in 0..MaxTime : t = runner[e].stamp
    BY <1>0 DEF RunInv, RunnerInv, PointHolds
  <2>2. /\ LockAllowed(e, t) /\ LockGroundTruth(e, t)
        /\ runner' = [runner EXCEPT ![e].pc = "reserve", ![e].slot = "flash"]
    BY <1>2, <2>1 DEF Lock
  <2>3. [Next]_vars /\ now' = now /\ Quiet
    BY <1>1, <2>2, LockCalls, LockQuiet
  <2>4. runner \in [Executions -> RunnerRows] /\ runner[e] \in RunnerRows
    BY <1>1, RunnerTypes
  <2>5. /\ runner'[e] = [runner[e] EXCEPT !.pc = "reserve", !.slot = "flash"]
        /\ \A d \in Executions : d # e => runner'[d] = runner[d]
    BY <2>2, <2>4
  <2>6. /\ runner'[e] \in RunnerRows /\ runner' \in [Executions -> RunnerRows]
        /\ runner'[e].pc = "reserve"
    BY <2>2, <2>4, <2>5 DEF RunnerRows, Points, Slots
  <2>7. Moves(e) /\ runner'[e].pc \in Calm
    BY <2>5, <2>6 DEF Moves, Calm, Points
  <2> QED
    BY <1>0, <1>1, <2>3, <2>7, CalmKeeps
<1>3. CASE ~LockAllowed(e, runner[e].stamp)
  BY <1>0, <1>1, <1>3, RefusedKeeps DEF Lock, Calm, Points
<1> QED
  BY <1>2, <1>3

LEMMA FailPrimaryKeeps ==
  ASSUME RunInv, NEW e \in Executions, FailPrimary(e)
  PROVE  RunInv'
<1>1. /\ runner[e].pc \notin AtRest /\ cleaned \subseteq Executions /\ UNCHANGED <<sent, cleaned>>
      /\ GiveUpExecution(e)
  BY RunTypes DEF FailPrimary, At, AtRest, RTypeOK
<1>2. \E pc \in {"cleanup", "unwind"} : Goto(e, pc)
  BY DEF FailPrimary
<1> QED
  BY <1>1, <1>2, GivenUpKeeps DEF Calm, Points

\* A runner that goes on to finalise has just verified the cleanup.
LEMMA CleanupKeeps ==
  ASSUME RunInv, NEW e \in Executions, Cleanup(e)
  PROVE  RunInv'
<1>1. /\ RTypeOK /\ runner[e].pc = "cleanup" /\ runner[e].pc \notin AtRest
      /\ cleaned \subseteq Executions /\ UNCHANGED sent
  BY RunTypes DEF Cleanup, At, AtRest, RTypeOK
<1>2. CASE GiveUpExecution(e) /\ Goto(e, "failed") /\ UNCHANGED cleaned
  BY <1>1, <1>2, GivenUpKeeps DEF Calm, Points, AtRest
<1>3. ASSUME cleaned' = cleaned \cup {e}, UNCHANGED vars, Goto(e, "finalize") PROVE RunInv'
  <2>1. Moves(e) /\ runner'[e].pc = "finalize"
    BY <1>1, <1>3, GotoMoves DEF Points
  <2>2. execs' = execs /\ execs[e].state # "none"
    BY <1>1, <1>3 DEF RunInv, RunnerInv, PointHolds, vars
  <2>3. PointHolds(e)'
    BY <1>3, <2>1, <2>2 DEF PointHolds, At
  <2>4. cleaned \subseteq cleaned' /\ cleaned' \subseteq Executions
    BY <1>1, <1>3
  <2> QED
    BY <1>1, <1>3, <2>1, <2>3, <2>4, PrivateKeeps
<1>4. ASSUME cleaned' = cleaned \cup {e}, UNCHANGED vars, Goto(e, "incomplete") PROVE RunInv'
  <2>1. cleaned \subseteq cleaned' /\ cleaned' \subseteq Executions
    BY <1>1, <1>4
  <2> QED
    BY <1>1, <1>4, <2>1, PrivateCalm DEF Calm, Points, AtRest
<1> QED
  BY <1>2, <1>3, <1>4 DEF Cleanup

LEMMA UnwindKeeps ==
  ASSUME RunInv, NEW e \in Executions, Unwind(e)
  PROVE  RunInv'
<1>1. /\ runner[e].pc \notin AtRest /\ cleaned \subseteq Executions /\ UNCHANGED sent
      /\ Goto(e, "failed") /\ "failed" \in Calm
  BY RunTypes DEF Unwind, At, AtRest, RTypeOK, Calm, Points
<1>2. CASE GiveUpExecution(e) /\ UNCHANGED cleaned
  BY <1>1, <1>2, GivenUpKeeps
<1>3. CASE cleaned' = cleaned \cup {e} /\ UNCHANGED vars
  <2>1. cleaned \subseteq cleaned' /\ cleaned' \subseteq Executions
    BY <1>1, <1>3
  <2> QED
    BY <1>1, <1>3, <2>1, PrivateCalm
<1> QED
  BY <1>2, <1>3 DEF Unwind

\* An execution with three evaluable results was sent for three times: each
\* result is in the log.
LEMMA EvaluableWasSent ==
  ASSUME RunInv, NEW e \in Executions, FinalizeAllowed(e)
  PROVE  \A s \in Slots : sent[<<e, s>>] = 1
<1> SUFFICES ASSUME NEW s \in Slots PROVE sent[<<e, s>>] = 1
  OBVIOUS
<1>1. Call(e, s).state = "result" /\ Call(e, s).outcome \in ProviderOutcomes
  BY DEF FinalizeAllowed, PrimarySucceeded, ProviderOutcomes, Slots
<1>2. Call(e, s).outcome # "unknown_after_crash"
  BY <1>1, ConstantsAssumption DEF ConstantsAssumption, ProviderOutcomes
<1>3. CallAgrees(e, s)
  BY RunTypes DEF LogInv
<1>4. "result" \in callLog[<<e, s>>]
  BY <1>1, <1>2, <1>3 DEF CallAgrees
<1> QED
  BY <1>4 DEF RunInv, RunnerInv, SentAsLogged

LEMMA FinalizeKeeps ==
  ASSUME RunInv, NEW e \in Executions, Finalize(e)
  PROVE  RunInv'
<1>1. /\ TypeOK /\ RTypeOK /\ now \in 0..MaxTime /\ runner[e].pc \notin AtRest /\ At(e, "finalize")
      /\ cleaned \subseteq Executions /\ UNCHANGED <<sent, cleaned>>
  BY RunTypes DEF Finalize, At, AtRest, RTypeOK
<1>2. CASE FinalizeAllowed(e)
  <2>1. FinalizeExecution(e) /\ Goto(e, "done")
    BY <1>2 DEF Finalize
  <2>2. [Next]_vars /\ now' = now
    BY <2>1, FinalizeCalls
  <2>3. Grows /\ callLog' = callLog /\ \A d \in Executions : d # e => execs'[d] = execs[d]
    BY <1>1, <2>1, FinalizeGrows
  <2>4. Moves(e) /\ runner'[e].pc = "done"
    BY <1>1, <2>1, GotoMoves DEF Points, AtRest
  <2>5. \A d \in Executions : d # e => QuietFor(d)
    BY <1>1, <2>3 DEF QuietFor
  <2>6. e \in cleaned /\ \A s \in Slots : sent[<<e, s>>] = 1
    BY <1>1, <1>2, EvaluableWasSent DEF RunInv, RunnerInv, PointHolds
  <2>7. CompleteIsClean(e)'
    BY <1>1, <2>6 DEF CompleteIsClean
  <2>8. SentAsLogged(e)'
    <3>1. SentAsLogged(e)
      BY DEF RunInv, RunnerInv
    <3> QED
      BY <1>1, <2>3, <3>1 DEF SentAsLogged
  <2>9. PointHolds(e)'
    BY <2>4, CalmHolds DEF Calm, Points, AtRest
  <2>10. sent' \in [Calls -> Nat] /\ cleaned' \subseteq Executions
    BY <1>1 DEF RTypeOK
  <2> QED
    BY <1>1, <2>2, <2>4, <2>5, <2>7, <2>8, <2>9, <2>10, RunKept DEF RunnerInv
<1>3. CASE ~FinalizeAllowed(e)
  BY <1>1, <1>3, PrivateCalm DEF Finalize, Calm, Points, AtRest
<1> QED
  BY <1>2, <1>3

\* A crash: whatever was at work, the rows and the log say what was sent.
LEMMA CrashKeeps ==
  ASSUME RunInv, NEW e \in Executions, Crash(e)
  PROVE  RunInv'
<1>1. /\ RTypeOK /\ UNCHANGED <<vars, sent, cleaned>> /\ cleaned \subseteq Executions
      /\ runner' = [runner EXCEPT ![e] = [Idle EXCEPT !.pc = "crashed"]]
  BY RunTypes DEF Crash, RTypeOK
<1>2. [Idle EXCEPT !.pc = "crashed"] \in RunnerRows
  BY DEF Idle, RunnerRows, Points, AtRest, Slots, Instant
<1>3. Moves(e) /\ runner'[e].pc = "crashed"
  BY <1>1, <1>2, RunnerTypes DEF Moves, Idle
<1>4. PointHolds(e)'
  BY <1>3, CalmHolds DEF Calm, Points, AtRest
<1> QED
  BY <1>1, <1>3, <1>4, PrivateKeeps

LEMMA OperateKeeps ==
  ASSUME RunInv, Operate
  PROVE  RunInv'
<1>1. TypeOK /\ RTypeOK /\ now \in 0..MaxTime /\ UNCHANGED <<runner, sent, cleaned>>
  BY RunTypes DEF Operate
<1>2. [Next]_vars /\ now' \in 0..MaxTime /\ Quiet
  BY <1>1, OperateCalls, OperateQuiet
<1>3. LedgerInv'
  BY <1>2, LedgerStep DEF RunInv
<1>4. TypeOK'
  <2>1. LogInv'
    BY <1>3 DEF LedgerInv
  <2> QED
    BY <2>1 DEF LogInv, TruthInv, SealInv
<1>5. RTypeOK'
  BY <1>1, <1>4 DEF RTypeOK
<1>6. \A d \in Executions : RunnerInv(d)'
  BY <1>1, <1>2, QuietForAll, RunnerKept DEF RunInv
<1> QED
  BY <1>3, <1>5, <1>6 DEF RunInv

--------------------------------------------------------------------------------
(* The theorems.                                                            *)

LEMMA RunInit ==
  ASSUME RInit
  PROVE  RunInv
<1>1. LedgerInv /\ Init
  BY LedgerInit DEF RInit
<1>2. TypeOK
  <2>1. LogInv
    BY <1>1 DEF LedgerInv
  <2> QED
    BY <2>1, LogInvTypes
<1>3. Idle \in RunnerRows
  BY DEF Idle, RunnerRows, Points, AtRest, Slots, Instant
<1>4. RTypeOK
  BY <1>2, <1>3 DEF RInit, RTypeOK, RunnerRows
<1>5. ASSUME NEW e \in Executions PROVE RunnerInv(e)
  <2>1. execs[e].state = "none"
    BY <1>1 DEF Init, NoExec
  <2>2. \A s \in Slots : sent[<<e, s>>] = 0 /\ callLog[<<e, s>>] = {}
    BY <1>1 DEF RInit, Init, Calls
  <2>3. runner[e].pc = "idle"
    BY DEF RInit, Idle
  <2>4. SentAsLogged(e) /\ CompleteIsClean(e)
    BY <2>1, <2>2 DEF SentAsLogged, CompleteIsClean
  <2>5. PointHolds(e)
    BY <2>3 DEF PointHolds, At, AtRest
  <2> QED
    BY <2>4, <2>5 DEF RunnerInv
<1> QED
  BY <1>1, <1>4, <1>5 DEF RunInv

LEMMA RunStep ==
  ASSUME RunInv, [RNext]_rvars
  PROVE  RunInv'
<1>1. CASE UNCHANGED rvars
  <2>1. [Next]_vars /\ now' = now /\ Quiet /\ UNCHANGED <<runner, sent, cleaned>>
    BY <1>1, UnchangedQuiet DEF rvars, vars, logs
  <2>2. LedgerInv'
    BY <2>1, RunTypes, LedgerStep DEF RunInv
  <2>3. RTypeOK'
    BY <1>1, RunTypes DEF RTypeOK, TypeOK, rvars, vars, logs
  <2>4. \A d \in Executions : RunnerInv(d)'
    BY <2>1, RunTypes, QuietForAll, RunnerKept DEF RunInv
  <2> QED
    BY <2>2, <2>3, <2>4 DEF RunInv
<1>2. ASSUME NEW e \in Executions, Start(e) \/ RunnerStep(e) \/ Crash(e) PROVE RunInv'
  BY <1>2, StartKeeps, ReserveStepKeeps, DispatchKeeps, InvokeKeeps, AnswerKeeps, FinishKeeps,
     GiveUpKeeps, LabelKeeps, LockStepKeeps, FailPrimaryKeeps, CleanupKeeps, UnwindKeeps, FinalizeKeeps,
     CrashKeeps DEF RunnerStep
<1> QED
  BY <1>1, <1>2, OperateKeeps DEF RNext

THEOREM RunInvariant == RSpec => []RunInv
<1>1. RInit => RunInv
  BY RunInit
<1>2. RunInv /\ [RNext]_rvars => RunInv'
  BY RunStep
<1> QED
  BY <1>1, <1>2, PTL DEF RSpec

\* No request is ever sent twice, and none the ledger has not recorded as
\* dispatched: across crashes, new processes for the same execution, stops and
\* recoveries, for any executions and any clock.
THEOREM NothingSentTwice == RSpec => []NeverResent
<1>1. ASSUME RunInv PROVE NeverResent
  <2>1. RTypeOK /\ \A e \in Executions : SentAsLogged(e)
    BY <1>1 DEF RunInv, RunnerInv
  <2>2. ASSUME NEW c \in Calls PROVE sent[c] <= (IF "dispatched" \in callLog[c] THEN 1 ELSE 0)
    <3>1. PICK e \in Executions, s \in Slots : c = <<e, s>>
      BY DEF Calls
    <3> QED
      BY <2>1, <3>1 DEF SentAsLogged
  <2> QED
    BY <2>1, <2>2 DEF NeverResent
<1> QED
  BY <1>1, RunInvariant, PTL

\* The provider sees no verifier request of an execution whose ground truth is
\* not locked, and no Plus request before the Flash call is settled.
THEOREM VerifiersBlind == RSpec => []VerifiersAreBlind
<1>1. ASSUME RunInv PROVE VerifiersAreBlind
  <2>1. SendsInOrder /\ LogInv
    BY <1>1 DEF RunInv, LedgerInv
  <2>2. ASSUME NEW e \in Executions, NEW s \in Slots, sent[<<e, s>>] > 0
        PROVE  Call(e, s).reservedAt # NoTime
    <3>1. sent[<<e, s>>] <= (IF "dispatched" \in callLog[<<e, s>>] THEN 1 ELSE 0)
      BY <1>1 DEF RunInv, RunnerInv, SentAsLogged
    <3>2. "dispatched" \in callLog[<<e, s>>]
      <4>1. sent[<<e, s>>] \in Nat
        BY <1>1, RunTypes DEF RTypeOK, Calls
      <4> QED
        BY <2>2, <3>1, <4>1
    <3> QED
      BY <2>1, <3>2 DEF SendsInOrder
  <2>3. ASSUME NEW e \in Executions PROVE Ordered(e) /\ ExecAgrees(e)
    BY <2>1 DEF LogInv, TruthInv
  <2>4. \A e \in Executions : Call(e, "flash").reservedAt # NoTime => "truth_locked" \in execLog[e]
    BY <2>3 DEF Ordered, ExecAgrees
  <2>5. \A e \in Executions : Call(e, "plus").reservedAt # NoTime =>
            Call(e, "flash").reservedAt # NoTime /\ Call(e, "flash").state = "result"
    BY <2>1, <2>3 DEF Ordered, SendsInOrder
  <2> QED
    BY <2>2, <2>4, <2>5 DEF VerifiersAreBlind, Slots
<1> QED
  BY <1>1, RunInvariant, PTL

\* A case of the evaluation had its three requests sent, once each, and its
\* photo cleanup verified.
THEOREM CasesClean == RSpec => []CasesAreClean
<1>1. ASSUME RunInv PROVE CasesAreClean
  BY <1>1 DEF RunInv, RunnerInv, CompleteIsClean, CasesAreClean
<1> QED
  BY <1>1, RunInvariant, PTL

\* A completed round cost one request per slot of every execution of its grant.
THEOREM RoundsCostThreeN == RSpec => []CompletedRoundsCostThreeN
<1>1. ASSUME RunInv PROVE CompletedRoundsCostThreeN
  <2>1. SuiteInv /\ \A e \in Executions : CompleteIsClean(e)
    BY <1>1 DEF RunInv, LedgerInv, RunnerInv
  <2>2. ASSUME NEW r \in Rounds, status[r] = "completed", NEW e \in Authorized[AuthOf[r]]
        PROVE  e \in Executions /\ execs[e].state = "complete"
    <3>1. ExecutionsOf(r) = Authorized[AuthOf[r]]
      BY <2>1, <2>2 DEF SuiteInv, GrantsAreNotShared
    <3> QED
      BY <2>1, <2>2, <3>1 DEF SuiteInv, CompletedAreWhole, ExecutionsOf
  <2> QED
    BY <2>1, <2>2 DEF CompletedRoundsCostThreeN, CompleteIsClean
<1> QED
  BY <1>1, RunInvariant, PTL
================================================================================
