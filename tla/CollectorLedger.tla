---------------------------- MODULE CollectorLedger ----------------------------
(***************************************************************************)
(* The shadow collector's SQLite ledger: evaluation/collector/ledger.ts,   *)
(* class ShadowCollectorLedger.                                            *)
(*                                                                         *)
(* Every public method runs in one BEGIN IMMEDIATE transaction, so every   *)
(* action below is one committed transaction, and any number of processes  *)
(* may be its callers in any order.  A method that throws rolls back and   *)
(* changes nothing: it is a stuttering step.  A method that #guard blocks  *)
(* still commits what #guard did to the round (EndByGuard).                *)
(*                                                                         *)
(* Receipts and tokens are HMACs of the row they name, and a slot is       *)
(* reserved at most once, so "the token matches" is "the call is in the    *)
(* state the token was issued for".                                        *)
(***************************************************************************)
EXTENDS Integers, FiniteSets

CONSTANTS
    Rounds,          \* round ids, one signed manifest each
    Authorizations,  \* consent grants
    Executions,      \* execution ids
    FailedOutcomes,  \* the failed outcomes finishCall accepts (timeout, ...)
    AuthOf,          \* the authorization a round's manifest names
    Authorized,      \* the executions a consent grant pre-allocates
    CreatedAt,       \* the start of a grant's time window
    ExpiresAt,       \* its end, exclusive
    NoRound,         \* "no execution_grants row"
    MaxTime          \* the last instant the wall clock shows

Slots == {"primary", "flash", "plus"}
Calls == Executions \X Slots
NoTime == -1

ActiveStatuses   == {"draft", "armed", "running"}
TerminalStatuses == {"completed", "stopped", "expired", "review_required"}
OpenStates       == {"planned", "reserved"}
ProviderOutcomes == {"success"} \cup FailedOutcomes
ExecTerminal     == {"incomplete", "completed"}

ASSUME ConstantsAssumption ==
    /\ AuthOf \in [Rounds -> Authorizations]
    /\ Authorized \in [Authorizations -> SUBSET Executions]
    /\ IsFiniteSet(Executions)
    /\ CreatedAt \in [Authorizations -> Nat]
    /\ ExpiresAt \in [Authorizations -> Nat]
    /\ NoRound \notin Rounds
    /\ MaxTime \in Nat
    /\ FailedOutcomes \cap {"none", "success", "unknown_after_crash",
                            "cancelled_before_dispatch"} = {}

VARIABLES
    now,           \* what the injected clock returns
    status,        \* rounds.status, "absent" before the row exists
    lastObserved,  \* rounds.last_observed_ms
    revoked,       \* revocations
    grantOf,       \* execution_grants.round_id
    execs,         \* executions: state, candidate_json present, locked_at_ms
    calls,         \* calls: state, outcome, reserved_at_ms, and completed_at_ms
                   \* of results (nothing reads a cancelled call's)
    roundLog,      \* audit_events about a round,
    execLog,       \* about an execution,
    callLog,       \* about a call,
    authLog        \* and about an authorization

logs == <<roundLog, execLog, callLog, authLog>>
vars == <<now, status, lastObserved, revoked, grantOf, execs, calls, logs>>

--------------------------------------------------------------------------------
(* Reading the tables.                                                      *)

NoCall  == [state |-> "none", outcome |-> "none",
            reservedAt |-> NoTime, completedAt |-> NoTime]
NoExec  == [state |-> "none", candidate |-> FALSE, truthAt |-> NoTime]

MaxExecutions(r)    == Cardinality(Authorized[AuthOf[r]])
MaxProviderCalls(r) == 3 * MaxExecutions(r)

ExecutionsOf(r) == {e \in Executions : grantOf[e] = r}
Claimed(r)      == {e \in ExecutionsOf(r) : execs[e].state # "none"}
CallsOf(r)      == ExecutionsOf(r) \X Slots
ReservedEver(C) == {c \in C : calls[c].reservedAt # NoTime}

Call(e, s) == calls[<<e, s>>]

PrimarySucceeded(e) == /\ Call(e, "primary").state = "result"
                       /\ Call(e, "primary").outcome = "success"

ExecutionSettled(e) == execLog[e] \cap ExecTerminal # {}

Log(log, x, what) == [log EXCEPT ![x] = @ \cup {what}]

--------------------------------------------------------------------------------
(* #terminate and #guard.                                                   *)

\* #terminate for every round of R: the round gets a terminal status, calls
\* that were never dispatched are cancelled, running executions become
\* incomplete.  A dispatched call is left as it is, and no execution_incomplete
\* event is written.
Terminate(R, final) ==
    /\ status' = [r \in Rounds |-> IF r \in R THEN final ELSE status[r]]
    /\ lastObserved' = [r \in Rounds |-> IF r \in R THEN now ELSE lastObserved[r]]
    /\ calls' = [c \in Calls |->
                    IF grantOf[c[1]] \in R /\ calls[c].state \in OpenStates
                    THEN [calls[c] EXCEPT !.state = "cancelled",
                                          !.outcome = "cancelled_before_dispatch"]
                    ELSE calls[c]]
    /\ execs' = [e \in Executions |->
                    IF grantOf[e] \in R /\ execs[e].state = "running"
                    THEN [execs[e] EXCEPT !.state = "incomplete"]
                    ELSE execs[e]]
    /\ roundLog' = [r \in Rounds |->
                       IF r \in R THEN roundLog[r] \cup {final} ELSE roundLog[r]]
    /\ UNCHANGED <<now, revoked, grantOf, execLog, callLog, authLog>>

TerminalEvents == TerminalStatuses \cup {"recovered"}
ClosedByEvent(r) == roundLog[r] \cap TerminalEvents # {}

IsRevoked(r)  == AuthOf[r] \in revoked
RolledBack(r) == now < lastObserved[r]
Expired(r)    == now >= ExpiresAt[AuthOf[r]]

\* The three checks #guard and armRound make in this order, and the end each
\* one brings to a round that is not terminal yet.
Withdraw(r) ==
    \/ IsRevoked(r) /\ Terminate({r}, "stopped")
    \/ ~IsRevoked(r) /\ RolledBack(r) /\ Terminate({r}, "review_required")
    \/ ~IsRevoked(r) /\ ~RolledBack(r) /\ Expired(r) /\ Terminate({r}, "expired")

\* #guard blocks the caller and commits the end of the round.
GuardEnds(r) ==
    /\ status[r] \in ActiveStatuses
    /\ ~ClosedByEvent(r)
    /\ IsRevoked(r) \/ RolledBack(r) \/ Expired(r)

EndByGuard(r) == GuardEnds(r) /\ Withdraw(r)

\* Mutants: the rollback check and the revocation check are dropped.
GuardIgnoresRollback(r) ==
    /\ status[r] \in {"armed", "running"}
    /\ ~ClosedByEvent(r) /\ ~IsRevoked(r) /\ ~Expired(r)
GuardIgnoresRevocation(r) ==
    /\ status[r] \in {"armed", "running"}
    /\ ~ClosedByEvent(r) /\ ~RolledBack(r) /\ ~Expired(r)

\* #guard lets the caller go on.  It then also moves last_observed_ms to now.
GuardPasses(r) ==
    /\ status[r] \in {"armed", "running"}
    /\ ~ClosedByEvent(r)
    /\ ~IsRevoked(r) /\ ~RolledBack(r) /\ ~Expired(r)

Observe(r) == lastObserved' = [lastObserved EXCEPT ![r] = now]

--------------------------------------------------------------------------------
(* Rounds.                                                                  *)

\* Mutant: a used execution id or authorization is not refused.
CreateAllowedTwice(r) ==
    LET a == AuthOf[r] IN
    /\ CreatedAt[a] <= now /\ now < ExpiresAt[a]
    /\ status[r] = "absent" /\ "created" \notin roundLog[r]
    /\ a \notin revoked

CreateAllowed(r) ==
    LET a == AuthOf[r] IN
    /\ CreatedAt[a] <= now /\ now < ExpiresAt[a]
    /\ "consumed" \notin authLog[a]
    /\ \A q \in Rounds : AuthOf[q] = a => status[q] = "absent"
    /\ "created" \notin roundLog[r]
    /\ a \notin revoked
    /\ \A e \in Authorized[a] : /\ "registered" \notin execLog[e]
                                /\ grantOf[e] = NoRound

CreateRound(r) ==
    LET a == AuthOf[r] IN
    /\ CreateAllowed(r)
    /\ status' = [status EXCEPT ![r] = "draft"]
    /\ Observe(r)
    /\ grantOf' = [e \in Executions |-> IF e \in Authorized[a] THEN r ELSE grantOf[e]]
    /\ execLog' = [e \in Executions |->
                      IF e \in Authorized[a] THEN execLog[e] \cup {"registered"}
                                             ELSE execLog[e]]
    /\ authLog' = Log(authLog, a, "consumed")
    /\ roundLog' = Log(roundLog, r, "created")
    /\ UNCHANGED <<now, revoked, execs, calls, callLog>>

ArmRound(r) ==
    /\ status[r] = "draft"
    /\ \/ Withdraw(r)
       \/ /\ ~IsRevoked(r) /\ ~RolledBack(r) /\ ~Expired(r)
          /\ status' = [status EXCEPT ![r] = "armed"]
          /\ Observe(r)
          /\ roundLog' = Log(roundLog, r, "armed")
          /\ UNCHANGED <<now, revoked, grantOf, execs, calls, execLog, callLog, authLog>>

\* Mutant: executions are counted whether complete or not.
CompleteWithGaps(r) ==
    /\ GuardPasses(r)
    /\ Cardinality(Claimed(r)) = MaxExecutions(r)
    /\ Cardinality(ReservedEver(CallsOf(r))) = MaxProviderCalls(r)

CompleteRoundAllowed(r) ==
    /\ GuardPasses(r)
    /\ Cardinality(Claimed(r)) = MaxExecutions(r)
    /\ Cardinality({e \in Claimed(r) : execs[e].state = "complete"}) = MaxExecutions(r)
    /\ Cardinality(ReservedEver(CallsOf(r))) = MaxProviderCalls(r)

CompleteRound(r) ==
    \/ EndByGuard(r)
    \/ /\ CompleteRoundAllowed(r)
       /\ status' = [status EXCEPT ![r] = "completed"]
       /\ Observe(r)
       /\ roundLog' = Log(roundLog, r, "completed")
       /\ UNCHANGED <<now, revoked, grantOf, execs, calls, execLog, callLog, authLog>>

\* Mutant: a round that already ended is stopped again.
StopEndedRound(r) == status[r] # "absent" /\ Terminate({r}, "stopped")

\* No guard, no clock check: a stop is accepted from any round still active.
StopRound(r) ==
    /\ status[r] \in ActiveStatuses
    /\ Terminate({r}, "stopped")

\* revokeAuthorization is two transactions.  The first makes the revocation
\* durable ...
RecordRevocation(a) ==
    /\ a \notin revoked
    /\ revoked' = revoked \cup {a}
    /\ authLog' = Log(authLog, a, "revoked")
    /\ UNCHANGED <<now, status, lastObserved, grantOf, execs, calls,
                   roundLog, execLog, callLog>>

\* ... and the second stops the authorization's rounds.  Other callers may run
\* in between, and a crash may keep it from ever running; revoking again runs
\* it, since the first transaction then returns early.
StopRevokedRounds(a) ==
    LET R == {r \in Rounds : AuthOf[r] = a /\ status[r] \in ActiveStatuses} IN
    /\ a \in revoked
    /\ R # {}
    /\ Terminate(R, "stopped")

--------------------------------------------------------------------------------
(* Executions and their three call slots.                                   *)

ClaimAllowed(r, e) ==
    /\ GuardPasses(r)
    /\ CreatedAt[AuthOf[r]] <= now
    /\ grantOf[e] = r
    /\ "claimed" \notin execLog[e]
    /\ execs[e].state = "none"
    /\ Cardinality(Claimed(r)) < MaxExecutions(r)

ClaimExecution(r, e) ==
    \/ EndByGuard(r)
    \/ /\ ClaimAllowed(r, e)
       /\ execs' = [execs EXCEPT ![e].state = "running"]
       /\ calls' = [c \in Calls |->
                       IF c[1] = e THEN [calls[c] EXCEPT !.state = "planned"]
                                   ELSE calls[c]]
       /\ status' = [status EXCEPT ![r] = "running"]
       /\ Observe(r)
       /\ execLog' = Log(execLog, e, "claimed")
       /\ UNCHANGED <<now, revoked, grantOf, roundLog, callLog, authLog>>

\* What a slot needs before it may be reserved: Flash needs the Primary's
\* candidates and the locked ground truth, Plus also a Flash answer.
PrerequisitesMet(e, s) ==
    /\ s # "primary" => /\ PrimarySucceeded(e)
                        /\ execs[e].truthAt # NoTime
    /\ s = "flash" => execs[e].candidate
    /\ s = "plus" => /\ Call(e, "flash").state = "result"
                     /\ Call(e, "flash").outcome \in ProviderOutcomes

ReserveAllowed(e, s) ==
    /\ GuardPasses(grantOf[e])
    /\ ~ExecutionSettled(e)
    /\ execs[e].state = "running"
    /\ "reserved" \notin callLog[<<e, s>>]
    /\ Call(e, s).reservedAt = NoTime
    /\ Call(e, s).state = "planned"
    /\ PrerequisitesMet(e, s)
    /\ Cardinality(ReservedEver(CallsOf(grantOf[e]))) < MaxProviderCalls(grantOf[e])
    /\ Cardinality(ReservedEver({e} \X Slots)) < 3

ReserveCall(e, s) ==
    /\ execs[e].state # "none"
    /\ \/ EndByGuard(grantOf[e])
       \/ /\ ReserveAllowed(e, s)
          /\ calls' = [calls EXCEPT ![<<e, s>>] =
                           [@ EXCEPT !.state = "reserved", !.reservedAt = now]]
          /\ Observe(grantOf[e])
          /\ callLog' = Log(callLog, <<e, s>>, "reserved")
          /\ UNCHANGED <<now, status, revoked, grantOf, execs, roundLog, execLog, authLog>>

DispatchAllowed(e, s) ==
    /\ GuardPasses(grantOf[e])
    /\ ~ExecutionSettled(e)
    /\ execs[e].state = "running"
    /\ Call(e, s).state = "reserved"
    /\ "reserved" \in callLog[<<e, s>>]
    /\ callLog[<<e, s>>] \cap {"dispatched", "result"} = {}

MarkDispatched(e, s) ==
    /\ execs[e].state # "none"
    /\ \/ EndByGuard(grantOf[e])
       \/ /\ DispatchAllowed(e, s)
          /\ calls' = [calls EXCEPT ![<<e, s>>] = [@ EXCEPT !.state = "dispatched"]]
          /\ Observe(grantOf[e])
          /\ callLog' = Log(callLog, <<e, s>>, "dispatched")
          /\ UNCHANGED <<now, status, revoked, grantOf, execs, roundLog, execLog, authLog>>

\* No guard: an answer is recorded whatever became of the round meanwhile, as
\* long as the call is still dispatched and its execution has no final event.
FinishAllowed(e, s) ==
    /\ ~ExecutionSettled(e)
    /\ Call(e, s).state = "dispatched"
    /\ "dispatched" \in callLog[<<e, s>>]
    /\ "result" \notin callLog[<<e, s>>]
    /\ s # "primary" => execs[e].candidate

FinishCall(e, s, outcome) ==
    /\ FinishAllowed(e, s)
    /\ calls' = [calls EXCEPT ![<<e, s>>] =
                     [@ EXCEPT !.state = "result", !.outcome = outcome,
                               !.completedAt = now]]
    /\ execs' = [execs EXCEPT ![e].candidate =
                    @ \/ (s = "primary" /\ outcome = "success")]
    /\ callLog' = Log(callLog, <<e, s>>, "result")
    /\ UNCHANGED <<now, status, lastObserved, revoked, grantOf,
                   roundLog, execLog, authLog>>

\* lockedAt is the envelope's locked_at_ms, read from the caller's clock.
LockAllowed(e, lockedAt) ==
    /\ GuardPasses(grantOf[e])
    /\ ~ExecutionSettled(e)
    /\ "truth_locked" \notin execLog[e]
    /\ execs[e].state = "running"
    /\ execs[e].truthAt = NoTime
    /\ execs[e].candidate
    /\ PrimarySucceeded(e)
    /\ Call(e, "flash").state = "planned"
    /\ Call(e, "primary").completedAt <= lockedAt
    /\ lockedAt <= now

LockGroundTruth(e, lockedAt) ==
    /\ execs[e].state # "none"
    /\ \/ EndByGuard(grantOf[e])
       \/ /\ LockAllowed(e, lockedAt)
          /\ execs' = [execs EXCEPT ![e].truthAt = lockedAt]
          /\ Observe(grantOf[e])
          /\ execLog' = Log(execLog, e, "truth_locked")
          /\ UNCHANGED <<now, status, revoked, grantOf, calls, roundLog, callLog, authLog>>

--------------------------------------------------------------------------------
(* How an execution ends.                                                   *)

\* Mutants: unsent calls are left open, sent calls are left in flight, recorded
\* answers are overwritten, state and outcome are mixed up.
AbandonedLeavingUnsent(call) ==
    IF call.state = "dispatched"
    THEN [call EXCEPT !.state = "result", !.outcome = "unknown_after_crash",
                      !.completedAt = now]
    ELSE call
AbandonedLeavingSent(call) ==
    IF call.state \in OpenStates
    THEN [call EXCEPT !.state = "cancelled", !.outcome = "cancelled_before_dispatch"]
    ELSE call
AbandonedOverwriting(call) ==
    IF call.state \in OpenStates \cup {"none", "cancelled"} THEN AbandonedLeavingSent(call)
    ELSE [call EXCEPT !.state = "result", !.outcome = "unknown_after_crash",
                      !.completedAt = now]
AbandonedMixedUp(call) ==
    IF call.state \in OpenStates \cup {"dispatched"}
    THEN [call EXCEPT !.state = "unknown_after_crash"] ELSE call

\* What becomes of a call whose execution is given up: never sent, cancelled;
\* sent and unanswered, consumed with an unknown outcome.
Abandoned(call) ==
    CASE call.state \in OpenStates ->
            [call EXCEPT !.state = "cancelled", !.outcome = "cancelled_before_dispatch"]
      [] call.state = "dispatched" ->
            [call EXCEPT !.state = "result", !.outcome = "unknown_after_crash",
                         !.completedAt = now]
      [] OTHER -> call

\* Mutant: any execution can be marked incomplete.
MarkIncompleteAnyState(e) == ~ExecutionSettled(e)

MarkIncompleteAllowed(e) ==
    /\ ~ExecutionSettled(e)
    /\ execs[e].state = "running"

MarkExecutionIncomplete(e) ==
    /\ MarkIncompleteAllowed(e)
    /\ execs' = [execs EXCEPT ![e].state = "incomplete"]
    /\ calls' = [c \in Calls |-> IF c[1] = e THEN Abandoned(calls[c]) ELSE calls[c]]
    /\ execLog' = Log(execLog, e, "incomplete")
    /\ UNCHANGED <<now, status, lastObserved, revoked, grantOf,
                   roundLog, callLog, authLog>>

\* No guard: a case is built from an execution that has all it needs.
FinalizeAllowed(e) ==
    /\ ~ExecutionSettled(e)
    /\ execs[e].state = "running"
    /\ execs[e].candidate
    /\ execs[e].truthAt # NoTime
    /\ PrimarySucceeded(e)
    /\ \A s \in {"flash", "plus"} : /\ Call(e, s).state = "result"
                                    /\ Call(e, s).outcome \in ProviderOutcomes

FinalizeExecution(e) ==
    /\ FinalizeAllowed(e)
    /\ execs' = [execs EXCEPT ![e].state = "complete"]
    /\ execLog' = Log(execLog, e, "completed")
    /\ UNCHANGED <<now, status, lastObserved, revoked, grantOf, calls,
                   roundLog, callLog, authLog>>

\* Mutant: recovery only looks for calls that were reserved and not sent.
RecoverableUnsent(r) == \E c \in CallsOf(r) : calls[c].state = "reserved"

Recoverable(r) ==
    \/ \E c \in CallsOf(r) : calls[c].state \in {"reserved", "dispatched"}
    \/ \E e \in ExecutionsOf(r) : execs[e].state = "running"

\* recoverInterrupted, run by an operator after a crash, or while a runner is
\* still alive: the ledger cannot tell.
RecoverInterrupted(r) ==
    /\ Recoverable(r)
    /\ calls' = [c \in Calls |-> IF c \in CallsOf(r) THEN Abandoned(calls[c]) ELSE calls[c]]
    /\ execs' = [e \in Executions |->
                    IF grantOf[e] = r /\ execs[e].state = "running"
                    THEN [execs[e] EXCEPT !.state = "incomplete"]
                    ELSE execs[e]]
    /\ IF status[r] \in ActiveStatuses
       THEN /\ status' = [status EXCEPT ![r] = "review_required"]
            /\ Observe(r)
       ELSE UNCHANGED <<status, lastObserved>>
    /\ roundLog' = Log(roundLog, r, "recovered")
    /\ UNCHANGED <<now, revoked, grantOf, execLog, callLog, authLog>>

--------------------------------------------------------------------------------
\* The wall clock moves, in either direction.
ClockMoves == /\ now' \in 0..MaxTime
              /\ UNCHANGED <<status, lastObserved, revoked, grantOf, execs, calls, logs>>

Init ==
    /\ now = 0
    /\ status = [r \in Rounds |-> "absent"]
    /\ lastObserved = [r \in Rounds |-> 0]
    /\ revoked = {}
    /\ grantOf = [e \in Executions |-> NoRound]
    /\ execs = [e \in Executions |-> NoExec]
    /\ calls = [c \in Calls |-> NoCall]
    /\ roundLog = [r \in Rounds |-> {}]
    /\ execLog = [e \in Executions |-> {}]
    /\ callLog = [c \in Calls |-> {}]
    /\ authLog = [a \in Authorizations |-> {}]

RoundStep(r) ==
    \/ CreateRound(r)
    \/ ArmRound(r)
    \/ CompleteRound(r)
    \/ StopRound(r)
    \/ RecoverInterrupted(r)
    \/ \E e \in Executions : ClaimExecution(r, e)

AuthorizationStep(a) == RecordRevocation(a) \/ StopRevokedRounds(a)

ExecutionStep(e) ==
    \/ \E s \in Slots : ReserveCall(e, s)
    \/ \E s \in Slots : MarkDispatched(e, s)
    \/ \E s \in Slots, o \in ProviderOutcomes : FinishCall(e, s, o)
    \/ \E t \in 0..MaxTime : LockGroundTruth(e, t)
    \/ MarkExecutionIncomplete(e)
    \/ FinalizeExecution(e)

Next ==
    \/ ClockMoves
    \/ \E r \in Rounds : RoundStep(r)
    \/ \E a \in Authorizations : AuthorizationStep(a)
    \/ \E e \in Executions : ExecutionStep(e)

Spec == Init /\ [][Next]_vars

--------------------------------------------------------------------------------
(* Properties.                                                              *)

RoundStatuses == {"absent"} \cup ActiveStatuses \cup TerminalStatuses
Outcomes      == {"none", "unknown_after_crash", "cancelled_before_dispatch"}
                     \cup ProviderOutcomes
CallStates    == {"none", "planned", "reserved", "dispatched", "result", "cancelled"}
ExecStates    == {"none", "running", "complete", "incomplete"}
Instant       == Nat \cup {NoTime}
RoundEvents   == {"created", "armed"} \cup TerminalEvents
ExecEvents    == {"registered", "claimed", "truth_locked"} \cup ExecTerminal
CallEvents    == {"reserved", "dispatched", "result"}

CallRows == [state : CallStates, outcome : Outcomes,
             reservedAt : Instant, completedAt : Instant]
ExecRows == [state : ExecStates, candidate : BOOLEAN, truthAt : Instant]

\* Every table row and audit event has a value its column admits
\* (the CHECK constraints of ledger.ts's schema).
TypeOK ==
    /\ now \in Nat
    /\ status \in [Rounds -> RoundStatuses]
    /\ lastObserved \in [Rounds -> Nat]
    /\ revoked \subseteq Authorizations
    /\ grantOf \in [Executions -> Rounds \cup {NoRound}]
    /\ execs \in [Executions -> ExecRows]
    /\ calls \in [Calls -> CallRows]
    /\ roundLog \in [Rounds -> SUBSET RoundEvents]
    /\ execLog \in [Executions -> SUBSET ExecEvents]
    /\ callLog \in [Calls -> SUBSET CallEvents]
    /\ authLog \in [Authorizations -> SUBSET {"consumed", "revoked"}]

\* However a round ends (stop, revocation, expiry, clock rollback, recovery or
\* completion) nothing in it is left to run: no execution is running, no call
\* is planned or reserved; and a completed or recovered round has no call in
\* flight either.
EndedRoundsAreSealed ==
    \A r \in Rounds : status[r] \in TerminalStatuses =>
        /\ \A e \in ExecutionsOf(r) : execs[e].state # "running"
        /\ \A c \in CallsOf(r) :
              /\ calls[c].state \notin OpenStates
              /\ roundLog[r] \cap {"completed", "recovered"} # {}
                     => calls[c].state # "dispatched"

\* The ground truth is blind: a verifier slot is reserved only after the truth
\* was locked, the truth is timed after the Primary's answer and before the
\* Flash reservation, and Plus comes after Flash, whatever jumps the wall clock
\* makes (lockGroundTruth's window plus #guard's rollback check).
TruthPrecedesVerifiers ==
    \A e \in Executions :
        LET at(s) == Call(e, s).reservedAt
            truth == execs[e].truthAt
        IN  /\ at("flash") # NoTime =>
                  /\ truth # NoTime
                  /\ Call(e, "primary").completedAt <= truth
                  /\ truth <= at("flash")
            /\ at("plus") # NoTime => at("flash") # NoTime /\ at("flash") <= at("plus")

\* The audit log and the tables tell the same story: a round, an execution or a
\* call has the event of its state and no other, so a check that reads the log
\* and one that reads the table never disagree and never jam a legal caller.
LogsAgree ==
    /\ \A r \in Rounds :
          /\ roundLog[r] \cap TerminalStatuses \subseteq {status[r]}
          /\ status[r] \in TerminalStatuses <=> ClosedByEvent(r)
          /\ status[r] # "absent" <=> "created" \in roundLog[r]
    /\ \A e \in Executions :
          /\ grantOf[e] # NoRound <=> "registered" \in execLog[e]
          /\ execs[e].state # "none" <=> "claimed" \in execLog[e]
          /\ execs[e].truthAt # NoTime <=> "truth_locked" \in execLog[e]
          /\ execs[e].state = "complete" <=> "completed" \in execLog[e]
          /\ "incomplete" \in execLog[e] => execs[e].state = "incomplete"
          /\ (execs[e].state = "incomplete" /\ "incomplete" \notin execLog[e])
                 => ClosedByEvent(grantOf[e])
    /\ \A c \in Calls :
          /\ calls[c].reservedAt # NoTime <=> "reserved" \in callLog[c]
          /\ calls[c].state \in {"planned", "reserved"} => "dispatched" \notin callLog[c]
          /\ calls[c].state = "dispatched" => callLog[c] = {"reserved", "dispatched"}
          /\ calls[c].state = "result" =>
                ("result" \in callLog[c] <=> calls[c].outcome # "unknown_after_crash")
    /\ \A a \in Authorizations : a \in revoked <=> "revoked" \in authLog[a]

\* An answer that arrives late always finds its call: while a call is
\* dispatched, finishCall accepts its result, whether the round was stopped,
\* revoked, expired or rolled back in the meantime.
LateAnswersAreAccepted ==
    \A e \in Executions, s \in Slots :
        Call(e, s).state = "dispatched" => FinishAllowed(e, s)

\* One grant funds one round, and that round keeps exactly the executions the
\* grant lists, even when another manifest reuses the authorization or lists an
\* execution id that is taken.
GrantsAreNotShared ==
    /\ \A r \in Rounds : status[r] # "absent" => ExecutionsOf(r) = Authorized[AuthOf[r]]
    /\ \A r, q \in Rounds :
          (status[r] # "absent" /\ status[q] # "absent" /\ AuthOf[r] = AuthOf[q]) => r = q

Evaluable(e) ==
    /\ execs[e].state = "complete"
    /\ execs[e].truthAt # NoTime
    /\ PrimarySucceeded(e)
    /\ \A s \in Slots : /\ Call(e, s).state = "result"
                        /\ Call(e, s).outcome \in ProviderOutcomes

\* exportSuite's promise: a completed round has every authorized execution, and
\* each has its locked truth and three evaluable results; none was cancelled,
\* lost in a crash or recorded as incomplete.  Its grant is its own.
CompletedRoundsAreEvaluable ==
    GrantsAreNotShared /\ \A r \in Rounds : status[r] = "completed" =>
        \A e \in Authorized[AuthOf[r]] : grantOf[e] = r /\ Evaluable(e)

\* What a step does in round r that needs a live grant: it arms or completes
\* the round, claims an execution, reserves or sends a call, or locks a truth.
WorksIn(r) ==
    \/ status'[r] # status[r] /\ status'[r] \in {"armed", "running", "completed"}
    \/ \E e \in ExecutionsOf(r) :
          \/ execs[e].state = "none" /\ execs'[e].state # "none"
          \/ execs[e].truthAt # execs'[e].truthAt
    \/ \E c \in CallsOf(r) :
          /\ calls'[c].state # calls[c].state
          /\ calls'[c].state \in {"planned", "reserved", "dispatched"}

\* No round works without a live grant: not once the authorization is revoked
\* (even between the two transactions of revokeAuthorization), not outside its
\* time window, not after the clock was seen to run backwards, not once it ended.
WorkNeedsLiveGrant ==
    [][\A r \in Rounds : WorksIn(r) =>
          /\ AuthOf[r] \notin revoked
          /\ lastObserved[r] <= now /\ now < ExpiresAt[AuthOf[r]]
          /\ status[r] \in ActiveStatuses]_vars

\* A slot is spent once: no step takes a call back to an earlier state, changes
\* a recorded result, cancels a sent call, or moves its reservation time, not
\* even recovery, a retry or a late answer.
SlotsAreSpentOnce ==
    [][\A c \in Calls :
          /\ calls[c].reservedAt # NoTime => calls'[c].reservedAt = calls[c].reservedAt
          /\ calls[c].state \in {"result", "cancelled"} => calls'[c] = calls[c]
          /\ calls[c].state = "dispatched" => calls'[c].state \in {"dispatched", "result"}
          /\ calls[c].state = "reserved" =>
                calls'[c].state \in {"reserved", "dispatched", "cancelled"}
          /\ calls[c].state = "planned" =>
                calls'[c].state \in {"planned", "reserved", "cancelled"}]_vars

\* Endings are final: a round that ended keeps its status, an execution that
\* ended keeps its state, and a locked truth is never replaced.
EndingsAreFinal ==
    [][/\ \A r \in Rounds : status[r] \in TerminalStatuses => status'[r] = status[r]
       /\ \A e \in Executions :
             /\ execs[e].state \in {"complete", "incomplete"} =>
                    execs'[e].state = execs[e].state
             /\ execs[e].truthAt # NoTime => execs'[e].truthAt = execs[e].truthAt]_vars
================================================================================
