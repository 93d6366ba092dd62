----------------------------- MODULE GatewayLedger -----------------------------
(***************************************************************************)
(* The persistent gateway ledger: PersistentGatewayLedger of               *)
(* evaluation/live-shadow-boundary/gateway-ledger.ts.                      *)
(*                                                                         *)
(* Processes open the same SQLite file: one activates a boot session and   *)
(* owns it, others may join it read-only, an operator may declare it dead  *)
(* (recoverConfirmedDead), rightly or not.  Every mutation is one BEGIN    *)
(* IMMEDIATE transaction that checks the fencing token and the clock       *)
(* watermark, so each action is one transaction and its guard is the       *)
(* conjunction of the checks; a method that throws rolls back and stutters *)
(* unless it changed something in memory.                                  *)
(*                                                                         *)
(* Signatures, HMACs and the verification of the audit chain are left out: *)
(* nobody tampers with the file here.  clean_shutdown is always written    *)
(* together with active_boot_session_id and is folded into it.             *)
(***************************************************************************)
EXTENDS Integers, FiniteSets

CONSTANTS
    Handles,         \* ledger objects, one per openExisting, each in a process
    Boots,           \* boot session ids
    BootOf,          \* the id each handle is opened with (ids may be reused)
    Requests,        \* signed challenge requests
    Operations,      \* operation ids
    OperationOf,     \* the operation a request's context names
    RequestExpires,  \* the request's expires_at_ms
    MaxTtl,          \* MAX_OPERATION_TTL_MS
    NoBoot, NoRequest, NoHandle,
    MaxTime          \* the last instant the wall clock shows

ASSUME ConstantsAssumption ==
    /\ BootOf \in [Handles -> Boots]
    /\ OperationOf \in [Requests -> Operations]
    /\ RequestExpires \in [Requests -> Nat]
    /\ MaxTtl \in Nat /\ MaxTime \in Nat
    /\ NoBoot \notin Boots /\ NoRequest \notin Requests /\ NoHandle \notin Handles

VARIABLES
    now,           \* what the injected clock returns
    active,        \* active_boot_session_id
    fence,         \* fencing_token
    watermark,     \* clock_watermark_ms
    sequence,      \* gateway_sequence
    reservations,  \* gateway_challenge_reservations, by their unique request
    operations,    \* gateway_operations
    handles,       \* the open ledger objects: role and fencing token
    caps,          \* the send capability of each operation (CAPABILITIES)
    sent           \* how often each operation's provider request was sent

meta == <<active, fence, watermark, sequence>>
db   == <<meta, reservations, operations>>
vars == <<now, db, handles, caps, sent>>

--------------------------------------------------------------------------------
OpenOperation == {"issued", "claimed_before_send"}

NoReservation == [state |-> "none", sequence |-> 0, boot |-> NoBoot, fence |-> 0,
                  expires |-> 0]
\* A claim requires the issuing session, so claimed_boot_session_id and
\* claimed_fencing_token are the issued ones and have no field of their own.
NoOperation == [state |-> "none", request |-> NoRequest, boot |-> NoBoot, fence |-> 0,
                expires |-> 0, attempts |-> 0]
NoCap == [holder |-> NoHandle, use |-> "none"]

Mine(h, row)    == row.boot = BootOf[h] /\ row.fence = handles[h].fence
Earlier(x, y)   == IF x < y THEN x ELSE y

\* #advanceClock: no transaction commits at a time before the watermark, and
\* each moves the watermark up to its own time.
\* Mutant: the rollback check is dropped.
AdvanceClockAnyway == watermark' = now
AdvanceClock == now >= watermark /\ watermark' = now

\* Mutant: #assertActiveSession compares the boot id only.
SameBoot(h) == active = BootOf[h]
ActiveSession(h) == active = BootOf[h] /\ fence = handles[h].fence

\* Activation and recovery each take the next fencing token.
NextFence == fence + 1

\* What #mutate requires of its caller and does besides the callback.
Mutate(h) ==
    /\ handles[h].role = "owner"
    /\ ActiveSession(h)
    /\ AdvanceClock
    /\ UNCHANGED <<now, active, fence>>

--------------------------------------------------------------------------------
(* Boot sessions.                                                           *)

\* openExisting, mode "activate": only after a clean shutdown or a recovery.
Activate(h) ==
    /\ handles[h].role = "unopened"
    /\ active = NoBoot
    /\ AdvanceClock
    /\ active' = BootOf[h]
    /\ fence' = NextFence
    /\ handles' = [handles EXCEPT ![h] = [role |-> "owner", fence |-> NextFence]]
    /\ UNCHANGED <<now, sequence, reservations, operations, caps, sent>>

\* openExisting, mode "join_active": the caller must know the current token.
Join(h) ==
    /\ handles[h].role = "unopened"
    /\ active = BootOf[h]
    /\ handles' = [handles EXCEPT ![h] = [role |-> "joined", fence |-> fence]]
    /\ UNCHANGED <<now, db, caps, sent>>

\* What close and recoverConfirmedDead do to the rows of session b, f: what was
\* not sent is cancelled; what was claimed may have been sent, and is recorded
\* as one attempt with an unknown outcome.
\* Mutants: only unsent operations are ended; claimed ones are cancelled as unsent.
EndedUnsentOnly(op) ==
    IF op.state = "issued"
    THEN [op EXCEPT !.state = "cancelled_before_send", !.attempts = 0] ELSE op

EndedOptimistically(op) ==
    IF op.state \in OpenOperation
    THEN [op EXCEPT !.state = "cancelled_before_send", !.attempts = 0] ELSE op

Ended(op) ==
    CASE op.state = "issued" ->
            [op EXCEPT !.state = "cancelled_before_send", !.attempts = 0]
      [] op.state = "claimed_before_send" ->
            [op EXCEPT !.state = "unknown_after_crash", !.attempts = 1]
      [] OTHER -> op

EndSession(b, f) ==
    /\ active' = NoBoot
    /\ reservations' = [q \in Requests |->
          IF /\ reservations[q].state = "reserved"
             /\ reservations[q].boot = b /\ reservations[q].fence = f
          THEN [reservations[q] EXCEPT !.state = "cancelled"] ELSE reservations[q]]
    /\ operations' = [o \in Operations |->
          IF operations[o].boot = b /\ operations[o].fence = f
          THEN Ended(operations[o]) ELSE operations[o]]

\* close: an owner ends its session, unless it was fenced out or the clock ran
\* back; either way the object is closed and cannot mutate any more.
CanEnd(h) == handles[h].role = "owner" /\ ActiveSession(h) /\ now >= watermark

Close(h) ==
    /\ handles[h].role \in {"owner", "joined"}
    /\ IF CanEnd(h)
       THEN /\ AdvanceClock
            /\ EndSession(BootOf[h], handles[h].fence)
            /\ UNCHANGED <<fence, sequence>>
       ELSE UNCHANGED db
    /\ handles' = [handles EXCEPT ![h].role = "closed"]
    /\ UNCHANGED <<now, caps, sent>>

\* recoverConfirmedDead: the operator says that boot b is dead.  The process may
\* well be alive; its token is fenced off.
RecoverConfirmedDead(b) ==
    /\ active = b
    /\ AdvanceClock
    /\ EndSession(b, fence)
    /\ fence' = NextFence
    /\ UNCHANGED <<now, sequence, handles, caps, sent>>

--------------------------------------------------------------------------------
(* Challenges and operations.                                               *)

\* reserveChallenge: a request funds one reservation, ever.
ReserveChallenge(h, q) ==
    /\ reservations[q].state = "none"
    /\ now < RequestExpires[q]
    /\ Mutate(h)
    /\ sequence' = sequence + 1
    /\ reservations' = [reservations EXCEPT ![q] =
          [state |-> "reserved", sequence |-> sequence + 1,
           boot |-> BootOf[h], fence |-> handles[h].fence,
           expires |-> Earlier(RequestExpires[q], now + MaxTtl)]]
    /\ UNCHANGED <<operations, handles, caps, sent>>

\* issueVerifiedDispatch of a command for reservation q that expires at t.  The
\* verification has bounded t by the request; an expired reservation is
\* committed as expired although the method throws.
\* Mutant: an operation id may be issued again.
UnissuedOrEnded(o) == operations[o].state \notin OpenOperation
Unissued(o) == operations[o].state = "none"

Issuable(q, t) ==
    /\ now < reservations[q].expires
    /\ t <= reservations[q].expires
    /\ t - now <= MaxTtl
    /\ Unissued(OperationOf[q])

IssueVerifiedDispatch(h, q, t) ==
    /\ reservations[q].state = "reserved"
    /\ Mine(h, reservations[q])
    /\ now < t /\ t <= RequestExpires[q]
    /\ Mutate(h)
    /\ \/ /\ now >= reservations[q].expires
          /\ reservations' = [reservations EXCEPT ![q].state = "expired"]
          /\ UNCHANGED operations
       \/ /\ Issuable(q, t)
          /\ reservations' = [reservations EXCEPT ![q].state = "consumed"]
          /\ operations' = [operations EXCEPT ![OperationOf[q]] =
                [state |-> "issued", request |-> q, boot |-> BootOf[h],
                 fence |-> handles[h].fence, expires |-> t, attempts |-> 0]]
    /\ UNCHANGED <<sequence, handles, caps, sent>>

\* claimBeforeSend: the point of no return.  The capability exists only in the
\* claimant's memory.
ClaimBeforeSend(h, o) ==
    /\ operations[o].state = "issued"
    /\ Mine(h, operations[o])
    /\ Mutate(h)
    /\ \/ /\ now >= operations[o].expires
          /\ operations' = [operations EXCEPT ![o].state = "expired_before_send"]
          /\ UNCHANGED caps
       \/ /\ now < operations[o].expires
          /\ operations' = [operations EXCEPT ![o].state = "claimed_before_send"]
          /\ caps' = [caps EXCEPT ![o] = [holder |-> h, use |-> "fresh"]]
    /\ UNCHANGED <<sequence, reservations, handles, sent>>

\* The claimant's one provider send, which no ledger call protects.
Send(o) ==
    /\ caps[o].use = "fresh"
    /\ sent' = [sent EXCEPT ![o] = @ + 1]
    /\ caps' = [caps EXCEPT ![o].use = "sent"]
    /\ UNCHANGED <<now, db, handles>>

\* complete, called on handle h: the capability is used up before anything else
\* is checked, so a malformed result or a refused transaction burns it.
Complete(h, o) ==
    /\ caps[o].use \in {"fresh", "sent"}
    /\ handles[h].role # "unopened"
    /\ caps' = [caps EXCEPT ![o].use = "used"]
    /\ \/ UNCHANGED <<now, db>>
       \/ /\ operations[o].state = "claimed_before_send"
          /\ Mine(h, operations[o])
          /\ Mutate(h)
          /\ operations' = [operations EXCEPT ![o] =
                [@ EXCEPT !.state = "terminal",
                          !.attempts = IF caps[o].use = "sent" THEN 1 ELSE 0]]
          /\ UNCHANGED <<sequence, reservations>>
    /\ UNCHANGED <<handles, sent>>

\* cancelIssued and expireIssued do not compare sessions: an issued row is
\* always the live session's (OpenRowsAreLive).
CancelIssued(h, o) ==
    /\ operations[o].state = "issued"
    /\ Mutate(h)
    /\ operations' = [operations EXCEPT ![o].state = "cancelled_before_send"]
    /\ UNCHANGED <<sequence, reservations, handles, caps, sent>>

ExpireIssued(h, o) ==
    /\ operations[o].state = "issued"
    /\ now >= operations[o].expires
    /\ Mutate(h)
    /\ operations' = [operations EXCEPT ![o].state = "expired_before_send"]
    /\ UNCHANGED <<sequence, reservations, handles, caps, sent>>

--------------------------------------------------------------------------------
\* A process dies: its objects and capabilities are gone, the file is as the
\* last commit left it.
Crash(h) ==
    /\ handles[h].role # "unopened"
    /\ handles' = [handles EXCEPT ![h].role = "closed"]
    /\ caps' = [o \in Operations |->
                   IF caps[o].holder = h THEN [caps[o] EXCEPT !.use = "used"] ELSE caps[o]]
    /\ UNCHANGED <<now, db, sent>>

\* The wall clock moves, in either direction.
ClockMoves == now' \in 0..MaxTime /\ UNCHANGED <<db, handles, caps, sent>>

\* initialize has created the file.
Init ==
    /\ now = 0 /\ active = NoBoot /\ fence = 0 /\ watermark = 0 /\ sequence = 0
    /\ reservations = [q \in Requests |-> NoReservation]
    /\ operations = [o \in Operations |-> NoOperation]
    /\ handles = [h \in Handles |-> [role |-> "unopened", fence |-> 0]]
    /\ caps = [o \in Operations |-> NoCap]
    /\ sent = [o \in Operations |-> 0]

SessionStep(h) == Activate(h) \/ Join(h) \/ Close(h) \/ Crash(h)

DispatchStep(h) ==
    \/ \E q \in Requests : \/ ReserveChallenge(h, q)
                           \/ \E t \in 0..MaxTime : IssueVerifiedDispatch(h, q, t)
    \/ \E o \in Operations : \/ ClaimBeforeSend(h, o)
                             \/ Complete(h, o)
                             \/ CancelIssued(h, o)
                             \/ ExpireIssued(h, o)

Next ==
    \/ ClockMoves
    \/ \E h \in Handles : SessionStep(h) \/ DispatchStep(h)
    \/ \E b \in Boots : RecoverConfirmedDead(b)
    \/ \E o \in Operations : Send(o)

Spec == Init /\ [][Next]_vars

\* Whoever operates the gateway closes it in the end, declares a session dead
\* that has no live owner any more, and has a clock that catches up with the
\* last committed time whenever it ran back.
Orphaned == active # NoBoot /\ \A h \in Handles : handles[h].role = "owner" => ~ActiveSession(h)
RecoverOrphan  == Orphaned /\ \E b \in Boots : RecoverConfirmedDead(b)
ClockCatchesUp == /\ now < watermark /\ now' \in watermark..MaxTime
                  /\ UNCHANGED <<db, handles, caps, sent>>

Fairness == /\ \A h \in Handles : WF_vars(Close(h))
            /\ SF_vars(RecoverOrphan)
            /\ WF_vars(ClockCatchesUp)

FairSpec == Spec /\ Fairness

--------------------------------------------------------------------------------
(* Properties.                                                              *)

Roles             == {"unopened", "owner", "joined", "closed"}
ReservationStates == {"none", "reserved", "consumed", "cancelled", "expired"}
OperationStates   == {"none", "issued", "claimed_before_send", "terminal",
                      "cancelled_before_send", "expired_before_send",
                      "unknown_after_crash"}
ReservationRows == [state : ReservationStates, sequence : Nat, boot : Boots \cup {NoBoot},
                    fence : Nat, expires : Nat]
OperationRows   == [state : OperationStates, request : Requests \cup {NoRequest},
                    boot : Boots \cup {NoBoot}, fence : Nat, expires : Nat,
                    attempts : {0, 1}]

\* Every meta value, row and handle has a value its column or field admits.
TypeOK ==
    /\ now \in Nat
    /\ active \in Boots \cup {NoBoot}
    /\ fence \in Nat /\ watermark \in Nat /\ sequence \in Nat
    /\ reservations \in [Requests -> ReservationRows]
    /\ operations \in [Operations -> OperationRows]
    /\ handles \in [Handles -> [role : Roles, fence : Nat]]
    /\ caps \in [Operations -> [holder : Handles \cup {NoHandle},
                                use : {"none", "fresh", "sent", "used"}]]
    /\ sent \in [Operations -> Nat]

\* Every open row belongs to the live session: whatever is reserved, issued or
\* claimed carries the active boot id and the current fencing token, so neither
\* a close, a recovery nor a crash leaves work behind that nobody owns.
\* cancelIssued and expireIssued rely on it.
OpenRowsAreLive ==
    /\ \A q \in Requests : reservations[q].state = "reserved" =>
          reservations[q].boot = active /\ reservations[q].fence = fence
    /\ \A o \in Operations : operations[o].state \in OpenOperation =>
          operations[o].boot = active /\ operations[o].fence = fence

\* Two owners never hold the same token, even when a boot id is reused or a
\* session was declared dead while its process lived, so at most one of them
\* passes #assertActiveSession.
OwnersAreFenced ==
    /\ \A h \in Handles : handles[h].fence <= fence
    /\ \A h, k \in Handles :
          (handles[h].role = "owner" /\ handles[k].role = "owner"
              /\ handles[h].fence = handles[k].fence) => h = k

\* Ownership of the live session: what is open belongs to it, and one process at most
\* holds its token.
OwnershipIsFenced == TypeOK /\ OpenRowsAreLive /\ OwnersAreFenced

\* A provider request leaves at most once, and the ledger never says "not sent"
\* of one that left: an operation recorded with no attempt was not sent and
\* can no longer be, not even by a process that was wrongly declared dead.
SendsAreAccounted ==
    \A o \in Operations :
        /\ sent[o] <= 1
        /\ sent[o] = 1 => operations[o].state \in
                              {"claimed_before_send", "terminal", "unknown_after_crash"}
        /\ (operations[o].state \notin OpenOperation /\ operations[o].attempts = 0) =>
               sent[o] = 0 /\ caps[o].use # "fresh"

\* A consumed reservation funds exactly one operation and an operation uses one
\* consumed reservation of its own session that outlives it; reservations
\* never share a gateway sequence.
ReservationsFundOneOperation ==
    /\ \A o \in Operations : operations[o].state # "none" =>
          LET q == operations[o].request IN
          /\ q \in Requests /\ OperationOf[q] = o
          /\ reservations[q].state = "consumed"
          /\ reservations[q].boot = operations[o].boot
          /\ reservations[q].fence = operations[o].fence
          /\ operations[o].expires <= reservations[q].expires
    /\ \A q \in Requests : reservations[q].state = "consumed" =>
          operations[OperationOf[q]].request = q
    /\ \A p, q \in Requests :
          /\ reservations[p].sequence <= sequence
          /\ (p # q /\ reservations[p].state # "none") =>
                 reservations[p].sequence # reservations[q].sequence

\* An operation is claimed only before its expiry, its reservation's and its
\* request's; once anything was committed at or after its expiry it can never
\* be claimed, however far back the clock is set.
ClaimsAreTimely ==
    [][\A o \in Operations :
          (operations[o].state = "issued" /\ operations'[o].state = "claimed_before_send") =>
              /\ now < operations[o].expires /\ watermark < operations[o].expires
              /\ operations[o].expires <= RequestExpires[operations[o].request]]_vars

ReservationMoves == {<<"none", "reserved">>, <<"reserved", "consumed">>,
                     <<"reserved", "cancelled">>, <<"reserved", "expired">>}
OperationMoves   == {<<"none", "issued">>, <<"issued", "claimed_before_send">>,
                     <<"issued", "cancelled_before_send">>,
                     <<"issued", "expired_before_send">>,
                     <<"claimed_before_send", "terminal">>,
                     <<"claimed_before_send", "unknown_after_crash">>}

\* The SQL triggers that allow only these moves never abort a transaction the
\* code attempts: a row changes only along them, so a close or a recovery that
\* updates many rows cannot fail half-way, and an ended row is never revived.
TriggersNeverFire ==
    [][/\ \A q \in Requests : reservations'[q] # reservations[q] =>
             <<reservations[q].state, reservations'[q].state>> \in ReservationMoves
       /\ \A o \in Operations : operations'[o] # operations[o] =>
             <<operations[o].state, operations'[o].state>> \in OperationMoves]_vars

\* Work never stays open: a boot session that was activated ends, and with it
\* every reservation and operation, whoever crashed, was fenced out or ran
\* into a clock rollback on the way.
SessionsEnd ==
    /\ (active # NoBoot) ~> (active = NoBoot)
    /\ \A o \in Operations : (operations[o].state \in OpenOperation)
                                 ~> (operations[o].state \notin OpenOperation)
================================================================================
