-------------------------- MODULE GatewayLedgerProofs --------------------------
(***************************************************************************)
(* Theorems about GatewayLedger, for every set of handles, boot sessions,  *)
(* requests and operations and every movement of the clock.                *)
(***************************************************************************)
EXTENDS GatewayLedger, TLAPS

--------------------------------------------------------------------------------
(* Types.                                                                   *)

LEMMA TypeInit == Init => TypeOK
  BY ConstantsAssumption
  DEF Init, TypeOK, NoReservation, NoOperation, NoCap, ReservationRows, OperationRows,
      Roles, ReservationStates, OperationStates

\* Ending a row keeps it a row.
LEMMA EndedType ==
  ASSUME NEW op \in OperationRows
  PROVE  Ended(op) \in OperationRows
  BY DEF Ended, OperationRows, OperationStates

LEMMA EndSessionType ==
  ASSUME TypeOK, NEW b, NEW f, EndSession(b, f)
  PROVE  /\ active' \in Boots \cup {NoBoot}
         /\ reservations' \in [Requests -> ReservationRows]
         /\ operations' \in [Operations -> OperationRows]
<1>1. ASSUME NEW q \in Requests PROVE reservations'[q] \in ReservationRows
  <2>1. reservations[q] \in ReservationRows
    BY DEF TypeOK
  <2>2. [reservations[q] EXCEPT !.state = "cancelled"] \in ReservationRows
    BY <2>1 DEF ReservationRows, ReservationStates
  <2>3. QED
    BY <2>1, <2>2 DEF EndSession
<1>2. ASSUME NEW o \in Operations PROVE operations'[o] \in OperationRows
  BY EndedType DEF EndSession, TypeOK
<1>3. QED
  BY <1>1, <1>2 DEF EndSession

LEMMA SessionStepType ==
  ASSUME TypeOK, NEW h \in Handles, SessionStep(h)
  PROVE  TypeOK'
<1>1. CASE Activate(h)
  <2>1. [role |-> "owner", fence |-> NextFence] \in [role : Roles, fence : Nat]
    BY DEF TypeOK, NextFence, Roles
  <2>2. handles' \in [Handles -> [role : Roles, fence : Nat]]
    BY <1>1, <2>1 DEF TypeOK, Activate
  <2>3. QED
    BY <1>1, <2>2, ConstantsAssumption DEF TypeOK, Activate, AdvanceClock, NextFence
<1>2. CASE Join(h)
  BY <1>2 DEF TypeOK, Join, Roles, db, meta
<1>3. CASE Close(h)
  <2>1. handles' \in [Handles -> [role : Roles, fence : Nat]]
    BY <1>3 DEF Close, TypeOK, Roles
  <2>2. CASE CanEnd(h)
    BY <1>3, <2>1, <2>2, EndSessionType DEF TypeOK, Close, AdvanceClock
  <2>3. CASE ~CanEnd(h)
    BY <1>3, <2>1, <2>3 DEF TypeOK, Close, db, meta
  <2>4. QED
    BY <2>2, <2>3
<1>4. CASE Crash(h)
  BY <1>4 DEF TypeOK, Crash, Roles, db, meta
<1>5. QED
  BY <1>1, <1>2, <1>3, <1>4 DEF SessionStep

\* The part of the type that every mutation of the ledger keeps.
LEMMA MutateType ==
  ASSUME TypeOK, NEW h \in Handles, Mutate(h)
  PROVE  /\ now' \in Nat /\ active' \in Boots \cup {NoBoot}
         /\ fence' \in Nat /\ watermark' \in Nat
  BY DEF TypeOK, Mutate, AdvanceClock

LEMMA RequestStepType ==
  ASSUME TypeOK, NEW h \in Handles, NEW q \in Requests,
         ReserveChallenge(h, q) \/ \E t \in 0..MaxTime : IssueVerifiedDispatch(h, q, t)
  PROVE  TypeOK'
<1>1. CASE ReserveChallenge(h, q)
  <2>1. Earlier(RequestExpires[q], now + MaxTtl) \in Nat
    BY ConstantsAssumption DEF TypeOK, Earlier
  <2>2. [state |-> "reserved", sequence |-> sequence + 1, boot |-> BootOf[h],
         fence |-> handles[h].fence, expires |-> Earlier(RequestExpires[q], now + MaxTtl)]
            \in ReservationRows
    BY <2>1, ConstantsAssumption DEF TypeOK, ReservationRows, ReservationStates
  <2>3. reservations' \in [Requests -> ReservationRows]
    BY <1>1, <2>2 DEF TypeOK, ReserveChallenge
  <2>4. QED
    BY <1>1, <2>3, MutateType DEF TypeOK, ReserveChallenge
<1>2. ASSUME NEW t \in 0..MaxTime, IssueVerifiedDispatch(h, q, t) PROVE TypeOK'
  <2>1. OperationOf[q] \in Operations /\ t \in Nat
    BY ConstantsAssumption
  <2>2. [state |-> "issued", request |-> q, boot |-> BootOf[h],
         fence |-> handles[h].fence, expires |-> t, attempts |-> 0] \in OperationRows
    BY <2>1, ConstantsAssumption DEF TypeOK, OperationRows, OperationStates
  <2>3. /\ [reservations[q] EXCEPT !.state = "expired"] \in ReservationRows
        /\ [reservations[q] EXCEPT !.state = "consumed"] \in ReservationRows
    BY DEF TypeOK, ReservationRows, ReservationStates
  <2>4. reservations' \in [Requests -> ReservationRows]
    BY <1>2, <2>3 DEF TypeOK, IssueVerifiedDispatch
  <2>5. operations' \in [Operations -> OperationRows]
    BY <1>2, <2>1, <2>2 DEF TypeOK, IssueVerifiedDispatch
  <2>6. QED
    BY <1>2, <2>4, <2>5, MutateType DEF TypeOK, IssueVerifiedDispatch
<1>3. QED
  BY <1>1, <1>2

\* What the four steps on an issued or claimed operation may write.
LEMMA OperationStepType ==
  ASSUME TypeOK, NEW h \in Handles, NEW o \in Operations,
         \/ ClaimBeforeSend(h, o) \/ Complete(h, o)
         \/ CancelIssued(h, o) \/ ExpireIssued(h, o)
  PROVE  TypeOK'
<1>1. \A s \in OperationStates, n \in {0, 1} :
          /\ [operations[o] EXCEPT !.state = s] \in OperationRows
          /\ [operations[o] EXCEPT !.state = s, !.attempts = n] \in OperationRows
  <2>1. operations[o] \in OperationRows
    BY DEF TypeOK
  <2>2. QED
    BY <2>1 DEF OperationRows
<1>2. CASE ClaimBeforeSend(h, o)
  <2>1. operations' \in [Operations -> OperationRows]
    BY <1>1, <1>2 DEF TypeOK, ClaimBeforeSend, OperationStates
  <2>2. QED
    BY <1>2, <2>1, MutateType DEF TypeOK, ClaimBeforeSend
<1>3. CASE Complete(h, o)
  <2>1. operations' \in [Operations -> OperationRows]
    BY <1>1, <1>3 DEF TypeOK, Complete, OperationStates, db, meta
  <2>2. QED
    BY <1>3, <2>1, MutateType DEF TypeOK, Complete, db, meta
<1>4. CASE CancelIssued(h, o)
  BY <1>1, <1>4, MutateType DEF TypeOK, CancelIssued, OperationStates
<1>5. CASE ExpireIssued(h, o)
  BY <1>1, <1>5, MutateType DEF TypeOK, ExpireIssued, OperationStates
<1>6. QED
  BY <1>2, <1>3, <1>4, <1>5

LEMMA TypeStep == TypeOK /\ [Next]_vars => TypeOK'
<1> SUFFICES ASSUME TypeOK, [Next]_vars PROVE TypeOK'
  OBVIOUS
<1>1. CASE UNCHANGED vars
  BY <1>1 DEF TypeOK, vars, db, meta
<1>2. CASE ClockMoves
  BY <1>2, ConstantsAssumption DEF TypeOK, ClockMoves, db, meta
<1>3. ASSUME NEW h \in Handles, DispatchStep(h) PROVE TypeOK'
  BY <1>3, RequestStepType, OperationStepType DEF DispatchStep
<1>4. ASSUME NEW b \in Boots, RecoverConfirmedDead(b) PROVE TypeOK'
  BY <1>4, EndSessionType DEF TypeOK, RecoverConfirmedDead, AdvanceClock, NextFence
<1>5. ASSUME NEW o \in Operations, Send(o) PROVE TypeOK'
  BY <1>5 DEF TypeOK, Send, db, meta
<1>6. QED
  BY <1>1, <1>2, <1>3, <1>4, <1>5, SessionStepType DEF Next

LEMMA TypeInvariant == Spec => []TypeOK
  BY TypeInit, TypeStep, PTL DEF Spec

--------------------------------------------------------------------------------
(* Ownership.  The inductive invariant adds to what the model checker sees  *)
(* that an open row's session is a session: without one nothing is open.    *)

LiveRow(row) == row.boot = active /\ row.fence = fence /\ active # NoBoot

RowsAreLive ==
    /\ \A q \in Requests : reservations[q].state = "reserved" => LiveRow(reservations[q])
    /\ \A o \in Operations : operations[o].state \in OpenOperation => LiveRow(operations[o])

OwnerInv == TypeOK /\ RowsAreLive /\ OwnersAreFenced

\* Ending the live session leaves nothing open.
LEMMA NothingStaysOpen ==
  ASSUME TypeOK, RowsAreLive, EndSession(active, fence)
  PROVE  /\ \A q \in Requests : reservations'[q].state # "reserved"
         /\ \A o \in Operations : operations'[o].state \notin OpenOperation
<1>1. ASSUME NEW q \in Requests PROVE reservations'[q].state # "reserved"
  <2>1. reservations[q] \in ReservationRows
    BY DEF TypeOK
  <2>2. QED
    BY <2>1 DEF EndSession, RowsAreLive, LiveRow, ReservationRows
<1>2. ASSUME NEW o \in Operations PROVE operations'[o].state \notin OpenOperation
  <2>1. operations[o] \in OperationRows
    BY DEF TypeOK
  <2>2. Ended(operations[o]).state \notin OpenOperation
    BY <2>1 DEF Ended, OpenOperation, OperationRows
  <2>3. CASE operations[o].state \in OpenOperation
    BY <2>2, <2>3 DEF EndSession, RowsAreLive, LiveRow
  <2>4. CASE operations[o].state \notin OpenOperation
    BY <2>2, <2>4 DEF EndSession
  <2>5. QED
    BY <2>3, <2>4
<1>3. QED
  BY <1>1, <1>2

\* A step that keeps the session and opens no row of another one keeps the rows live.
LEMMA RowsStayLive ==
  ASSUME RowsAreLive, UNCHANGED <<active, fence>>,
         \A q \in Requests :
             reservations'[q].state = "reserved" =>
                 reservations'[q] = reservations[q] \/ LiveRow(reservations'[q]),
         \A o \in Operations :
             operations'[o].state \in OpenOperation =>
                 \/ /\ operations[o].state \in OpenOperation
                    /\ operations'[o].boot = operations[o].boot
                    /\ operations'[o].fence = operations[o].fence
                 \/ LiveRow(operations'[o])
  PROVE  RowsAreLive'
  BY DEF RowsAreLive, LiveRow

\* A step that makes no owner and raises no token beyond the current one keeps
\* the owners apart.
LEMMA OwnersStayFenced ==
  ASSUME TypeOK, OwnersAreFenced, fence' \in Nat, fence' >= fence,
         \A h \in Handles :
             /\ handles'[h].fence = handles[h].fence \/ handles'[h].fence = fence
             /\ handles'[h].role = "owner" =>
                    handles[h].role = "owner" /\ handles'[h].fence = handles[h].fence
  PROVE  OwnersAreFenced'
<1>1. \A h \in Handles : handles[h].fence \in Nat
  BY DEF TypeOK
<1>2. \A h \in Handles : handles'[h].fence <= fence'
  BY <1>1 DEF TypeOK, OwnersAreFenced
<1>3. QED
  BY <1>2 DEF OwnersAreFenced

LEMMA SessionStepOwner ==
  ASSUME OwnerInv, NEW h \in Handles, SessionStep(h)
  PROVE  RowsAreLive' /\ OwnersAreFenced'
<1> USE DEF OwnerInv
<1>1. CASE Activate(h)
  <2>1. RowsAreLive'
    BY <1>1 DEF Activate, RowsAreLive, LiveRow
  <2>2. \A k \in Handles : handles[k].fence \in Nat /\ handles[k].fence <= fence /\ fence \in Nat
    BY DEF TypeOK, OwnersAreFenced
  <2>3. /\ fence' = fence + 1 /\ handles'[h].fence = fence + 1
        /\ \A k \in Handles : k # h => handles'[k] = handles[k]
    BY <1>1 DEF Activate, NextFence, TypeOK
  <2>4. \A k \in Handles : handles'[k].fence <= fence'
    BY <2>2, <2>3
  <2>5. ASSUME NEW j \in Handles, NEW k \in Handles, handles'[j].role = "owner",
               handles'[k].role = "owner", handles'[j].fence = handles'[k].fence
        PROVE  j = k
    BY <2>2, <2>3, <2>5 DEF OwnersAreFenced
  <2>6. QED
    BY <2>1, <2>4, <2>5 DEF OwnersAreFenced
<1>2. CASE Join(h)
  <2>1. RowsAreLive'
    BY <1>2 DEF Join, RowsAreLive, LiveRow, db, meta
  <2>2. QED
    BY <1>2, <2>1, OwnersStayFenced DEF Join, TypeOK, db, meta
<1>3. CASE Close(h)
  <2>1. fence' = fence
    BY <1>3 DEF Close, db, meta
  <2>2. OwnersAreFenced'
    BY <1>3, <2>1, OwnersStayFenced DEF Close, TypeOK
  <2>3. RowsAreLive'
    <3>1. CASE CanEnd(h)
      <4>1. EndSession(active, fence)
        BY <1>3, <3>1 DEF Close, CanEnd, ActiveSession
      <4>2. QED
        BY <4>1, NothingStaysOpen DEF RowsAreLive, OpenOperation
    <3>2. CASE ~CanEnd(h)
      BY <1>3, <3>2 DEF Close, RowsAreLive, LiveRow, db, meta
    <3>3. QED
      BY <3>1, <3>2
  <2>4. QED
    BY <2>2, <2>3
<1>4. CASE Crash(h)
  <2>1. RowsAreLive'
    BY <1>4 DEF Crash, RowsAreLive, LiveRow, db, meta
  <2>2. QED
    BY <1>4, <2>1, OwnersStayFenced DEF Crash, TypeOK, db, meta
<1>5. QED
  BY <1>1, <1>2, <1>3, <1>4 DEF SessionStep

\* Who mutates holds the live session, and its own rows are the live ones.
LEMMA MutatorIsLive ==
  ASSUME NEW h \in Handles, Mutate(h)
  PROVE  /\ BootOf[h] = active /\ handles[h].fence = fence /\ active # NoBoot
         /\ UNCHANGED <<active, fence>>
  BY ConstantsAssumption DEF Mutate, ActiveSession

LEMMA DispatchStepOwner ==
  ASSUME OwnerInv, NEW h \in Handles, DispatchStep(h)
  PROVE  RowsAreLive' /\ OwnersAreFenced'
<1> USE DEF OwnerInv
<1>1. UNCHANGED <<active, fence, handles>>
  BY DEF DispatchStep, ReserveChallenge, IssueVerifiedDispatch, ClaimBeforeSend, Complete,
         CancelIssued, ExpireIssued, Mutate, db, meta
<1>2. OwnersAreFenced'
  BY <1>1 DEF OwnersAreFenced
<1>3. ASSUME NEW q \in Requests, ReserveChallenge(h, q) PROVE RowsAreLive'
  BY <1>3, RowsStayLive, MutatorIsLive DEF ReserveChallenge, LiveRow, TypeOK
<1>4. ASSUME NEW q \in Requests, NEW t \in 0..MaxTime, IssueVerifiedDispatch(h, q, t)
      PROVE  RowsAreLive'
  <2>1. Mutate(h) /\ OperationOf[q] \in Operations
    BY <1>4, ConstantsAssumption DEF IssueVerifiedDispatch
  <2>2. \A p \in Requests : reservations'[p].state = "reserved" =>
                                reservations'[p] = reservations[p]
    <3>1. /\ reservations[q] \in ReservationRows
          /\ reservations \in [Requests -> ReservationRows]
      BY DEF TypeOK
    <3>2. PICK s \in {"expired", "consumed"} :
              reservations' = [reservations EXCEPT ![q].state = s]
      BY <1>4 DEF IssueVerifiedDispatch
    <3>3. QED
      BY <3>1, <3>2 DEF ReservationRows
  <2>3. \A o \in Operations :
            operations'[o] = operations[o] \/ LiveRow(operations'[o])
    BY <1>4, <2>1, MutatorIsLive DEF IssueVerifiedDispatch, LiveRow, TypeOK
  <2>4. QED
    BY <2>1, <2>2, <2>3, MutatorIsLive, RowsStayLive
<1>5. ASSUME NEW o \in Operations,
             \/ ClaimBeforeSend(h, o) \/ Complete(h, o)
             \/ CancelIssued(h, o) \/ ExpireIssued(h, o)
      PROVE  RowsAreLive'
  <2>1. UNCHANGED reservations
    BY <1>5 DEF ClaimBeforeSend, Complete, CancelIssued, ExpireIssued, db
  <2>2. \A p \in Operations :
            operations'[p].state \in OpenOperation =>
                /\ operations[p].state \in OpenOperation
                /\ operations'[p].boot = operations[p].boot
                /\ operations'[p].fence = operations[p].fence
    <3>1. operations[o] \in OperationRows /\ operations \in [Operations -> OperationRows]
      BY DEF TypeOK
    <3>2. CASE ClaimBeforeSend(h, o)
      BY <3>1, <3>2 DEF ClaimBeforeSend, OpenOperation, OperationRows
    <3>3. CASE Complete(h, o)
      <4>1. \/ operations' = operations
            \/ /\ operations'[o].state = "terminal"
               /\ \A p \in Operations : p # o => operations'[p] = operations[p]
        BY <3>1, <3>3 DEF Complete, OperationRows, db
      <4>2. QED
        BY <4>1 DEF OpenOperation
    <3>4. CASE CancelIssued(h, o)
      BY <3>1, <3>4 DEF CancelIssued, OpenOperation, OperationRows
    <3>5. CASE ExpireIssued(h, o)
      BY <3>1, <3>5 DEF ExpireIssued, OpenOperation, OperationRows
    <3>6. QED
      BY <1>5, <3>2, <3>3, <3>4, <3>5
  <2>3. QED
    BY <1>1, <2>1, <2>2, RowsStayLive
<1>6. QED
  BY <1>2, <1>3, <1>4, <1>5 DEF DispatchStep

LEMMA OwnerStep == OwnerInv /\ [Next]_vars => OwnerInv'
<1> SUFFICES ASSUME OwnerInv, [Next]_vars PROVE RowsAreLive' /\ OwnersAreFenced'
  BY TypeStep DEF OwnerInv
<1> USE DEF OwnerInv
<1>1. CASE UNCHANGED vars
  BY <1>1 DEF vars, db, meta, RowsAreLive, LiveRow, OwnersAreFenced
<1>2. CASE ClockMoves
  BY <1>2 DEF ClockMoves, db, meta, RowsAreLive, LiveRow, OwnersAreFenced
<1>3. ASSUME NEW b \in Boots, RecoverConfirmedDead(b)
      PROVE  RowsAreLive' /\ OwnersAreFenced'
  <2>1. EndSession(active, fence)
    BY <1>3 DEF RecoverConfirmedDead
  <2>2. RowsAreLive'
    BY <2>1, NothingStaysOpen DEF RowsAreLive, OpenOperation
  <2>3. fence' \in Nat /\ fence' >= fence /\ handles' = handles
    BY <1>3 DEF RecoverConfirmedDead, NextFence, TypeOK
  <2>4. QED
    BY <2>2, <2>3, OwnersStayFenced
<1>4. ASSUME NEW o \in Operations, Send(o) PROVE RowsAreLive' /\ OwnersAreFenced'
  BY <1>4 DEF Send, db, meta, RowsAreLive, LiveRow, OwnersAreFenced
<1>5. QED
  BY <1>1, <1>2, <1>3, <1>4, SessionStepOwner, DispatchStepOwner DEF Next

LEMMA OwnerInvariant == Spec => []OwnerInv
<1>1. Init => OwnerInv
  BY TypeInit, ConstantsAssumption
  DEF Init, OwnerInv, RowsAreLive, OwnersAreFenced, NoReservation, NoOperation, OpenOperation
<1>2. QED
  BY <1>1, OwnerStep, PTL DEF Spec

\* gateway-ledger.ts: whatever is open belongs to the live boot session, and at
\* most one process holds the live token, whoever was declared dead and
\* whatever boot ids were used again.
THEOREM OwnershipFenced == Spec => []OwnershipIsFenced
<1>1. OwnerInv => OwnershipIsFenced
  BY DEF OwnerInv, OwnershipIsFenced, RowsAreLive, LiveRow, OpenRowsAreLive
<1>2. QED
  BY <1>1, OwnerInvariant, PTL

--------------------------------------------------------------------------------
(* Sends.  Three counters tell the same story: the row in the file, the     *)
(* claimant's capability and what left.  The inductive invariant relates    *)
(* them for every state of the row.                                         *)

Unclaimed == {"none", "issued", "cancelled_before_send", "expired_before_send"}

Accounted(op, c, n) ==
    /\ op.state \in Unclaimed => op.attempts = 0 /\ c.use = "none"
    /\ op.state = "terminal" => c.use = "used" /\ (op.attempts = 0 => n = 0)
    /\ op.state = "unknown_after_crash" => op.attempts = 1
    /\ c.use = "none" => c.holder = NoHandle
    /\ c.use \in {"none", "fresh"} => n = 0
    /\ n <= 1

SendInv == TypeOK /\ \A o \in Operations : Accounted(operations[o], caps[o], sent[o])

LEMMA SameAccount ==
  ASSUME SendInv, NEW o \in Operations, operations'[o] = operations[o],
         caps'[o] = caps[o], sent'[o] = sent[o]
  PROVE  Accounted(operations[o], caps[o], sent[o])'
  BY DEF SendInv, Accounted

\* Ending a row at a close or a recovery.
LEMMA EndedAccount ==
  ASSUME SendInv, NEW b, NEW f, EndSession(b, f), UNCHANGED <<caps, sent>>,
         NEW o \in Operations
  PROVE  Accounted(operations[o], caps[o], sent[o])'
<1>1. operations[o] \in OperationRows /\ Accounted(operations[o], caps[o], sent[o])
  BY DEF SendInv, TypeOK
<1>2. Accounted(Ended(operations[o]), caps[o], sent[o])
  BY <1>1 DEF Ended, Accounted, Unclaimed, OperationRows
<1>3. operations'[o] = operations[o] \/ operations'[o] = Ended(operations[o])
  BY DEF EndSession
<1>4. QED
  BY <1>1, <1>2, <1>3

LEMMA SessionStepAccount ==
  ASSUME SendInv, NEW h \in Handles, SessionStep(h), NEW o \in Operations
  PROVE  Accounted(operations[o], caps[o], sent[o])'
<1>1. CASE Activate(h)
  BY <1>1, SameAccount DEF Activate
<1>2. CASE Join(h)
  BY <1>2, SameAccount DEF Join, db
<1>3. CASE Close(h)
  BY <1>3, SameAccount, EndedAccount DEF Close, db
<1>4. CASE Crash(h)
  <2>1. CASE caps[o].holder = h
    <3>1. caps[o] \in [holder : Handles \cup {NoHandle}, use : {"none", "fresh", "sent", "used"}]
      BY DEF SendInv, TypeOK
    <3>2. caps'[o] = [caps[o] EXCEPT !.use = "used"]
      BY <1>4, <2>1 DEF Crash
    <3>3. caps'[o].use = "used" /\ caps[o].use # "none"
      BY <2>1, <3>1, <3>2, ConstantsAssumption DEF SendInv, Accounted
    <3>4. operations' = operations /\ sent' = sent
      BY <1>4 DEF Crash, db
    <3>5. QED
      BY <3>3, <3>4 DEF SendInv, Accounted
  <2>2. CASE caps[o].holder # h
    BY <1>4, <2>2, SameAccount DEF Crash, db
  <2>3. QED
    BY <2>1, <2>2
<1>5. QED
  BY <1>1, <1>2, <1>3, <1>4 DEF SessionStep

\* An operation is issued once, with nothing claimed or sent under its id.
LEMMA RequestStepAccount ==
  ASSUME SendInv, NEW h \in Handles, NEW q \in Requests,
         ReserveChallenge(h, q) \/ \E t \in 0..MaxTime : IssueVerifiedDispatch(h, q, t),
         NEW o \in Operations
  PROVE  Accounted(operations[o], caps[o], sent[o])'
<1>1. CASE ReserveChallenge(h, q)
  BY <1>1, SameAccount DEF ReserveChallenge
<1>2. ASSUME NEW t \in 0..MaxTime, IssueVerifiedDispatch(h, q, t)
      PROVE  Accounted(operations[o], caps[o], sent[o])'
  <2>1. UNCHANGED <<caps, sent>> /\ operations \in [Operations -> OperationRows]
    BY <1>2 DEF IssueVerifiedDispatch, SendInv, TypeOK
  <2>2. CASE operations'[o] = operations[o]
    BY <2>1, <2>2, SameAccount
  <2>3. CASE operations'[o] # operations[o]
    <3>1. /\ operations[o].state = "none"
          /\ operations'[o].state = "issued" /\ operations'[o].attempts = 0
      BY <1>2, <2>1, <2>3 DEF IssueVerifiedDispatch, Issuable, Unissued
    <3>2. QED
      BY <2>1, <3>1 DEF SendInv, Accounted, Unclaimed
  <2>4. QED
    BY <2>2, <2>3
<1>3. QED
  BY <1>1, <1>2

LEMMA OperationStepAccount ==
  ASSUME SendInv, NEW h \in Handles, NEW p \in Operations,
         \/ ClaimBeforeSend(h, p) \/ Complete(h, p)
         \/ CancelIssued(h, p) \/ ExpireIssued(h, p),
         NEW o \in Operations
  PROVE  Accounted(operations[o], caps[o], sent[o])'
<1>1. /\ operations[p] \in OperationRows /\ operations \in [Operations -> OperationRows]
      /\ caps[p] \in [holder : Handles \cup {NoHandle}, use : {"none", "fresh", "sent", "used"}]
      /\ caps \in [Operations -> [holder : Handles \cup {NoHandle},
                                  use : {"none", "fresh", "sent", "used"}]]
      /\ Accounted(operations[p], caps[p], sent[p])
  BY DEF SendInv, TypeOK
<1>2. sent' = sent
  BY DEF ClaimBeforeSend, Complete, CancelIssued, ExpireIssued
<1>3. CASE o # p
  <2>1. operations'[o] = operations[o] /\ caps'[o] = caps[o]
    BY <1>1, <1>3 DEF ClaimBeforeSend, Complete, CancelIssued, ExpireIssued, db
  <2>2. QED
    BY <1>2, <2>1, SameAccount
<1>4. CASE o = p /\ ClaimBeforeSend(h, p)
  <2>1. CASE operations'[p].state = "expired_before_send" /\ caps' = caps
    <3>1. operations'[p].attempts = 0
      BY <1>1, <1>4 DEF ClaimBeforeSend, OperationRows, Accounted, Unclaimed
    <3>2. QED
      BY <1>1, <1>2, <1>4, <2>1, <3>1 DEF ClaimBeforeSend, Accounted, Unclaimed
  <2>2. CASE operations'[p].state = "claimed_before_send" /\ caps'[p].use = "fresh"
    BY <1>1, <1>2, <1>4, <2>2 DEF ClaimBeforeSend, Accounted, Unclaimed
  <2>3. QED
    BY <1>1, <1>4, <2>1, <2>2 DEF ClaimBeforeSend, OperationRows
<1>5. CASE o = p /\ Complete(h, p)
  <2>1. caps'[p].use = "used" /\ caps[p].use \in {"fresh", "sent"}
    BY <1>1, <1>5 DEF Complete
  <2>2. CASE operations' = operations
    BY <1>1, <1>2, <1>5, <2>1, <2>2 DEF Accounted, Unclaimed
  <2>3. CASE operations' # operations
    <3>1. /\ operations'[p].state = "terminal"
          /\ operations'[p].attempts = IF caps[p].use = "sent" THEN 1 ELSE 0
      <4> DEFINE n == IF caps[p].use = "sent" THEN 1 ELSE 0
      <4>1. operations' = [operations EXCEPT ![p] =
                              [operations[p] EXCEPT !.state = "terminal", !.attempts = n]]
        BY <1>5, <2>3 DEF Complete, db
      <4> HIDE DEF n
      <4>2. operations'[p].state = "terminal" /\ operations'[p].attempts = n
        BY <1>1, <4>1 DEF OperationRows
      <4>3. QED
        BY <4>2 DEF n
    <3>2. operations'[p].attempts = 0 => sent[p] = 0
      BY <1>1, <2>1, <3>1 DEF Accounted
    <3>3. QED
      BY <1>1, <1>2, <1>5, <2>1, <3>1, <3>2 DEF Accounted, Unclaimed
  <2>4. QED
    BY <2>2, <2>3
<1>6. CASE o = p /\ (CancelIssued(h, p) \/ ExpireIssued(h, p))
  <2>1. /\ operations[p].state = "issued" /\ operations'[p].attempts = operations[p].attempts
        /\ operations'[p].state \in {"cancelled_before_send", "expired_before_send"}
        /\ caps' = caps
    BY <1>1, <1>6 DEF CancelIssued, ExpireIssued, OperationRows
  <2>2. QED
    BY <1>1, <1>2, <1>6, <2>1 DEF Accounted, Unclaimed
<1>7. QED
  BY <1>3, <1>4, <1>5, <1>6

LEMMA SendStepAccount ==
  ASSUME SendInv, NEW p \in Operations, Send(p), NEW o \in Operations
  PROVE  Accounted(operations[o], caps[o], sent[o])'
<1>1. operations' = operations
  BY DEF Send, db
<1>2. CASE o # p
  BY <1>1, <1>2, SameAccount DEF Send, SendInv, TypeOK
<1>3. CASE o = p
  <2>1. /\ caps[p] \in [holder : Handles \cup {NoHandle}, use : {"none", "fresh", "sent", "used"}]
        /\ Accounted(operations[p], caps[p], sent[p])
    BY DEF SendInv, TypeOK
  <2>2. caps[p].use = "fresh" /\ caps'[p].use = "sent" /\ sent'[p] = 1
    BY <2>1 DEF Send, SendInv, TypeOK, Accounted
  <2>3. QED
    BY <1>1, <1>3, <2>1, <2>2 DEF Accounted
<1>4. QED
  BY <1>2, <1>3

LEMMA SendInvStep == SendInv /\ [Next]_vars => SendInv'
<1> SUFFICES ASSUME SendInv, [Next]_vars, NEW o \in Operations
             PROVE  Accounted(operations[o], caps[o], sent[o])'
  BY TypeStep DEF SendInv
<1>1. CASE UNCHANGED vars
  BY <1>1, SameAccount DEF vars, db
<1>2. CASE ClockMoves
  BY <1>2, SameAccount DEF ClockMoves, db
<1>3. ASSUME NEW h \in Handles, DispatchStep(h)
      PROVE  Accounted(operations[o], caps[o], sent[o])'
  BY <1>3, RequestStepAccount, OperationStepAccount DEF DispatchStep
<1>4. ASSUME NEW b \in Boots, RecoverConfirmedDead(b)
      PROVE  Accounted(operations[o], caps[o], sent[o])'
  BY <1>4, EndedAccount DEF RecoverConfirmedDead
<1>5. QED
  BY <1>1, <1>2, <1>3, <1>4, SessionStepAccount, SendStepAccount DEF Next

LEMMA SendInvariant == Spec => []SendInv
<1>1. Init => SendInv
  BY TypeInit DEF Init, SendInv, Accounted, Unclaimed, NoOperation, NoCap
<1>2. QED
  BY <1>1, SendInvStep, PTL DEF Spec

\* gateway-ledger.ts: a provider request leaves at most once, and a row recorded
\* without an attempt is of one that has not left and cannot leave any more,
\* whichever process was declared dead while it lived.
THEOREM SendsAccounted == Spec => []SendsAreAccounted
<1>1. SendInv => SendsAreAccounted
  <2> SUFFICES ASSUME SendInv, NEW o \in Operations
               PROVE  /\ sent[o] <= 1
                      /\ sent[o] = 1 => operations[o].state \in
                              {"claimed_before_send", "terminal", "unknown_after_crash"}
                      /\ (operations[o].state \notin OpenOperation /\ operations[o].attempts = 0)
                             => sent[o] = 0 /\ caps[o].use # "fresh"
    BY DEF SendsAreAccounted
  <2>1. operations[o].state \in OperationStates /\ Accounted(operations[o], caps[o], sent[o])
    BY DEF SendInv, TypeOK, OperationRows
  <2>2. QED
    BY <2>1 DEF Accounted, Unclaimed, OperationStates, OpenOperation
<1>2. QED
  BY <1>1, SendInvariant, PTL

--------------------------------------------------------------------------------
(* Moves.                                                                   *)

\* A row stays as it is or moves along the triggers' transitions; one that exists
\* keeps what it was written with, its session and its expiry among it.
ReservationMoved(q) ==
    reservations'[q] # reservations[q] =>
        /\ <<reservations[q].state, reservations'[q].state>> \in ReservationMoves
        /\ reservations[q].state # "none" =>
               /\ reservations'[q].sequence = reservations[q].sequence
               /\ reservations'[q].boot = reservations[q].boot
               /\ reservations'[q].fence = reservations[q].fence
               /\ reservations'[q].expires = reservations[q].expires

OperationMoved(o) ==
    operations'[o] # operations[o] =>
        /\ <<operations[o].state, operations'[o].state>> \in OperationMoves
        /\ operations[o].state # "none" =>
               /\ operations'[o].request = operations[o].request
               /\ operations'[o].boot = operations[o].boot
               /\ operations'[o].fence = operations[o].fence
               /\ operations'[o].expires = operations[o].expires

RowsMoved == /\ \A q \in Requests : ReservationMoved(q)
             /\ \A o \in Operations : OperationMoved(o)

LEMMA EndSessionMoves ==
  ASSUME TypeOK, NEW b, NEW f, EndSession(b, f)
  PROVE  RowsMoved
<1>1. ASSUME NEW q \in Requests PROVE ReservationMoved(q)
  <2>1. reservations[q] \in ReservationRows
    BY DEF TypeOK
  <2>2. QED
    BY <2>1 DEF EndSession, ReservationMoved, ReservationMoves, ReservationRows
<1>2. ASSUME NEW o \in Operations PROVE OperationMoved(o)
  <2>1. operations[o] \in OperationRows
    BY DEF TypeOK
  <2>2. operations'[o] \in {operations[o], Ended(operations[o])}
    BY DEF EndSession
  <2>3. QED
    BY <2>1, <2>2 DEF Ended, OperationMoved, OperationMoves, OperationRows
<1>3. QED
  BY <1>1, <1>2 DEF RowsMoved

LEMMA NothingMoves ==
  ASSUME UNCHANGED <<reservations, operations>>
  PROVE  RowsMoved
  BY DEF RowsMoved, ReservationMoved, OperationMoved

LEMMA RequestStepMoves ==
  ASSUME TypeOK, NEW h \in Handles, NEW q \in Requests,
         ReserveChallenge(h, q) \/ \E t \in 0..MaxTime : IssueVerifiedDispatch(h, q, t)
  PROVE  RowsMoved
<1>1. /\ reservations[q] \in ReservationRows /\ reservations \in [Requests -> ReservationRows]
      /\ operations \in [Operations -> OperationRows]
  BY DEF TypeOK
<1>2. CASE ReserveChallenge(h, q)
  BY <1>1, <1>2
  DEF ReserveChallenge, RowsMoved, ReservationMoved, OperationMoved, ReservationMoves
<1>3. ASSUME NEW t \in 0..MaxTime, IssueVerifiedDispatch(h, q, t) PROVE RowsMoved
  <2>1. PICK s \in {"expired", "consumed"} :
            /\ reservations[q].state = "reserved"
            /\ reservations' = [reservations EXCEPT ![q].state = s]
    BY <1>3 DEF IssueVerifiedDispatch
  <2>2. ASSUME NEW p \in Requests PROVE ReservationMoved(p)
    <3>1. CASE p = q
      <4>1. /\ reservations'[q].state \in {"expired", "consumed"}
            /\ reservations'[q].sequence = reservations[q].sequence
            /\ reservations'[q].boot = reservations[q].boot
            /\ reservations'[q].fence = reservations[q].fence
            /\ reservations'[q].expires = reservations[q].expires
        BY <1>1, <2>1 DEF ReservationRows
      <4>2. QED
        BY <2>1, <3>1, <4>1 DEF ReservationMoved, ReservationMoves
    <3>2. CASE p # q
      BY <1>1, <2>1, <3>2 DEF ReservationMoved
    <3>3. QED
      BY <3>1, <3>2
  <2>3. \A o \in Operations : OperationMoved(o)
    <3>1. CASE operations' = operations
      BY <3>1 DEF OperationMoved
    <3>2. CASE operations' # operations
      <4>1. /\ operations[OperationOf[q]].state = "none"
            /\ \A o \in Operations : operations'[o] # operations[o] =>
                   o = OperationOf[q] /\ operations'[o].state = "issued"
        BY <1>1, <1>3, <3>2 DEF IssueVerifiedDispatch, Issuable, Unissued
      <4>2. QED
        BY <4>1 DEF OperationMoved, OperationMoves
    <3>3. QED
      BY <3>1, <3>2
  <2>4. QED
    BY <2>2, <2>3 DEF RowsMoved
<1>4. QED
  BY <1>2, <1>3

LEMMA OperationStepMoves ==
  ASSUME TypeOK, NEW h \in Handles, NEW o \in Operations,
         \/ ClaimBeforeSend(h, o) \/ Complete(h, o)
         \/ CancelIssued(h, o) \/ ExpireIssued(h, o)
  PROVE  RowsMoved
<1>1. operations[o] \in OperationRows /\ operations \in [Operations -> OperationRows]
  BY DEF TypeOK
<1>2. CASE Complete(h, o)
  <2> DEFINE n == IF caps[o].use = "sent" THEN 1 ELSE 0
  <2>1. \/ UNCHANGED <<reservations, operations>>
        \/ /\ operations[o].state = "claimed_before_send" /\ UNCHANGED reservations
           /\ operations' = [operations EXCEPT ![o] =
                                [operations[o] EXCEPT !.state = "terminal", !.attempts = n]]
    BY <1>2 DEF Complete, db
  <2> HIDE DEF n
  <2>2. CASE UNCHANGED <<reservations, operations>>
    BY <2>2, NothingMoves
  <2>3. CASE ~UNCHANGED <<reservations, operations>>
    <3>1. /\ operations'[o].state = "terminal"
          /\ operations'[o].request = operations[o].request
          /\ operations'[o].boot = operations[o].boot
          /\ operations'[o].fence = operations[o].fence
          /\ operations'[o].expires = operations[o].expires
          /\ \A p \in Operations : p # o => operations'[p] = operations[p]
      BY <1>1, <2>1, <2>3 DEF OperationRows
    <3>2. QED
      BY <2>1, <2>3, <3>1 DEF RowsMoved, ReservationMoved, OperationMoved, OperationMoves
  <2>4. QED
    BY <2>2, <2>3
<1>3. CASE ~Complete(h, o)
  <2>1. UNCHANGED reservations
    BY <1>3 DEF ClaimBeforeSend, CancelIssued, ExpireIssued
  <2>2. PICK s \in {"claimed_before_send", "cancelled_before_send", "expired_before_send"} :
            /\ operations[o].state = "issued"
            /\ operations' = [operations EXCEPT ![o].state = s]
    BY <1>3 DEF ClaimBeforeSend, CancelIssued, ExpireIssued
  <2>3. /\ operations'[o].state = s
        /\ operations'[o].request = operations[o].request
        /\ operations'[o].boot = operations[o].boot
        /\ operations'[o].fence = operations[o].fence
        /\ operations'[o].expires = operations[o].expires
        /\ \A p \in Operations : p # o => operations'[p] = operations[p]
    BY <1>1, <2>2 DEF OperationRows
  <2>4. QED
    BY <2>1, <2>2, <2>3 DEF RowsMoved, ReservationMoved, OperationMoved, OperationMoves
<1>4. QED
  BY <1>2, <1>3

LEMMA RowsMove == TypeOK /\ [Next]_vars => RowsMoved
<1> SUFFICES ASSUME TypeOK, [Next]_vars PROVE RowsMoved
  OBVIOUS
<1>1. CASE UNCHANGED vars
  BY <1>1, NothingMoves DEF vars, db
<1>2. CASE ClockMoves
  BY <1>2, NothingMoves DEF ClockMoves, db
<1>3. ASSUME NEW h \in Handles, SessionStep(h) PROVE RowsMoved
  BY <1>3, NothingMoves, EndSessionMoves DEF SessionStep, Activate, Join, Close, Crash, db
<1>4. ASSUME NEW h \in Handles, DispatchStep(h) PROVE RowsMoved
  BY <1>4, RequestStepMoves, OperationStepMoves DEF DispatchStep
<1>5. ASSUME NEW b \in Boots, RecoverConfirmedDead(b) PROVE RowsMoved
  BY <1>5, EndSessionMoves DEF RecoverConfirmedDead
<1>6. ASSUME NEW o \in Operations, Send(o) PROVE RowsMoved
  BY <1>6, NothingMoves DEF Send, db
<1>7. QED
  BY <1>1, <1>2, <1>3, <1>4, <1>5, <1>6 DEF Next

\* gateway-ledger.ts: no transaction of the class is ever aborted by the triggers
\* of its own schema, so a close or a recovery ends every open row.
THEOREM TriggersSilent == Spec => TriggersNeverFire
<1> DEFINE Allowed ==
        /\ \A q \in Requests : reservations'[q] # reservations[q] =>
               <<reservations[q].state, reservations'[q].state>> \in ReservationMoves
        /\ \A o \in Operations : operations'[o] # operations[o] =>
               <<operations[o].state, operations'[o].state>> \in OperationMoves
<1>1. TypeOK /\ [Next]_vars => [Allowed]_vars
  BY RowsMove DEF RowsMoved, ReservationMoved, OperationMoved
<1>2. [][Allowed]_vars => TriggersNeverFire
  BY PTL DEF TriggersNeverFire
<1>3. QED
  BY <1>1, <1>2, TypeInvariant, PTL DEF Spec

--------------------------------------------------------------------------------
(* Funding.  The inductive invariant adds what ties a reservation's numbers *)
(* to its state and its request.                                            *)

\* An operation's row and the reservation it consumed.
Funded(o) ==
    IF operations[o].state = "none"
    THEN operations[o].request = NoRequest
    ELSE LET q == operations[o].request IN
         /\ q \in Requests /\ OperationOf[q] = o
         /\ reservations[q].state = "consumed"
         /\ reservations[q].boot = operations[o].boot
         /\ reservations[q].fence = operations[o].fence
         /\ operations[o].expires <= reservations[q].expires

\* A reservation's row, its request and the operation it funds.
Numbered(q) ==
    /\ reservations[q].state = "consumed" => operations[OperationOf[q]].request = q
    /\ reservations[q].expires <= RequestExpires[q]
    /\ reservations[q].sequence <= sequence
    /\ reservations[q].state = "none" => reservations[q].sequence = 0
    /\ reservations[q].state # "none" => reservations[q].sequence > 0

SequencesDiffer ==
    \A p, q \in Requests :
        (p # q /\ reservations[p].state # "none") =>
            reservations[p].sequence # reservations[q].sequence

FundInv ==
    /\ TypeOK
    /\ \A o \in Operations : Funded(o)
    /\ \A q \in Requests : Numbered(q)
    /\ SequencesDiffer

\* A step that reserves nothing, consumes nothing and issues nothing.
LEMMA FundsStay ==
  ASSUME FundInv, RowsMoved, sequence' = sequence,
         \A q \in Requests : /\ reservations[q].state = "none" => reservations'[q] = reservations[q]
                             /\ reservations'[q].state = "consumed" => reservations[q].state = "consumed",
         \A o \in Operations : operations[o].state = "none" => operations'[o] = operations[o]
  PROVE  /\ \A o \in Operations : Funded(o)'
         /\ \A q \in Requests : Numbered(q)'
         /\ SequencesDiffer'
<1>1. ASSUME NEW q \in Requests
      PROVE  /\ reservations'[q].sequence = reservations[q].sequence
             /\ reservations'[q].boot = reservations[q].boot
             /\ reservations'[q].fence = reservations[q].fence
             /\ reservations'[q].expires = reservations[q].expires
             /\ reservations'[q].state = "none" <=> reservations[q].state = "none"
             /\ reservations'[q].state = "consumed" <=> reservations[q].state = "consumed"
  BY DEF RowsMoved, ReservationMoved, ReservationMoves
<1>2. ASSUME NEW o \in Operations
      PROVE  /\ operations'[o].request = operations[o].request
             /\ operations'[o].boot = operations[o].boot
             /\ operations'[o].fence = operations[o].fence
             /\ operations'[o].expires = operations[o].expires
             /\ operations'[o].state = "none" <=> operations[o].state = "none"
  BY DEF RowsMoved, OperationMoved, OperationMoves
<1>3. ASSUME NEW o \in Operations PROVE Funded(o)'
  BY <1>1, <1>2 DEF FundInv, Funded
<1>4. ASSUME NEW q \in Requests PROVE Numbered(q)'
  <2>1. OperationOf[q] \in Operations
    BY ConstantsAssumption
  <2>2. QED
    BY <1>1, <1>2, <2>1 DEF FundInv, Numbered
<1>5. SequencesDiffer'
  BY <1>1 DEF FundInv, SequencesDiffer
<1>6. QED
  BY <1>3, <1>4, <1>5

LEMMA ReserveFunds ==
  ASSUME FundInv, NEW h \in Handles, NEW q \in Requests, ReserveChallenge(h, q)
  PROVE  /\ \A o \in Operations : Funded(o)'
         /\ \A p \in Requests : Numbered(p)'
         /\ SequencesDiffer'
<1>1. /\ \A p \in Requests : p # q => reservations'[p] = reservations[p]
      /\ reservations'[q].state = "reserved" /\ reservations'[q].sequence = sequence + 1
      /\ reservations'[q].expires = Earlier(RequestExpires[q], now + MaxTtl)
      /\ reservations[q].state = "none"
      /\ operations' = operations /\ sequence' = sequence + 1
  BY DEF ReserveChallenge, FundInv, TypeOK
<1>2. reservations'[q].expires <= RequestExpires[q]
  BY <1>1, ConstantsAssumption DEF Earlier, FundInv, TypeOK
<1>3. \A p \in Requests : /\ reservations[p].sequence \in Nat /\ sequence \in Nat
                          /\ reservations[p].sequence <= sequence
  <2>1. \A p \in Requests : reservations[p] \in ReservationRows
    BY DEF FundInv, TypeOK
  <2>2. QED
    BY <2>1 DEF FundInv, TypeOK, Numbered, ReservationRows
<1>4. ASSUME NEW o \in Operations PROVE Funded(o)'
  BY <1>1 DEF FundInv, Funded
<1>5. ASSUME NEW p \in Requests PROVE Numbered(p)'
  <2>1. CASE p = q
    BY <1>1, <1>2, <1>3, <2>1 DEF Numbered
  <2>2. CASE p # q
    BY <1>1, <1>3, <2>2 DEF FundInv, Numbered
  <2>3. QED
    BY <2>1, <2>2
<1>6. SequencesDiffer'
  BY <1>1, <1>3 DEF FundInv, SequencesDiffer
<1>7. QED
  BY <1>4, <1>5, <1>6

LEMMA IssueFunds ==
  ASSUME FundInv, NEW h \in Handles, NEW q \in Requests, NEW t \in 0..MaxTime,
         IssueVerifiedDispatch(h, q, t)
  PROVE  /\ \A o \in Operations : Funded(o)'
         /\ \A p \in Requests : Numbered(p)'
         /\ SequencesDiffer'
<1>1. /\ reservations[q] \in ReservationRows /\ reservations \in [Requests -> ReservationRows]
      /\ operations \in [Operations -> OperationRows] /\ OperationOf[q] \in Operations
  BY ConstantsAssumption DEF FundInv, TypeOK
<1>2. reservations[q].state = "reserved" /\ Mine(h, reservations[q]) /\ sequence' = sequence
  BY DEF IssueVerifiedDispatch
<1>3. CASE UNCHANGED operations /\ reservations' = [reservations EXCEPT ![q].state = "expired"]
  <2>1. RowsMoved
    BY RequestStepMoves DEF FundInv
  <2>2. reservations'[q].state = "expired"
    BY <1>1, <1>3 DEF ReservationRows
  <2>3. QED
    BY <1>1, <1>2, <1>3, <2>1, <2>2, FundsStay
<1>4. CASE /\ Issuable(q, t)
           /\ reservations' = [reservations EXCEPT ![q].state = "consumed"]
           /\ operations' = [operations EXCEPT ![OperationOf[q]] =
                 [state |-> "issued", request |-> q, boot |-> BootOf[h],
                  fence |-> handles[h].fence, expires |-> t, attempts |-> 0]]
  <2>1. /\ operations[OperationOf[q]].state = "none"
        /\ operations'[OperationOf[q]].state = "issued"
        /\ operations'[OperationOf[q]].request = q
        /\ operations'[OperationOf[q]].boot = BootOf[h]
        /\ operations'[OperationOf[q]].fence = handles[h].fence
        /\ operations'[OperationOf[q]].expires = t
        /\ \A o \in Operations : o # OperationOf[q] => operations'[o] = operations[o]
    BY <1>1, <1>4 DEF Issuable, Unissued
  <2>2. /\ reservations'[q].state = "consumed"
        /\ reservations'[q].sequence = reservations[q].sequence
        /\ reservations'[q].boot = reservations[q].boot
        /\ reservations'[q].fence = reservations[q].fence
        /\ reservations'[q].expires = reservations[q].expires
        /\ \A p \in Requests : p # q => reservations'[p] = reservations[p]
    BY <1>1, <1>4 DEF ReservationRows
  <2>3. t <= reservations[q].expires
    BY <1>4 DEF Issuable
  <2>4. ASSUME NEW o \in Operations PROVE Funded(o)'
    <3>1. CASE o = OperationOf[q]
      BY <1>2, <2>1, <2>2, <2>3, <3>1 DEF Funded, Mine
    <3>2. CASE o # OperationOf[q]
      BY <2>1, <2>2, <3>2 DEF FundInv, Funded
    <3>3. QED
      BY <3>1, <3>2
  <2>5. ASSUME NEW p \in Requests PROVE Numbered(p)'
    <3>1. OperationOf[p] \in Operations
      BY ConstantsAssumption
    <3>2. CASE p = q
      BY <1>2, <2>1, <2>2, <3>2 DEF FundInv, Numbered
    <3>3. CASE p # q
      <4>1. reservations[p].state = "consumed" => OperationOf[p] # OperationOf[q]
        BY <2>1, <3>1, ConstantsAssumption DEF FundInv, Numbered, Funded
      <4>2. QED
        BY <1>2, <2>1, <2>2, <3>1, <3>3, <4>1 DEF FundInv, Numbered
    <3>4. QED
      BY <3>2, <3>3
  <2>6. SequencesDiffer'
    BY <1>2, <2>2 DEF FundInv, SequencesDiffer
  <2>7. QED
    BY <2>4, <2>5, <2>6
<1>5. QED
  BY <1>3, <1>4 DEF IssueVerifiedDispatch

LEMMA FundStep == FundInv /\ [Next]_vars => FundInv'
<1> SUFFICES ASSUME FundInv, [Next]_vars
             PROVE  /\ \A o \in Operations : Funded(o)'
                    /\ \A q \in Requests : Numbered(q)'
                    /\ SequencesDiffer'
  BY TypeStep DEF FundInv
<1>1. TypeOK /\ RowsMoved
  BY RowsMove DEF FundInv
<1>2. CASE /\ sequence' = sequence
           /\ \A q \in Requests :
                  /\ reservations[q].state = "none" => reservations'[q] = reservations[q]
                  /\ reservations'[q].state = "consumed" => reservations[q].state = "consumed"
           /\ \A o \in Operations : operations[o].state = "none" => operations'[o] = operations[o]
  BY <1>1, <1>2, FundsStay
<1>3. ASSUME NEW b, NEW f, EndSession(b, f), UNCHANGED sequence
      PROVE  /\ \A q \in Requests :
                    /\ reservations[q].state = "none" => reservations'[q] = reservations[q]
                    /\ reservations'[q].state = "consumed" => reservations[q].state = "consumed"
             /\ \A o \in Operations : operations[o].state = "none" => operations'[o] = operations[o]
  <2>1. ASSUME NEW q \in Requests
        PROVE  /\ reservations[q].state = "none" => reservations'[q] = reservations[q]
               /\ reservations'[q].state = "consumed" => reservations[q].state = "consumed"
    <3>1. reservations[q] \in ReservationRows
      BY <1>1 DEF TypeOK
    <3>2. QED
      BY <1>3, <3>1 DEF EndSession, ReservationRows
  <2>2. ASSUME NEW o \in Operations, operations[o].state = "none"
        PROVE  operations'[o] = operations[o]
    BY <1>3, <2>2 DEF EndSession, Ended
  <2>3. QED
    BY <2>1, <2>2
<1>4. CASE UNCHANGED vars
  BY <1>2, <1>4 DEF vars, db, meta
<1>5. CASE ClockMoves
  BY <1>2, <1>5 DEF ClockMoves, db, meta
<1>6. ASSUME NEW h \in Handles, SessionStep(h)
      PROVE  /\ \A o \in Operations : Funded(o)'
             /\ \A q \in Requests : Numbered(q)'
             /\ SequencesDiffer'
  <2>1. CASE UNCHANGED <<sequence, reservations, operations>>
    BY <1>2, <2>1
  <2>2. CASE EndSession(BootOf[h], handles[h].fence) /\ UNCHANGED sequence
    BY <1>2, <1>3, <2>2
  <2>3. QED
    BY <1>6, <2>1, <2>2 DEF SessionStep, Activate, Join, Close, Crash, db, meta
<1>7. ASSUME NEW h \in Handles, NEW o \in Operations,
             \/ ClaimBeforeSend(h, o) \/ Complete(h, o)
             \/ CancelIssued(h, o) \/ ExpireIssued(h, o)
      PROVE  /\ \A p \in Operations : Funded(p)'
             /\ \A q \in Requests : Numbered(q)'
             /\ SequencesDiffer'
  <2>1. UNCHANGED <<sequence, reservations>>
    BY <1>7 DEF ClaimBeforeSend, Complete, CancelIssued, ExpireIssued, db, meta
  <2>2. ASSUME NEW p \in Operations, operations[p].state = "none"
        PROVE  operations'[p] = operations[p]
    BY <1>1, <1>7, <2>2
    DEF TypeOK, ClaimBeforeSend, Complete, CancelIssued, ExpireIssued, db
  <2>3. QED
    BY <1>2, <2>1, <2>2
<1>8. ASSUME NEW b \in Boots, RecoverConfirmedDead(b)
      PROVE  /\ \A o \in Operations : Funded(o)'
             /\ \A q \in Requests : Numbered(q)'
             /\ SequencesDiffer'
  <2>1. EndSession(b, fence) /\ UNCHANGED sequence
    BY <1>8 DEF RecoverConfirmedDead
  <2>2. QED
    BY <1>2, <1>3, <2>1
<1>9. ASSUME NEW o \in Operations, Send(o)
      PROVE  /\ \A p \in Operations : Funded(p)'
             /\ \A q \in Requests : Numbered(q)'
             /\ SequencesDiffer'
  BY <1>2, <1>9 DEF Send, db, meta
<1>10. QED
  BY <1>4, <1>5, <1>6, <1>7, <1>8, <1>9, ReserveFunds, IssueFunds DEF Next, DispatchStep

LEMMA FundInvariant == Spec => []FundInv
<1>1. Init => FundInv
  BY TypeInit, ConstantsAssumption
  DEF Init, FundInv, Funded, Numbered, SequencesDiffer, NoReservation, NoOperation
<1>2. QED
  BY <1>1, FundStep, PTL DEF Spec

\* gateway-ledger.ts: a consumed reservation funds one operation, the operation
\* that consumed it lives within it, and no two reservations share a sequence.
THEOREM ReservationsFund == Spec => []ReservationsFundOneOperation
<1>1. FundInv => ReservationsFundOneOperation
  BY DEF FundInv, Funded, Numbered, SequencesDiffer, ReservationsFundOneOperation
<1>2. QED
  BY <1>1, FundInvariant, PTL

--------------------------------------------------------------------------------
(* Time.                                                                    *)

\* gateway-ledger.ts: nothing is claimed at or after its own expiry, its
\* reservation's or its request's, nor once such an instant was committed,
\* however the clock is set in between.
THEOREM ClaimsTimely == Spec => ClaimsAreTimely
<1> DEFINE Timely == \A o \in Operations :
        (operations[o].state = "issued" /\ operations'[o].state = "claimed_before_send") =>
            /\ now < operations[o].expires /\ watermark < operations[o].expires
            /\ operations[o].expires <= RequestExpires[operations[o].request]
<1>1. ASSUME FundInv, [Next]_vars, NEW o \in Operations, operations[o].state = "issued",
             operations'[o].state = "claimed_before_send"
      PROVE  /\ now < operations[o].expires /\ watermark < operations[o].expires
             /\ operations[o].expires <= RequestExpires[operations[o].request]
  <2>1. /\ operations \in [Operations -> OperationRows] /\ operations[o] \in OperationRows
        /\ TypeOK
    BY <1>1 DEF FundInv, TypeOK
  <2>2. ASSUME NEW b, NEW f, EndSession(b, f) PROVE FALSE
    BY <1>1, <2>1, <2>2 DEF EndSession, Ended, OperationRows
  <2>3. operations' # operations
    BY <1>1
  <2>4. PICK h \in Handles : DispatchStep(h)
    <3>1. ASSUME NEW h \in Handles, SessionStep(h) PROVE FALSE
      BY <2>2, <2>3, <3>1 DEF SessionStep, Activate, Join, Close, Crash, db
    <3>2. ASSUME NEW b \in Boots, RecoverConfirmedDead(b) PROVE FALSE
      BY <2>2, <3>2 DEF RecoverConfirmedDead
    <3>3. QED
      BY <1>1, <2>3, <3>1, <3>2 DEF Next, vars, db, ClockMoves, Send
  <2>5. ClaimBeforeSend(h, o)
    <3>1. ASSUME NEW q \in Requests, NEW t \in 0..MaxTime, IssueVerifiedDispatch(h, q, t)
          PROVE  FALSE
      BY <1>1, <2>1, <3>1 DEF IssueVerifiedDispatch, Issuable, Unissued
    <3>2. ASSUME NEW p \in Operations, Complete(h, p) PROVE FALSE
      <4>1. /\ operations[p].state = "claimed_before_send"
            /\ \A k \in Operations : k # p => operations'[k] = operations[k]
        BY <2>1, <2>3, <3>2 DEF Complete, db
      <4>2. QED
        BY <1>1, <4>1
    <3>3. ASSUME NEW p \in Operations, CancelIssued(h, p) \/ ExpireIssued(h, p) PROVE FALSE
      BY <1>1, <2>1, <3>3 DEF CancelIssued, ExpireIssued, OperationRows
    <3>4. ASSUME NEW p \in Operations, ClaimBeforeSend(h, p) PROVE p = o
      BY <1>1, <2>1, <3>4 DEF ClaimBeforeSend
    <3>5. QED
      BY <2>3, <2>4, <3>1, <3>2, <3>3, <3>4 DEF DispatchStep, ReserveChallenge
  <2>6. now < operations[o].expires /\ watermark <= now
    BY <1>1, <2>1, <2>5 DEF ClaimBeforeSend, Mutate, AdvanceClock, OperationRows
  <2>7. /\ operations[o].request \in Requests
        /\ operations[o].expires <= reservations[operations[o].request].expires
        /\ reservations[operations[o].request].expires <= RequestExpires[operations[o].request]
    BY <1>1 DEF FundInv, Funded, Numbered
  <2>8. /\ now \in Nat /\ watermark \in Nat /\ operations[o].expires \in Nat
        /\ RequestExpires[operations[o].request] \in Nat
        /\ reservations[operations[o].request].expires \in Nat
    BY <2>1, <2>7, ConstantsAssumption DEF TypeOK, OperationRows, ReservationRows
  <2>9. QED
    BY <2>6, <2>7, <2>8
<1>2. FundInv /\ [Next]_vars => [Timely]_vars
  BY <1>1
<1>3. [][Timely]_vars => ClaimsAreTimely
  BY PTL DEF ClaimsAreTimely
<1>4. QED
  BY <1>2, <1>3, FundInvariant, PTL DEF Spec

================================================================================
