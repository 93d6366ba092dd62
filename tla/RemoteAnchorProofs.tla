---------------------------- MODULE RemoteAnchorProofs --------------------------
(***************************************************************************)
(* Theorems about RemoteAnchor, for every set of registries, clients,      *)
(* consents and executions, every clock and every order, loss and          *)
(* repetition of the messages.                                             *)
(***************************************************************************)
EXTENDS RemoteAnchor, SequenceTheorems, WellFoundedInduction, TLAPS

--------------------------------------------------------------------------------
(* The inductive invariant.                                                 *)

Histories  == Seq(Ids \X (0..MaxTime))
Decisions  == {"committed", "observed", "rejected"}
ClientRows == [last : Checkpoints, time : 0..MaxTime, seen : SUBSET answers,
               prepared : SUBSET wire, base : Histories, hasty : BOOLEAN]

\* A request on the wire was prepared by its client and is about what its
\* operation needs.
RequestSound(q) ==
    /\ q.client \in Clients /\ q.id \in Ids
    /\ q \in clients[q.client].prepared
    /\ q.op \in {"claim_authorization", "consume_slot"} => q.grant \in Grants
    /\ q.op = "consume_slot" => q.slot \in Slots

\* A registry has a history as soon as it is registered.
Founded(reg) == reg = Unregistered \/ reg.head # <<>>

\* A receipt fits the time of its request, and one that commits adds itself to
\* the history.
ReceiptSound(x) ==
    /\ x.request \in wire /\ x.time \in 0..MaxTime /\ x.after \in Checkpoints
    /\ x.decision \in Decisions
    /\ BindingHolds(x)
    /\ Founded(x.after)
    /\ x.decision = "committed" =>
          x.previous \in Histories /\ x.after.head = Append(x.previous, <<x.request.id, x.time>>)

\* What the service stores: one receipt per request id and key, none of the
\* future, and one for each slot that was bought.
StoreSound ==
    /\ \A x, y \in stored :
          (x.request.id = y.request.id \/ x.request.key = y.request.key) => x = y
    /\ \A x \in stored : x.time <= lastClock
    /\ \A x \in stored, s \in Slots : Proves(x, s) => s \in consumed
    /\ \A x, y \in stored, s \in Slots : Proves(x, s) /\ Proves(y, s) => x = y

\* While the service keeps its memory, it stores all it ever answered.
Remembers ==
    ~restarted => /\ stored = answers
                  /\ \A c \in Clients : clients[c].time <= lastClock

\* An entry of a history that client c was told of.
Told(c, entry) ==
    \E x \in clients[c].seen : x.decision = "committed" /\ <<x.request.id, x.time>> = entry

OwnHistory(c) ==
    /\ clients[c].base = <<>> <=> clients[c].last = Unregistered
    /\ Founded(clients[c].last)
    /\ Extends(clients[c].last.head, clients[c].base)
    /\ \A i \in (Len(clients[c].base) + 1)..Len(clients[c].last.head) :
           Told(c, clients[c].last.head[i])

WorksAlone(c) == ~restarted /\ Alone(c) /\ ~clients[c].hasty

\* A client that works alone and one request at a time: what it believes is the
\* registry's checkpoint, or one answer is under way that will tell it.
InStep(c) ==
    LET reg == registries[RegistryOf[c]] IN
    /\ \A p, q \in Unanswered(c) : p = q
    /\ \A x \in answers : x.request \in Unanswered(c) =>
          /\ x.time >= clients[c].time
          /\ x.after = reg /\ Continues(c, x)
          /\ reg = Unregistered => clients[c].last = Unregistered
    /\ (\A x \in answers : x.request \notin Unanswered(c)) => reg = clients[c].last

TypeInv ==
    /\ TypeOK
    /\ registries \in [Registries -> Checkpoints]
    /\ restarted \in BOOLEAN
    /\ clients \in [Clients -> ClientRows]
    /\ \A q \in wire : RequestSound(q)
    /\ \A c \in Clients : \A q \in clients[c].prepared : q.client = c
    /\ \A r \in Registries : Founded(registries[r])
    /\ \A x \in answers : ReceiptSound(x)

AnchorInv ==
    /\ TypeInv
    /\ StoreSound /\ Remembers
    /\ \A c \in Clients : OwnHistory(c)
    /\ \A c \in Clients : WorksAlone(c) => InStep(c)

--------------------------------------------------------------------------------
(* Facts about histories and ids.                                           *)

LEMMA FreshIdIsId ==
  ASSUME \E i \in Ids : \A q \in wire : q.id # i
  PROVE  FreshId \in Ids
<1> DEFINE Fresh(i) == \A q \in wire : q.id # i
           T == {i \in Ids : Fresh(i)}
<1>1. T \subseteq Nat /\ T # {}
  BY RemoteAssumption DEF RemoteAssumption
<1> DEFINE Less == {ss \in Nat \X Nat : ss[1] < ss[2]}
<1>2. IsWellFoundedOn(Less, Nat)
  BY NatLessThanWellFounded, Zenon DEF OpToRel
<1>3. PICK i \in T : \A j \in T : ~ (<<j, i>> \in Less)
  <2> HIDE DEF T, Less
  <2> QED
    BY <1>1, <1>2, WFMin
<1>4. \A j \in T : ~ (j < i)
  BY <1>1, <1>3
<1>5. \A j \in Ids : j < i => \E q \in wire : q.id = j
  BY <1>4
<1>6. i \in Ids /\ Fresh(i)
  OBVIOUS
<1>7. \E k \in Ids : Fresh(k) /\ \A j \in Ids : j < k => \E q \in wire : q.id = j
  BY <1>5, <1>6
<1>8. FreshId \in Ids
  BY <1>7 DEF FreshId
<1>9. QED
  BY <1>8

LEMMA ExtendsItself ==
  ASSUME NEW S, NEW s \in Seq(S)
  PROVE  Extends(s, s)
<1>1. SubSeq(s, 1, Len(s)) = s
  BY SubSeqFull
<1>2. QED
  BY <1>1 DEF Extends

LEMMA ExtendsEmpty ==
  ASSUME NEW S, NEW s \in Seq(S)
  PROVE  Extends(s, <<>>)
<1>1. SubSeq(s, 1, 0) = <<>>
  BY SubSeqEmpty
<1>2. Len(<<>>) = 0 /\ Len(s) \in Nat
  OBVIOUS
<1>3. QED
  BY <1>1, <1>2 DEF Extends

LEMMA ExtendsAppended ==
  ASSUME NEW S, NEW s \in Seq(S), NEW t \in Seq(S), NEW e \in S, Extends(s, t)
  PROVE  Extends(Append(s, e), t)
<1> DEFINE u == Append(s, e)
<1>1. Len(s) \in Nat /\ Len(t) \in Nat /\ Len(s) >= Len(t) /\ SubSeq(s, 1, Len(t)) = t
  BY DEF Extends
<1>2. u \in Seq(S) /\ Len(u) = Len(s) + 1 /\ \A i \in 1..Len(s) : u[i] = s[i]
  BY AppendProperties
<1>3. \A i \in 1..Len(t) : t[i] = s[i]
  <2>1. \A i \in 1..Len(t) : s[i] \in S
    BY <1>1, ElementOfSeq
  <2>2. \A i \in 1..(Len(t) - 1 + 1) : SubSeq(s, 1, Len(t))[i] = s[1 + i - 1]
    BY <1>1, <2>1, SubSeqProperties
  <2>3. QED
    BY <1>1, <2>2
<1>4. SubSeq(u, 1, Len(t)) \in Seq(S) /\ Len(SubSeq(u, 1, Len(t))) = Len(t)
      /\ \A i \in 1..Len(t) : SubSeq(u, 1, Len(t))[i] = u[i]
  <2>1. \A i \in 1..Len(t) : u[i] \in S
    BY <1>1, <1>2, ElementOfSeq
  <2>2. /\ SubSeq(u, 1, Len(t)) \in Seq(S)
        /\ Len(SubSeq(u, 1, Len(t))) = IF 1 <= Len(t) THEN Len(t) - 1 + 1 ELSE 0
        /\ \A i \in 1..(Len(t) - 1 + 1) : SubSeq(u, 1, Len(t))[i] = u[1 + i - 1]
    BY <1>1, <2>1, SubSeqProperties
  <2>3. QED
    BY <1>1, <2>2
<1>5. SubSeq(u, 1, Len(t)) = t
  <2>1. \A i \in 1..Len(t) : SubSeq(u, 1, Len(t))[i] = t[i]
    BY <1>1, <1>2, <1>3, <1>4
  <2>2. QED
    BY <1>1, <1>4, <2>1, SeqEqual
<1>6. QED
  BY <1>1, <1>2, <1>5 DEF Extends

--------------------------------------------------------------------------------
(* Initial states, and steps that neither prepare, answer nor receive.      *)

LEMMA Bounds ==
         /\ MaxTime \in Nat /\ MaxUpsets \in Nat /\ MaxError \in Nat /\ LeaseTime \in Nat
         /\ 0 \in 0..MaxTime /\ 0 \in 0..MaxUpsets
<1>1. {LastOrdinal, MaxTime, Ttl, LeaseTime, MaxError, MaxUpsets, MaxRequests, MaxOpen}
         \cup Leads \subseteq Nat
  BY RemoteAssumption DEF RemoteAssumption
<1>2. MaxTime \in Nat /\ MaxUpsets \in Nat /\ MaxError \in Nat /\ LeaseTime \in Nat
  BY <1>1
<1>3. QED
  BY <1>2

LEMMA AnchorInit ==
  ASSUME Init
  PROVE  AnchorInv
<1>1. Unregistered \in Checkpoints /\ <<>> \in Histories
  BY DEF Unregistered, Checkpoints, Histories
<1>2. NewClient \in ClientRows
  BY <1>1, Bounds DEF NewClient, ClientRows
<1>3. TypeOK
  BY <1>1, Bounds DEF Init, Empty, TypeOK, NewClient
<1>4. TypeInv
  BY <1>1, <1>2, <1>3 DEF TypeInv, Init, Empty, Founded, NewClient
<1>5. StoreSound /\ Remembers
  BY DEF Init, Empty, StoreSound, Remembers, NewClient
<1>6. \A c \in Clients : clients[c] = NewClient
  BY DEF Init
<1>7. Extends(<<>>, <<>>) /\ Len(<<>>) = 0
  BY ExtendsEmpty, <1>1 DEF Histories
<1>8. \A c \in Clients : OwnHistory(c)
  BY <1>6, <1>7 DEF OwnHistory, Founded, NewClient, Unregistered
<1>9. \A c \in Clients : InStep(c)
  BY <1>6, RemoteAssumption DEF InStep, NewClient, Unanswered, Init, Empty, RemoteAssumption
<1>10. QED
  BY <1>4, <1>5, <1>8, <1>9 DEF AnchorInv

LEMMA UpsetType ==
  ASSUME TypeOK, NEW n \in Nat, Upset(n)
  PROVE  upsets' \in 0..MaxUpsets
  BY RemoteAssumption DEF RemoteAssumption, TypeOK, Upset

\* What the clients know, and what they can check of it, is the same.
SameMessages == UNCHANGED <<wire, answers, clients>>

LEMMA SameMessagesSound ==
  ASSUME AnchorInv, SameMessages
  PROVE  /\ clients' \in [Clients -> ClientRows']
         /\ \A c \in Clients : clients'[c].seen \subseteq answers' /\ clients'[c].prepared \subseteq wire'
         /\ \A q \in wire' : RequestSound(q)'
         /\ \A c \in Clients : \A q \in clients'[c].prepared : q.client = c
         /\ \A x \in answers' : ReceiptSound(x)'
         /\ \A c \in Clients : OwnHistory(c)'
<1>1. ClientRows' = ClientRows
  BY DEF ClientRows, SameMessages
<1>2. \A q \in wire : RequestSound(q)' <=> RequestSound(q)
  BY DEF RequestSound, SameMessages
<1>3. \A x \in answers : ReceiptSound(x)' <=> ReceiptSound(x)
  BY DEF ReceiptSound, SameMessages
<1>4. \A c \in Clients : OwnHistory(c)' <=> OwnHistory(c)
  BY DEF OwnHistory, Told, SameMessages
<1>5. QED
  BY <1>1, <1>2, <1>3, <1>4 DEF AnchorInv, TypeInv, TypeOK, SameMessages

LEMMA RestartKeeps ==
  ASSUME AnchorInv, Restart
  PROVE  AnchorInv'
<1>1. SameMessages
  BY DEF Restart, SameMessages
<1>2. Unregistered \in Checkpoints
  BY DEF Unregistered, Checkpoints
<1>3. TypeOK'
  <2>1. TypeOK
    BY DEF AnchorInv, TypeInv
  <2>2. upsets' \in 0..MaxUpsets
    BY <2>1, UpsetType DEF Restart
  <2>3. now' \in 0..MaxTime /\ lastClock' \in 0..MaxTime /\ fatal' \in BOOLEAN
    BY <2>1, Bounds DEF Restart, TypeOK
  <2>4. QED
    BY <1>1, <1>2, <2>2, <2>3, SameMessagesSound DEF Restart, TypeOK
<1>4. registries' \in [Registries -> Checkpoints] /\ restarted' = TRUE
      /\ \A r \in Registries : Founded(registries'[r])
  BY <1>2 DEF Restart, Founded
<1>5. TypeInv'
  BY <1>1, <1>3, <1>4, SameMessagesSound DEF TypeInv
<1>6. StoreSound' /\ Remembers' /\ \A c \in Clients : ~WorksAlone(c)'
  BY <1>4 DEF Restart, StoreSound, Remembers, WorksAlone
<1>7. QED
  BY <1>1, <1>5, <1>6, SameMessagesSound DEF AnchorInv

\* A step that leaves the service's memory and all messages alone.
Idle == UNCHANGED <<lastClock, stateVars, stored, restarted, wire, answers, clients>>

LEMMA IdleKeeps ==
  ASSUME AnchorInv, Idle, now' \in 0..MaxTime, upsets' \in 0..MaxUpsets, fatal' \in BOOLEAN,
         quarantined' \subseteq Registries
  PROVE  AnchorInv'
<1>1. SameMessages
  BY DEF Idle, SameMessages
<1>2. TypeOK'
  BY <1>1, SameMessagesSound DEF Idle, stateVars, TypeOK, AnchorInv, TypeInv
<1>3. TypeInv'
  BY <1>1, <1>2, SameMessagesSound DEF TypeInv, AnchorInv, Idle, stateVars
<1>4. StoreSound' /\ Remembers'
  BY DEF AnchorInv, StoreSound, Remembers, Idle, stateVars
<1>5. \A c \in Clients : WorksAlone(c)' => InStep(c)'
  BY DEF AnchorInv, WorksAlone, InStep, Alone, Unanswered, Continues, Idle, stateVars
<1>6. QED
  BY <1>1, <1>3, <1>4, <1>5, SameMessagesSound DEF AnchorInv

LEMMA QuietStepsKeep ==
  ASSUME AnchorInv,
         \/ ClockMoves
         \/ \E q \in wire : Conflict(q) \/ ClockFails(q)
         \/ UNCHANGED vars
  PROVE  AnchorInv'
<1>1. TypeOK /\ \A q \in wire : RegistryOf[q.client] \in Registries
  BY RemoteAssumption DEF AnchorInv, TypeInv, RequestSound, RemoteAssumption
<1>2. Idle
  BY DEF ClockMoves, Conflict, ClockFails, Idle, vars, serviceVars, stateVars
<1>3. now' \in 0..MaxTime /\ fatal' \in BOOLEAN /\ quarantined' \subseteq Registries
  BY <1>1 DEF ClockMoves, Conflict, ClockFails, vars, serviceVars, stateVars, TypeOK
<1>4. upsets' \in 0..MaxUpsets
  <2>1. ASSUME ClockMoves PROVE upsets' \in 0..MaxUpsets
    BY <1>1, <2>1, UpsetType DEF ClockMoves
  <2>2. QED
    BY <1>1, <2>1 DEF Conflict, ClockFails, vars, TypeOK
<1>5. QED
  BY <1>2, <1>3, <1>4, IdleKeeps

--------------------------------------------------------------------------------
(* The service answers.                                                     *)

\* The service answers request q with receipt x.
Answering(q, x) ==
    LET r == RegistryOf[q.client] IN
    /\ now >= lastClock
    /\ \A y \in stored : y.request.id # q.id /\ y.request.key # q.key
    /\ lastClock' = now
    /\ stored' = stored \cup {x} /\ answers' = answers \cup {x}
    /\ UNCHANGED <<now, fatal, quarantined, restarted, upsets, wire, clients>>
    /\ x.request = q /\ x.time = now /\ x.decision \in Decisions /\ BindingHolds(x)
    /\ registries' \in [Registries -> Checkpoints] /\ x.after = registries'[r]
    /\ \A p \in Registries : p # r => registries'[p] = registries[p]
    /\ claimed' \in [Grants -> Registries \cup {None}]
    /\ consumed \subseteq consumed' /\ consumed' \subseteq Slots
    /\ IF x.decision = "committed"
       THEN /\ x.previous = registries[r].head
            /\ x.after.head = Append(x.previous, <<q.id, now>>)
       ELSE registries'[r] = registries[r]
    /\ \A s \in Slots : Proves(x, s) => s \notin consumed /\ s \in consumed'

LEMMA MutatedType ==
  ASSUME TypeInv, NEW q \in wire
  PROVE  /\ Mutated(q) \in Checkpoints
         /\ Mutated(q).head = Append(registries[RegistryOf[q.client]].head, <<q.id, now>>)
<1> DEFINE reg  == registries[RegistryOf[q.client]]
           next == [reg EXCEPT !.head = Append(@, <<q.id, now>>)]
<1>1. RegistryOf[q.client] \in Registries /\ SessionOf[q.client] \in Sessions
  BY RemoteAssumption DEF RemoteAssumption, TypeInv, RequestSound
<1>2. reg \in Checkpoints
  BY <1>1 DEF TypeInv
<1>3. <<q.id, now>> \in Ids \X (0..MaxTime) /\ now \in Nat
  BY Bounds DEF TypeInv, TypeOK, RequestSound
<1>4. reg.head \in Seq(Ids \X (0..MaxTime))
  BY <1>2 DEF Checkpoints
<1>5. Append(reg.head, <<q.id, now>>) \in Seq(Ids \X (0..MaxTime))
  BY <1>3, <1>4, AppendProperties
<1>6. next \in Checkpoints /\ next.head = Append(reg.head, <<q.id, now>>)
  BY <1>2, <1>5 DEF Checkpoints
<1>7. now + LeaseTime \in Nat /\ None \in Sessions \cup {None} /\ 0 \in Nat
  BY <1>3, Bounds
<1>8. next.token + 1 \in Nat
  BY <1>6 DEF Checkpoints
<1> HIDE DEF next, reg
<1>9. /\ [next EXCEPT !.session = SessionOf[q.client], !.token = @ + 1, !.lease = now + LeaseTime]
            \in Checkpoints
      /\ [next EXCEPT !.lease = now + LeaseTime] \in Checkpoints
      /\ [next EXCEPT !.session = None, !.lease = 0] \in Checkpoints
  BY <1>1, <1>6, <1>7, <1>8 DEF Checkpoints
<1>10. /\ [next EXCEPT !.session = SessionOf[q.client], !.token = @ + 1, !.lease = now + LeaseTime].head
             = next.head
       /\ [next EXCEPT !.lease = now + LeaseTime].head = next.head
       /\ [next EXCEPT !.session = None, !.lease = 0].head = next.head
  BY <1>6 DEF Checkpoints
<1>11. Mutated(q) \in {next, [next EXCEPT !.lease = now + LeaseTime],
           [next EXCEPT !.session = None, !.lease = 0],
           [next EXCEPT !.session = SessionOf[q.client], !.token = @ + 1, !.lease = now + LeaseTime]}
  BY DEF Mutated, next, reg
<1>12. QED
  BY <1>6, <1>9, <1>10, <1>11 DEF reg

LEMMA CommitAnswers ==
  ASSUME TypeInv, NEW q \in wire, Commit(q)
  PROVE  \E x : Answering(q, x)
<1> DEFINE r == RegistryOf[q.client]
<1>1. PICK x : x = Receipt(q, "committed", None, registries[r].head, Mutated(q))
  OBVIOUS
<1>2. /\ x.request = q /\ x.time = now /\ x.decision = "committed"
      /\ x.previous = registries[r].head /\ x.after = Mutated(q)
  BY <1>1 DEF Receipt
<1>3. r \in Registries /\ Mutated(q) \in Checkpoints
      /\ Mutated(q).head = Append(registries[r].head, <<q.id, now>>)
  BY MutatedType, RemoteAssumption DEF RemoteAssumption, TypeInv, RequestSound
<1>4. registries' = [registries EXCEPT ![r] = Mutated(q)]
  BY DEF Commit
<1>5. registries' \in [Registries -> Checkpoints] /\ registries'[r] = Mutated(q)
      /\ \A p \in Registries : p # r => registries'[p] = registries[p]
  BY <1>3, <1>4 DEF TypeInv
<1>6. claimed' \in [Grants -> Registries \cup {None}]
  BY <1>3 DEF Commit, TypeInv, TypeOK
<1>7. /\ consumed \subseteq consumed' /\ consumed' \subseteq Slots
      /\ q.op = "consume_slot" => q.slot \notin consumed /\ q.slot \in consumed'
  BY DEF Commit, MutationAllowed, ConsumeAllowed, TypeInv, TypeOK, RequestSound
<1>8. BindingHolds(x)
  BY <1>2 DEF Commit, BindingHolds
<1>9. stored' = stored \cup {x} /\ answers' = answers \cup {x}
  BY <1>1 DEF Commit, Answer
<1>10. /\ now >= lastClock /\ \A y \in stored : y.request.id # q.id /\ y.request.key # q.key
       /\ lastClock' = now
       /\ UNCHANGED <<now, fatal, quarantined, restarted, upsets, wire, clients>>
  BY DEF Commit, Decide
<1>11. \A s \in Slots : Proves(x, s) => s \notin consumed /\ s \in consumed'
  BY <1>2, <1>7 DEF Proves
<1> HIDE DEF r
<1>12. Answering(q, x)
  BY <1>2, <1>3, <1>5, <1>6, <1>7, <1>8, <1>9, <1>10, <1>11 DEF Answering, Decisions, r
<1>13. QED
  BY <1>12

LEMMA RefusalBinds ==
  ASSUME NEW q, NEW x, x.request = q, x.decision = "rejected",
         x.error = IF TimeStatus(q, x.time) = "active" THEN "refused" ELSE TimeStatus(q, x.time)
  PROVE  BindingHolds(x)
  BY DEF BindingHolds, TimeStatus

LEMMA RefusalAnswers ==
  ASSUME TypeInv, NEW q \in wire, Observe(q) \/ Reject(q)
  PROVE  \E x : Answering(q, x)
<1> DEFINE r == RegistryOf[q.client]
           status == TimeStatus(q, now)
<1>1. PICK x : /\ x = IF Observe(q) THEN Receipt(q, "observed", None, <<>>, registries[r])
                      ELSE Receipt(q, "rejected", IF status = "active" THEN "refused" ELSE status,
                                   <<>>, registries[r])
  OBVIOUS
<1>2. /\ x.request = q /\ x.time = now /\ x.decision \in {"observed", "rejected"}
      /\ x.after = registries[r]
  BY <1>1 DEF Receipt
<1>3. BindingHolds(x)
  <2>1. CASE Observe(q)
    BY <1>1, <2>1 DEF Observe, Receipt, BindingHolds
  <2>2. CASE ~Observe(q)
    BY <1>1, <2>2, RefusalBinds DEF Receipt
  <2>3. QED
    BY <2>1, <2>2
<1>4. stored' = stored \cup {x} /\ answers' = answers \cup {x} /\ UNCHANGED stateVars
  BY <1>1 DEF Observe, Reject, Answer
<1>5. /\ now >= lastClock /\ \A y \in stored : y.request.id # q.id /\ y.request.key # q.key
      /\ lastClock' = now
      /\ UNCHANGED <<now, fatal, quarantined, restarted, upsets, wire, clients>>
  BY DEF Observe, Reject, Decide
<1>6. r \in Registries
  BY RemoteAssumption DEF RemoteAssumption, TypeInv, RequestSound
<1>7. \A s \in Slots : ~Proves(x, s)
  BY <1>2 DEF Proves
<1> HIDE DEF r
<1>8. Answering(q, x)
  BY <1>2, <1>3, <1>4, <1>5, <1>6, <1>7 DEF Answering, Decisions, r, stateVars, TypeInv, TypeOK
<1>9. QED
  BY <1>8

LEMMA AnsweringTypes ==
  ASSUME AnchorInv, NEW q \in wire, NEW x, Answering(q, x)
  PROVE  TypeInv' /\ ReceiptSound(x)' /\ \A c \in Clients : OwnHistory(c)'
<1> DEFINE r == RegistryOf[q.client]
<1>1. TypeInv /\ TypeOK
  BY DEF AnchorInv, TypeInv
<1>2. r \in Registries /\ now \in 0..MaxTime
  BY <1>1, RemoteAssumption DEF RemoteAssumption, TypeInv, TypeOK, RequestSound
<1>3. UNCHANGED <<wire, clients>> /\ answers' = answers \cup {x} /\ lastClock' = now
      /\ UNCHANGED <<now, fatal, quarantined, restarted, upsets>>
  BY DEF Answering
<1>4. registries' \in [Registries -> Checkpoints] /\ x.after = registries'[r]
      /\ \A p \in Registries : p # r => registries'[p] = registries[p]
  BY DEF Answering
<1>5. Founded(registries'[r])
  <2>1. CASE x.decision = "committed"
    <3>1. x.previous = registries[r].head /\ registries'[r].head = Append(x.previous, <<q.id, now>>)
      BY <2>1, <1>4 DEF Answering
    <3>2. x.previous \in Seq(Ids \X (0..MaxTime)) /\ <<q.id, now>> \in Ids \X (0..MaxTime)
      BY <1>1, <1>2, <3>1 DEF TypeInv, Checkpoints, RequestSound
    <3>3. Append(x.previous, <<q.id, now>>) # <<>>
      BY <3>2, AppendProperties
    <3>4. QED
      BY <3>1, <3>3 DEF Founded
  <2>2. CASE x.decision # "committed"
    BY <1>1, <1>2, <2>2 DEF Answering, TypeInv
  <2>3. QED
    BY <2>1, <2>2
<1>6. \A p \in Registries : Founded(registries'[p])
  BY <1>1, <1>4, <1>5 DEF TypeInv
<1>7. ReceiptSound(x)'
  <2>1. /\ x.request \in wire' /\ x.time \in 0..MaxTime /\ x.after \in Checkpoints
        /\ x.decision \in Decisions /\ BindingHolds(x)' /\ Founded(x.after)'
    BY <1>2, <1>3, <1>4, <1>5 DEF Answering, BindingHolds, Founded
  <2>2. x.decision = "committed" =>
          x.previous \in Histories /\ x.after.head = Append(x.previous, <<x.request.id, x.time>>)
    BY <1>1, <1>2 DEF Answering, TypeInv, Checkpoints, Histories
  <2>3. QED
    BY <2>1, <2>2 DEF ReceiptSound, Founded
<1>8. \A y \in answers : ReceiptSound(y)'
  BY <1>1, <1>3 DEF TypeInv, ReceiptSound
<1>9. \A p \in wire' : RequestSound(p)'
  BY <1>1, <1>3 DEF TypeInv, RequestSound
<1>10. clients' \in [Clients -> ClientRows'] /\ \A c \in Clients : OwnHistory(c)'
  <2>1. \A row \in ClientRows : row \in ClientRows'
    BY <1>3 DEF ClientRows
  <2>2. \A c \in Clients : OwnHistory(c)' <=> OwnHistory(c)
    BY <1>3 DEF OwnHistory, Told
  <2>3. QED
    BY <1>1, <1>3, <2>1, <2>2 DEF TypeInv, AnchorInv
<1>11. TypeOK'
  BY <1>1, <1>2, <1>3, <1>4 DEF Answering, TypeOK
<1>12. QED
  BY <1>1, <1>3, <1>4, <1>6, <1>7, <1>8, <1>9, <1>10, <1>11 DEF TypeInv

LEMMA AnsweringStores ==
  ASSUME AnchorInv, NEW q \in wire, NEW x, Answering(q, x)
  PROVE  StoreSound' /\ Remembers'
<1>1. StoreSound /\ Remembers /\ lastClock \in 0..MaxTime /\ now \in 0..MaxTime /\ MaxTime \in Nat
  BY Bounds DEF AnchorInv, TypeInv, TypeOK
<1>2. /\ x.request = q /\ x.time = now /\ lastClock <= now /\ lastClock' = now
      /\ \A y \in stored : y.request.id # q.id /\ y.request.key # q.key
      /\ stored' = stored \cup {x} /\ answers' = answers \cup {x}
      /\ UNCHANGED <<clients, restarted>>
  BY <1>1 DEF Answering
<1>3. \A y, z \in stored' : (y.request.id = z.request.id \/ y.request.key = z.request.key) => y = z
  BY <1>1, <1>2 DEF StoreSound
<1>4. \A y \in answers : y.time \in 0..MaxTime
  BY DEF AnchorInv, TypeInv, ReceiptSound
<1>5. \A y \in stored' : y.time <= lastClock'
  BY <1>1, <1>2, <1>4 DEF StoreSound, AnchorInv, TypeInv, TypeOK
<1>6. \A y \in stored', s \in Slots : Proves(y, s) => s \in consumed'
  BY <1>1, <1>2 DEF StoreSound, Answering
<1>7. \A c \in Clients : clients[c].time \in 0..MaxTime
  BY DEF AnchorInv, TypeInv, ClientRows
<1>8. Remembers'
  BY <1>1, <1>2, <1>7 DEF Remembers
<1>9. \A y, z \in stored', s \in Slots : Proves(y, s) /\ Proves(z, s) => y = z
  <2>1. \A s \in Slots : Proves(x, s) => \A y \in stored : ~Proves(y, s)
    BY <1>1 DEF StoreSound, Answering
  <2>2. QED
    BY <1>1, <1>2, <2>1 DEF StoreSound
<1>10. QED
  BY <1>3, <1>5, <1>6, <1>8, <1>9 DEF StoreSound

\* What a client that works alone has open is what the service can still answer.
LEMMA AloneAsks ==
  ASSUME AnchorInv, NEW c \in Clients, Alone(c), ~restarted,
         NEW q \in wire, RegistryOf[q.client] = RegistryOf[c],
         \A y \in stored : y.request.id # q.id
  PROVE  q \in Unanswered(c)
<1>1. q \in clients[c].prepared
  BY DEF Alone
<1>2. \A y \in clients[c].seen : y \in stored
  BY DEF AnchorInv, TypeInv, TypeOK, Remembers
<1>3. QED
  BY <1>1, <1>2 DEF Unanswered

LEMMA AnsweringInStep ==
  ASSUME AnchorInv, NEW q \in wire, NEW x, Answering(q, x),
         NEW c \in Clients, WorksAlone(c)'
  PROVE  InStep(c)'
<1> DEFINE r == RegistryOf[q.client]
           last == clients[c].last
<1>1. UNCHANGED <<wire, clients, restarted>> /\ answers' = answers \cup {x} /\ x.request = q
      /\ Unanswered(c)' = Unanswered(c)
  BY DEF Answering, Unanswered
<1>2. WorksAlone(c) /\ InStep(c)
  BY <1>1 DEF WorksAlone, Alone, AnchorInv
<1>3. RegistryOf[c] \in Registries /\ r \in Registries
  BY RemoteAssumption DEF RemoteAssumption, AnchorInv, TypeInv, RequestSound
<1>4. CASE r # RegistryOf[c]
  <2>1. registries'[RegistryOf[c]] = registries[RegistryOf[c]]
    BY <1>3, <1>4 DEF Answering
  <2>2. q \notin Unanswered(c)
    BY <1>4 DEF Unanswered, AnchorInv, TypeInv
  <2>3. \A y : Continues(c, y)' <=> Continues(c, y)
    BY <1>1 DEF Continues
  <2>4. QED
    BY <1>1, <1>2, <2>1, <2>2, <2>3 DEF InStep
<1>5. CASE r = RegistryOf[c]
  <2>1. \A y \in stored : y.request.id # q.id
    BY DEF Answering
  <2>2. q \in Unanswered(c)
    BY <1>2, <1>5, <2>1, AloneAsks DEF WorksAlone
  <2>3. \A p \in Unanswered(c) : p = q
    BY <1>2, <2>2 DEF InStep
  <2>4. stored = answers /\ clients[c].time <= lastClock
    BY <1>2 DEF WorksAlone, AnchorInv, Remembers
  <2>5. \A y \in answers : y.request \notin Unanswered(c)
    BY <2>1, <2>3, <2>4
  <2>6. registries[r] = last
    BY <1>2, <1>5, <2>5 DEF InStep
  <2>7. x.time >= clients[c].time
    <3>1. clients[c].time \in Nat /\ lastClock \in Nat /\ now \in Nat
      BY DEF AnchorInv, TypeInv, TypeOK, ClientRows
    <3>2. x.time = now /\ now >= lastClock
      BY DEF Answering
    <3>3. QED
      BY <2>4, <3>1, <3>2
  <2>8. x.after = registries'[r]
    BY DEF Answering
  <2>9. Continues(c, x) /\ (registries'[r] = Unregistered => last = Unregistered)
    <3>1. CASE x.decision = "committed"
      <4>1. x.previous = last.head /\ x.after.head = Append(last.head, <<q.id, now>>)
        BY <2>6, <3>1 DEF Answering
      <4>2. last.head \in Seq(Ids \X (0..MaxTime)) /\ <<q.id, now>> \in Ids \X (0..MaxTime)
        BY DEF AnchorInv, TypeInv, TypeOK, ClientRows, Checkpoints, RequestSound
      <4>3. Len(x.after.head) = Len(last.head) + 1 /\ x.after.head # <<>>
        BY <4>1, <4>2, AppendProperties
      <4>4. QED
        BY <2>8, <3>1, <4>1, <4>3 DEF Continues, Unregistered
    <3>2. CASE x.decision # "committed"
      <4>1. registries'[r] = last
        BY <2>6, <3>2 DEF Answering
      <4>2. QED
        BY <2>8, <4>1 DEF Continues
    <3>3. QED
      BY <3>1, <3>2
  <2>10. Continues(c, x)'
    BY <1>1, <2>9 DEF Continues
  <2>11. QED
    BY <1>1, <1>5, <2>2, <2>3, <2>5, <2>7, <2>8, <2>9, <2>10 DEF InStep
<1>6. QED
  BY <1>4, <1>5

LEMMA AnsweringKeeps ==
  ASSUME AnchorInv, NEW q \in wire, NEW x, Answering(q, x)
  PROVE  AnchorInv'
  BY AnsweringTypes, AnsweringStores, AnsweringInStep DEF AnchorInv

--------------------------------------------------------------------------------
(* The clients' steps.                                                      *)

LEMMA PrepareKeeps ==
  ASSUME AnchorInv, NEW c \in Clients, NEW id \in Ids, NEW key, NEW body \in Bodies(c), NEW lead,
         Prepare(c, id, key, body, lead)
  PROVE  AnchorInv'
<1>1. PICK q : q = [id |-> id, key |-> key, client |-> c, expected |-> clients[c].last,
              op |-> body[1], grant |-> body[2], slot |-> body[3],
              issued |-> now + lead, expires |-> now + lead + Ttl]
  OBVIOUS
<1>2. /\ wire' = wire \cup {q}
      /\ clients' = [clients EXCEPT ![c].prepared = @ \cup {q},
                                    ![c].hasty = @ \/ Unanswered(c) # {}]
      /\ UNCHANGED <<now, serviceVars>>
  BY <1>1 DEF Prepare
<1>3. UNCHANGED <<now, lastClock, fatal, registries, claimed, consumed, stored, quarantined,
                  restarted, answers>>
  BY <1>2 DEF serviceVars, stateVars
<1>4. TypeInv /\ TypeOK /\ clients[c] \in ClientRows
  BY DEF AnchorInv, TypeInv
<1>5. \A d \in Clients : d # c => clients'[d] = clients[d]
  BY <1>2, <1>4 DEF TypeInv
<1>6. /\ clients'[c].last = clients[c].last /\ clients'[c].time = clients[c].time
      /\ clients'[c].seen = clients[c].seen /\ clients'[c].base = clients[c].base
      /\ clients'[c].prepared = clients[c].prepared \cup {q}
      /\ clients'[c].hasty = (clients[c].hasty \/ Unanswered(c) # {})
  BY <1>2, <1>4 DEF TypeInv, ClientRows
<1>7. clients' \in [Clients -> ClientRows']
  <2>1. \A row \in ClientRows : row \in ClientRows'
    BY <1>2, <1>3 DEF ClientRows
  <2>2. clients[c].prepared \cup {q} \subseteq wire'
    BY <1>2, <1>4 DEF ClientRows
  <2>3. (clients[c].hasty \/ Unanswered(c) # {}) \in BOOLEAN
    OBVIOUS
  <2>4. [clients[c] EXCEPT !.prepared = @ \cup {q}, !.hasty = @ \/ Unanswered(c) # {}] \in ClientRows'
    BY <1>2, <1>3, <1>4, <2>2, <2>3 DEF ClientRows
  <2>5. clients' = [clients EXCEPT ![c] =
                       [clients[c] EXCEPT !.prepared = @ \cup {q}, !.hasty = @ \/ Unanswered(c) # {}]]
    BY <1>2, <1>4 DEF TypeInv
  <2>6. QED
    BY <1>4, <2>1, <2>4, <2>5 DEF TypeInv
<1>8. q.client = c /\ q.id = id /\ q.op = body[1] /\ q.grant = body[2] /\ q.slot = body[3]
  BY <1>1
<1>9. RequestSound(q)'
  <2>1. \/ body[1] \notin {"claim_authorization", "consume_slot"}
        \/ \E g \in Grants : body = <<"claim_authorization", g, None>>
        \/ \E g \in Grants, s \in Slots : body = <<"consume_slot", g, s>>
    BY DEF Bodies
  <2>2. /\ q.op \in {"claim_authorization", "consume_slot"} => q.grant \in Grants
        /\ q.op = "consume_slot" => q.slot \in Slots
    BY <1>8, <2>1
  <2>3. QED
    BY <1>6, <1>8, <2>2 DEF RequestSound
<1>10. \A p \in wire : RequestSound(p)'
  BY <1>4, <1>5, <1>6 DEF RequestSound, TypeInv
<1>11. \A d \in Clients : \A p \in clients'[d].prepared : p.client = d
  BY <1>4, <1>5, <1>6, <1>8 DEF TypeInv
<1>12. \A x \in answers' : ReceiptSound(x)'
  BY <1>2, <1>3, <1>4 DEF TypeInv, ReceiptSound
<1>13. upsets' \in 0..MaxUpsets
  <2>1. \E n \in Nat : Upset(n)
    <3> DEFINE n == (IF lead = 0 THEN 0 ELSE 1)
                       + (IF \E p \in wire : p.id = id \/ p.key = key THEN 1 ELSE 0)
    <3>1. Upset(n)
      BY DEF Prepare
    <3>2. n \in Nat
      OBVIOUS
    <3>3. QED
      BY <3>1, <3>2
  <2>2. QED
    BY <1>4, <2>1, UpsetType
<1>14. TypeOK'
  BY <1>2, <1>3, <1>4, <1>5, <1>6, <1>13 DEF TypeOK
<1>15. TypeInv'
  BY <1>2, <1>3, <1>4, <1>7, <1>9, <1>10, <1>11, <1>12, <1>14 DEF TypeInv
<1>16. StoreSound' /\ Remembers'
  BY <1>3, <1>5, <1>6 DEF AnchorInv, StoreSound, Remembers
<1>17. \A d \in Clients : OwnHistory(d)'
  BY <1>5, <1>6 DEF AnchorInv, OwnHistory, Told
<1>18. ASSUME NEW d \in Clients, WorksAlone(d)' PROVE InStep(d)'
  <2>1. Alone(d)
    <3> SUFFICES ASSUME NEW p \in wire, RegistryOf[p.client] = RegistryOf[d]
                 PROVE  p \in clients[d].prepared
      BY DEF Alone
    <3>1. p \in clients'[d].prepared
      BY <1>2, <1>18 DEF WorksAlone, Alone
    <3>2. p \in clients[p.client].prepared
      BY <1>4 DEF TypeInv, RequestSound
    <3>3. QED
      BY <1>5, <1>6, <1>8, <3>1, <3>2
  <2>2. WorksAlone(d) /\ InStep(d)
    BY <1>3, <1>5, <1>6, <1>18, <2>1 DEF WorksAlone, AnchorInv
  <2>3. \A y : Continues(d, y)' <=> Continues(d, y)
    BY <1>5, <1>6 DEF Continues
  <2>4. CASE d # c
    <3>1. Unanswered(d)' = Unanswered(d)
      BY <1>5, <2>4 DEF Unanswered
    <3>2. QED
      BY <1>3, <1>5, <2>2, <2>3, <2>4, <3>1 DEF InStep
  <2>5. CASE d = c
    <3>1. Unanswered(c) = {}
      BY <1>6, <1>18, <2>5 DEF WorksAlone
    <3>2. registries[RegistryOf[c]] = clients[c].last
      BY <2>2, <2>5, <3>1 DEF InStep
    <3>3. \A p \in Unanswered(c)' : p = q /\ q \notin clients[c].prepared
      BY <1>6, <3>1 DEF Unanswered
    <3>4. \A x \in answers : x.request \notin Unanswered(c)'
      BY <1>4, <1>8, <3>3 DEF TypeInv, ReceiptSound, RequestSound
    <3>5. QED
      BY <1>3, <1>6, <2>5, <3>2, <3>3, <3>4 DEF InStep
  <2>6. QED
    BY <2>4, <2>5
<1>19. QED
  BY <1>15, <1>16, <1>17, <1>18 DEF AnchorInv

LEMMA ReceiveKeeps ==
  ASSUME AnchorInv, NEW c \in Clients, NEW x \in answers, Receive(c, x)
  PROVE  AnchorInv'
<1> PICK last : last = clients[c].last
  OBVIOUS
<1> PICK next : next = IF x.after = Unregistered THEN last ELSE x.after
  OBVIOUS
<1> PICK base : base = IF clients[c].base = <<>> THEN x.after.head ELSE clients[c].base
  OBVIOUS
<1>1. TypeInv /\ TypeOK /\ clients[c] \in ClientRows /\ ReceiptSound(x) /\ OwnHistory(c)
  BY DEF AnchorInv, TypeInv
<1>2. Acceptable(c, x) /\ x \notin clients[c].seen
      /\ UNCHANGED <<now, serviceVars, upsets, wire>>
  BY DEF Receive
<1>3. UNCHANGED <<now, lastClock, fatal, registries, claimed, consumed, stored, quarantined,
                  restarted, answers, wire, upsets>>
  BY <1>2 DEF serviceVars, stateVars
<1>4. \A d \in Clients : d # c => clients'[d] = clients[d]
  BY <1>1 DEF TypeInv, Receive
<1>5. /\ clients'[c].last = next /\ clients'[c].time = x.time
      /\ clients'[c].seen = clients[c].seen \cup {x} /\ clients'[c].base = base
      /\ clients'[c].prepared = clients[c].prepared
      /\ clients'[c].hasty = clients[c].hasty
  BY <1>1 DEF TypeInv, ClientRows, Receive
<1>6. next \in Checkpoints /\ base \in Histories /\ x.time \in 0..MaxTime
      /\ clients[c].seen \cup {x} \subseteq answers
  BY <1>1 DEF ReceiptSound, ClientRows, Checkpoints, Histories
<1>7. clients' \in [Clients -> ClientRows']
  <2>1. clients' = [clients EXCEPT ![c] =
                       [clients[c] EXCEPT !.seen = @ \cup {x}, !.time = x.time,
                                          !.last = next, !.base = base]]
    BY <1>1 DEF TypeInv, Receive
  <2>2. [clients[c] EXCEPT !.seen = @ \cup {x}, !.time = x.time, !.last = next, !.base = base]
            \in ClientRows
    BY <1>1, <1>6 DEF ClientRows
  <2>3. ClientRows' = ClientRows
    BY <1>3 DEF ClientRows
  <2>4. QED
    BY <1>1, <2>1, <2>2, <2>3 DEF TypeInv
<1>8. \A q \in wire : RequestSound(q)'
  BY <1>1, <1>4, <1>5 DEF TypeInv, RequestSound
<1>9. \A d \in Clients : \A q \in clients'[d].prepared : q.client = d
  BY <1>1, <1>4, <1>5 DEF TypeInv
<1>10. \A y \in answers : ReceiptSound(y)'
  BY <1>1, <1>3 DEF TypeInv, ReceiptSound
<1>11. TypeOK'
  BY <1>1, <1>3, <1>4, <1>5, <1>6 DEF TypeOK
<1>12. TypeInv'
  BY <1>1, <1>3, <1>7, <1>8, <1>9, <1>10, <1>11 DEF TypeInv
<1>13. StoreSound' /\ Remembers'
  BY <1>3, <1>4, <1>5 DEF AnchorInv, StoreSound, Remembers
<1>14. OwnHistory(c)'
  <2>1. Founded(next) /\ (base = <<>> <=> next = Unregistered)
    BY <1>1 DEF OwnHistory, ReceiptSound, Founded, Unregistered
  <2>2. \A e : Told(c, e) => Told(c, e)'
    BY <1>5 DEF Told
  <2>3. Extends(next.head, base) /\ \A i \in (Len(base) + 1)..Len(next.head) : Told(c, next.head[i])'
    <3>1. CASE x.after = Unregistered
      <4>1. next = last /\ base = clients[c].base
        BY <1>1, <3>1 DEF Unregistered, OwnHistory
      <4>2. QED
        BY <1>1, <2>2, <4>1 DEF OwnHistory
    <3>2. CASE x.after # Unregistered /\ last = Unregistered
      <4>1. next = x.after /\ base = x.after.head
        BY <1>1, <3>2 DEF OwnHistory
      <4>2. x.after.head \in Seq(Ids \X (0..MaxTime))
        BY <1>1 DEF ReceiptSound, Checkpoints
      <4>3. Extends(next.head, base) /\ (Len(base) + 1)..Len(next.head) = {}
        BY <4>1, <4>2, ExtendsItself
      <4>4. QED
        BY <4>3
    <3>3. CASE x.after # Unregistered /\ last # Unregistered
      <4>1. next = x.after /\ base = clients[c].base
        BY <1>1, <3>3 DEF OwnHistory
      <4>2. CASE x.after = last
        BY <1>1, <2>2, <4>1, <4>2 DEF OwnHistory
      <4>3. CASE x.after # last
        <5> DEFINE e == <<x.request.id, x.time>>
        <5>1. x.decision = "committed" /\ x.previous = last.head
          BY <1>2, <3>3, <4>3 DEF Acceptable, Continues
        <5>2. next.head = Append(last.head, e) /\ last.head \in Seq(Ids \X (0..MaxTime))
              /\ base \in Seq(Ids \X (0..MaxTime)) /\ Extends(last.head, base)
          BY <1>1, <4>1, <5>1 DEF ReceiptSound, ClientRows, Checkpoints, OwnHistory, Histories
        <5>3. e \in Ids \X (0..MaxTime)
          BY <1>1 DEF ReceiptSound, TypeInv, RequestSound
        <5>4. Told(c, e)'
          BY <1>5, <5>1 DEF Told
        <5> HIDE DEF e
        <5>5. Extends(next.head, base)
          BY <5>2, <5>3, ExtendsAppended
        <5>6. /\ Len(next.head) = Len(last.head) + 1
              /\ \A i \in 1..Len(last.head) : next.head[i] = last.head[i]
              /\ next.head[Len(last.head) + 1] = e
          <6> DEFINE h == last.head
          <6>1. h \in Seq(Ids \X (0..MaxTime))
            BY <5>2
          <6> HIDE DEF h
          <6>2. /\ Len(Append(h, e)) = Len(h) + 1
                /\ \A i \in 1..Len(h) : Append(h, e)[i] = h[i]
                /\ Append(h, e)[Len(h) + 1] = e
            BY <5>3, <6>1, AppendProperties
          <6>3. QED
            BY <5>2, <6>2 DEF h
        <5>7. Len(last.head) \in Nat /\ Len(base) \in Nat
          BY <5>2
        <5>8. \A i \in (Len(base) + 1)..Len(last.head) : Told(c, last.head[i])'
          BY <1>1, <2>2, <4>1 DEF OwnHistory
        <5>9. ASSUME NEW i \in (Len(base) + 1)..Len(next.head) PROVE Told(c, next.head[i])'
          <6>1. CASE i = Len(last.head) + 1
            BY <5>4, <5>6, <6>1
          <6>2. CASE i # Len(last.head) + 1
            <7>1. i \in (Len(base) + 1)..Len(last.head) /\ next.head[i] = last.head[i]
              BY <5>6, <5>7, <6>2
            <7>2. QED
              BY <5>8, <7>1
          <6>3. QED
            BY <6>1, <6>2
        <5>10. QED
          BY <5>5, <5>9
      <4>4. QED
        BY <4>2, <4>3
    <3>4. QED
      BY <3>1, <3>2, <3>3
  <2>4. QED
    BY <1>5, <2>1, <2>3 DEF OwnHistory, Founded
<1>15. \A d \in Clients : d # c => OwnHistory(d)'
  BY <1>4 DEF AnchorInv, OwnHistory, Told
<1>16. ASSUME NEW d \in Clients, WorksAlone(d)' PROVE InStep(d)'
  <2>1. WorksAlone(d) /\ InStep(d)
    BY <1>3, <1>4, <1>5, <1>16 DEF WorksAlone, Alone, AnchorInv
  <2>2. CASE d # c
    BY <1>3, <1>4, <2>1, <2>2 DEF InStep, Unanswered, Continues
  <2>3. CASE d = c
    <3>1. x.request \in Unanswered(c)
      <4>1. x.request \in clients[c].prepared
        BY <1>2 DEF Acceptable
      <4>2. \A y \in clients[c].seen : y.request # x.request
        BY <1>2 DEF Acceptable
      <4>3. QED
        BY <4>1, <4>2 DEF Unanswered
    <3>2. Unanswered(c)' = {}
      BY <1>5, <2>1, <2>3, <3>1 DEF InStep, Unanswered
    <3>3. registries[RegistryOf[c]] = next
      BY <2>1, <2>3, <3>1 DEF InStep
    <3>4. QED
      BY <1>3, <1>5, <2>3, <3>2, <3>3 DEF InStep
  <2>4. QED
    BY <2>2, <2>3
<1>17. QED
  BY <1>12, <1>13, <1>14, <1>15, <1>16 DEF AnchorInv

--------------------------------------------------------------------------------
(* The invariant, and what it says.                                         *)

LEMMA AnchorStep == AnchorInv /\ [Next]_vars => AnchorInv'
<1> SUFFICES ASSUME AnchorInv, [Next]_vars PROVE AnchorInv'
  OBVIOUS
<1>1. ASSUME NEW c \in Clients, PrepareFresh(c) \/ PrepareAgain(c) PROVE AnchorInv'
  <2>1. PICK id \in Ids, body \in Bodies(c) : \E key, lead : Prepare(c, id, key, body, lead)
    <3>1. CASE PrepareFresh(c)
      <4>1. PICK id : id = FreshId
        OBVIOUS
      <4>2. id \in Ids
        BY <3>1, <4>1, FreshIdIsId DEF PrepareFresh
      <4>3. \E body \in Bodies(c) : \E key, lead : Prepare(c, id, key, body, lead)
        BY <3>1, <4>1, Zenon DEF PrepareFresh
      <4>4. QED
        BY <4>2, <4>3, Zenon
    <3>2. CASE PrepareAgain(c)
      <4>1. \A q \in wire : q.id \in Ids
        BY DEF AnchorInv, TypeInv, RequestSound
      <4>2. PICK q \in wire : \E body \in Bodies(c), lead \in Leads : Prepare(c, q.id, q.id, body, lead)
        BY <3>2, Zenon DEF PrepareAgain
      <4>3. PICK id : id = q.id
        OBVIOUS
      <4>4. \E body \in Bodies(c) : \E lead : Prepare(c, id, id, body, lead)
        BY <4>2, <4>3, Zenon
      <4>5. QED
        BY <4>1, <4>3, <4>4, Zenon
    <3>3. QED
      BY <1>1, <3>1, <3>2
  <2>2. QED
    BY <2>1, PrepareKeeps
<1>2. ASSUME NEW c \in Clients, NEW x \in answers, Receive(c, x) PROVE AnchorInv'
  BY <1>2, ReceiveKeeps
<1>3. ASSUME NEW q \in wire, Commit(q) \/ Observe(q) \/ Reject(q) PROVE AnchorInv'
  <2>1. \E x : Answering(q, x)
    BY <1>3, CommitAnswers, RefusalAnswers DEF AnchorInv
  <2>2. QED
    BY <2>1, AnsweringKeeps
<1>4. CASE \/ ClockMoves
           \/ \E q \in wire : Conflict(q) \/ ClockFails(q)
           \/ UNCHANGED vars
  BY <1>4, QuietStepsKeep
<1>5. CASE Restart
  BY <1>5, RestartKeeps
<1>6. QED
  BY <1>1, <1>2, <1>3, <1>4, <1>5 DEF Next, Handle

LEMMA AnchorInvariant == Spec => []AnchorInv
  BY AnchorInit, AnchorStep, PTL DEF Spec

\* remote-anchor-service-simulator.ts, #requestsById: however often a request is
\* repeated, by whichever client and in whatever order the messages come, it has
\* one answer, its idempotency key commits once, and a slot is bought once.
THEOREM RetriesFree == Spec => []RetriesAreFree
<1>1. AnchorInv => RetriesAreFree
  <2> SUFFICES ASSUME AnchorInv, ~restarted, NEW x \in answers, NEW y \in answers
               PROVE  /\ x.request = y.request => x = y
                      /\ (x.request.key = y.request.key /\ x.decision = "committed"
                            /\ y.decision = "committed") => x = y
                      /\ (\E s \in Slots : Proves(x, s) /\ Proves(y, s)) => x = y
    BY DEF RetriesAreFree
  <2>1. /\ x \in stored /\ y \in stored
        /\ (x.request.id = y.request.id \/ x.request.key = y.request.key) => x = y
        /\ \A s \in Slots : Proves(x, s) /\ Proves(y, s) => x = y
    BY DEF AnchorInv, Remembers, StoreSound
  <2>2. QED
    BY <2>1
<1>2. QED
  BY <1>1, AnchorInvariant, PTL

\* remote-anchor-client.ts, #verifyMonotonicReceipt: from the first checkpoint a
\* client believed, every entry of its registry's history is one that was
\* committed for a request of its own, whoever else has its key and whatever a
\* service that lost its memory answers.
THEOREM HistoriesOwn == Spec => []HistoriesAreOwn
<1>1. AnchorInv => HistoriesAreOwn
  BY DEF AnchorInv, TypeInv, OwnHistory, Told, HistoriesAreOwn
<1>2. QED
  BY <1>1, AnchorInvariant, PTL

\* remote-anchor-client.ts, verifyResponse: a client that works alone on its
\* registry, one request at a time, accepts every answer to what it has open,
\* however late it comes and however often it was lost.
THEOREM LoneClientsAccept == Spec => []LoneClientsKeepUp
<1>1. AnchorInv => LoneClientsKeepUp
  <2> SUFFICES ASSUME AnchorInv, ~restarted, NEW c \in Clients, Alone(c), ~clients[c].hasty,
                      NEW x \in answers, x.request \in Unanswered(c)
               PROVE  Acceptable(c, x)
    BY DEF LoneClientsKeepUp
  <2>1. x.time >= clients[c].time /\ Continues(c, x)
    BY DEF AnchorInv, WorksAlone, InStep
  <2>2. BindingHolds(x) /\ x.request \in clients[c].prepared
    BY DEF AnchorInv, TypeInv, ReceiptSound, Unanswered
  <2>3. \A y \in clients[c].seen : y \in answers
    BY DEF AnchorInv, TypeInv, TypeOK
  <2>4. \A y \in clients[c].seen : y.request.id = x.request.id => y = x
    BY <2>3 DEF AnchorInv, Remembers, StoreSound
  <2>5. QED
    BY <2>1, <2>2, <2>4 DEF Acceptable
<1>2. QED
  BY <1>1, AnchorInvariant, PTL

--------------------------------------------------------------------------------
(* The service is an anchor until it loses its memory.                      *)

\* What the abstract anchor sees of the registries.
Fences == [r \in Registries |-> registries[r].token]
Held   == {r \in Registries : registries[r].session # None}

LEMMA CommitMaps ==
  ASSUME TypeInv, NEW q \in wire, Commit(q)
  PROVE  Promise!Next \/ UNCHANGED Promise!promiseVars
<1> DEFINE r == RegistryOf[q.client]
           reg == registries[r]
           row == Mutated(q)
<1>1. r \in Registries /\ SessionOf[q.client] # None /\ reg \in Checkpoints
  BY RemoteAssumption DEF RemoteAssumption, TypeInv, RequestSound
<1>2. registries' = [registries EXCEPT ![r] = row] /\ MutationAllowed(q)
  BY DEF Commit
<1>3. row \in Checkpoints
  BY MutatedType
<1> HIDE DEF row
<1>4. /\ Fences' = [Fences EXCEPT ![r] = row.token]
      /\ Held' = IF row.session # None THEN Held \cup {r} ELSE Held \ {r}
  BY <1>1, <1>2 DEF Fences, Held, TypeInv
<1>5. reg.session # None <=> r \in Held
  BY <1>1 DEF Held
<1>6. Fences \in [Registries -> Nat] /\ Fences[r] = reg.token
  BY <1>1 DEF Fences, TypeInv, Checkpoints
<1>7. CASE q.op = "acquire_session"
  <2>1. row.token = reg.token + 1 /\ row.session # None
    BY <1>1, <1>7 DEF row, Mutated, Checkpoints
  <2>2. Fences' = [Fences EXCEPT ![r] = @ + 1] /\ Held' = Held \cup {r}
    BY <1>4, <1>6, <2>1
  <2>3. UNCHANGED <<claimed, consumed>>
    BY <1>7 DEF Commit
  <2>4. Promise!Open(r)
    BY <2>2, <2>3 DEF Promise!Open, Fences, Held
  <2>5. QED
    BY <1>1, <2>4 DEF Promise!Next
<1>8. CASE q.op = "release_session"
  <2>1. row.token = reg.token /\ row.session = None
    BY <1>1, <1>8 DEF row, Mutated, Checkpoints
  <2>2. reg.session # None
    BY <1>1, <1>2, <1>8 DEF MutationAllowed, SessionHolds
  <2>3. UNCHANGED <<claimed, consumed>>
    BY <1>8 DEF Commit
  <2>4. Fences' = Fences /\ Held' = Held \ {r} /\ r \in Held
    BY <1>4, <1>5, <1>6, <2>1, <2>2
  <2>5. Promise!Release(r)
    BY <2>3, <2>4 DEF Promise!Release, Fences, Held
  <2>6. QED
    BY <1>1, <2>5 DEF Promise!Next
<1>9. CASE q.op \notin {"acquire_session", "release_session"}
  <2>1. row.token = reg.token /\ row.session = reg.session
    BY <1>1, <1>9 DEF row, Mutated, Checkpoints
  <2>2. Fences' = Fences /\ Held' = Held
    BY <1>4, <1>5, <1>6, <2>1
  <2>3. CASE q.op = "claim_authorization"
    <3>1. PICK g \in Grants : g = q.grant
      BY <2>3 DEF TypeInv, RequestSound
    <3>2. ClaimAllowed(q) /\ SessionHolds(q)
      BY <1>2, <2>3 DEF MutationAllowed
    <3>3. \A h \in Grants : claimed[h] # None => /\ AuthorizationOf[h] # AuthorizationOf[g]
                                                /\ Authorized[h] \cap Authorized[g] = {}
      BY <3>1, <3>2 DEF ClaimAllowed
    <3>4. claimed[g] = None
      BY <3>3
    <3>5. r \in Held
      BY <1>1, <1>5, <3>2 DEF SessionHolds
    <3>6. claimed' = [claimed EXCEPT ![g] = r] /\ consumed' = consumed
      BY <2>3, <3>1 DEF Commit
    <3>7. Promise!Claim(r, g)
      BY <2>2, <3>3, <3>4, <3>5, <3>6 DEF Promise!Claim, Fences, Held
    <3>8. QED
      BY <1>1, <3>7 DEF Promise!Next
  <2>4. CASE q.op = "consume_slot"
    <3>1. PICK s \in Slots : s = q.slot
      BY <2>4 DEF TypeInv, RequestSound
    <3>2. q.grant \in Grants /\ ConsumeAllowed(q) /\ SessionHolds(q)
      BY <1>2, <2>4 DEF MutationAllowed, TypeInv, RequestSound
    <3>3. r \in Held
      BY <1>1, <1>5, <3>2 DEF SessionHolds
    <3>4. consumed' = consumed \cup {s} /\ claimed' = claimed
      BY <2>4, <3>1 DEF Commit
    <3>5. /\ \E g \in Grants : claimed[g] = r /\ s[1] \in Authorized[g]
          /\ s \notin consumed /\ \A i \in 1..(s[2] - 1) : <<s[1], i>> \in consumed
      BY <3>1, <3>2 DEF ConsumeAllowed
    <3>6. Promise!Spend(r, s)
      BY <2>2, <3>3, <3>4, <3>5 DEF Promise!Spend, Fences, Held
    <3>7. QED
      BY <1>1, <3>1, <3>6 DEF Promise!Next, Promise!Slots, Slots
  <2>5. CASE q.op \notin {"claim_authorization", "consume_slot"}
    <3>1. UNCHANGED <<claimed, consumed>>
      BY <2>5 DEF Commit
    <3>2. QED
      BY <2>2, <3>1 DEF Promise!promiseVars, Fences, Held
  <2>6. QED
    BY <2>3, <2>4, <2>5
<1>10. QED
  BY <1>7, <1>8, <1>9

LEMMA OthersMap ==
  ASSUME [Next]_vars, ~(\E q \in wire : Commit(q))
  PROVE  restarted' \/ UNCHANGED <<claimed, consumed, registries>>
<1>1. CASE UNCHANGED vars
  BY <1>1 DEF vars, serviceVars, stateVars
<1>2. ASSUME NEW c \in Clients, PrepareFresh(c) \/ PrepareAgain(c)
      PROVE  UNCHANGED serviceVars
  BY <1>2 DEF PrepareFresh, PrepareAgain, Prepare
<1>3. ASSUME NEW c \in Clients, NEW x \in answers, Receive(c, x) PROVE UNCHANGED serviceVars
  BY <1>3 DEF Receive
<1>4. ASSUME NEW q \in wire, Handle(q) PROVE UNCHANGED <<claimed, consumed, registries>>
  BY <1>4 DEF Handle, Observe, Reject, Conflict, ClockFails, stateVars
<1>5. CASE ClockMoves
  BY <1>5 DEF ClockMoves, serviceVars, stateVars
<1>6. CASE Restart
  BY <1>6 DEF Restart
<1>7. QED
  BY <1>1, <1>2, <1>3, <1>4, <1>5, <1>6 DEF Next, serviceVars, stateVars

\* remote-anchor-service-simulator.ts: until the service loses its memory, every
\* run of any number of clients on it, whatever the network does, is a run of
\* AnchorPromise: consents and slots are given away once, in order, and in a
\* session with a token of its own.
THEOREM RemoteAnchorKeepsPromise == Spec => ImplementsPromise
<1>1. Init => Promise!Init
  BY DEF Init, Empty, Promise!Init, Unregistered
<1>2. AnchorInv /\ [Next]_vars => [restarted' \/ Promise!Next]_(Promise!promiseVars)
  <2> SUFFICES ASSUME AnchorInv, [Next]_vars
               PROVE  restarted' \/ Promise!Next \/ UNCHANGED Promise!promiseVars
    OBVIOUS
  <2>1. CASE \E q \in wire : Commit(q)
    BY <2>1, CommitMaps DEF AnchorInv
  <2>2. CASE ~(\E q \in wire : Commit(q))
    BY <2>2, OthersMap DEF Promise!promiseVars
  <2>3. QED
    BY <2>1, <2>2
<1>3. QED
  BY <1>1, <1>2, AnchorInvariant, PTL DEF Spec, ImplementsPromise
================================================================================
