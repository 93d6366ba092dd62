----------------------------- MODULE RemoteAnchor ------------------------------
(***************************************************************************)
(* The remote anchor: RemoteAnchorServiceSimulator, the clients of the     *)
(* authorities that call it (RemoteAnchorClient), and the network between  *)
(* them (evaluation/live-shadow-boundary/remote-anchor-*.ts).              *)
(*                                                                         *)
(* A request that was prepared may reach the service at any later time,    *)
(* repeatedly or never, and so may an answer its client: `wire' and        *)
(* `answers' only grow.  The service holds everything in memory, and a new *)
(* one with the same keys starts empty (`Restart').  So does a client: a   *)
(* process that dies leaves its client unused, and the next has another.   *)
(*                                                                         *)
(* A checkpoint's head hash covers the history of the registry: here the   *)
(* head is that history, a sequence of <<request id, time>>, and its       *)
(* length the sequence number.  The key of a request stands for its        *)
(* idempotency key and its nonce.  Signatures and encodings are left out.  *)
(***************************************************************************)
EXTENDS Integers, Sequences, FiniteSets

CONSTANTS
    Registries, Grants, Executions, Sessions, Clients,
    RegistryOf,       \* the registry whose authority key a client has
    SessionOf,        \* the session id its caller uses
    AuthorizationOf,  \* the authorization id of a consent
    Authorized,       \* the executions of a consent
    GrantEnd,         \* when it expires
    LastOrdinal,      \* LIVE_CALL_SLOTS.length
    Ids,              \* request ids
    MaxRequests,      \* bound: requests prepared; an upset counts for two
    MaxOpen,          \* bound: those whose answer their client has not seen
    MaxTime, Ttl, LeaseTime, MaxError,
    Leads,            \* by how much an authority's clock may be ahead
    MaxUpsets,        \* bound: clock steps, ids or keys used again, clocks
                      \* that are ahead and restarts, together
    None

ASSUME RemoteAssumption ==
    /\ RegistryOf \in [Clients -> Registries]
    /\ SessionOf \in [Clients -> Sessions]
    /\ Authorized \in [Grants -> SUBSET Executions]
    /\ GrantEnd \in [Grants -> Nat]
    /\ {LastOrdinal, MaxTime, Ttl, LeaseTime, MaxError, MaxUpsets, MaxRequests, MaxOpen} \cup Leads \subseteq Nat
    /\ Ids \subseteq Nat
    /\ None \notin Sessions \cup Registries

VARIABLES
    now,          \* the service's clock
    lastClock,    \* #lastClockMs
    fatal,        \* #fatal
    registries,   \* #state.registries: a checkpoint each
    claimed,      \* #state.authorizations: the registry of each consent
    consumed,     \* #state.slots in state consumed
    stored,       \* #requestsById, as the receipts it holds
    quarantined,  \* #replayConflictRegistries
    restarted,    \* observer: the service lost its memory
    upsets,       \* how many there were
    wire,         \* signed requests
    answers,      \* signed receipts
    clients       \* per client: #lastCheckpoint, #lastAnchorTimeMs, the receipts
                  \* seen, the requests prepared; and two observers: the first
                  \* head it believed, and whether two requests were open at once

stateVars   == <<registries, claimed, consumed>>
serviceVars == <<lastClock, fatal, stateVars, stored, quarantined, restarted, answers>>
vars        == <<now, serviceVars, upsets, wire, clients>>

Unregistered == [head |-> <<>>, session |-> None, token |-> 0, lease |-> 0]
NewClient    == [last |-> Unregistered, time |-> 0, seen |-> {}, prepared |-> {},
                 base |-> <<>>, hasty |-> FALSE]
Slots        == Executions \X (1..LastOrdinal)

--------------------------------------------------------------------------------
(* The client's side: prepare, verifyResponse.                              *)

\* What a caller asks for, given the checkpoint it holds: an operation and the
\* consent or slot it is about.
Bodies(c) ==
    IF clients[c].last = Unregistered
    THEN {<<"register_registry", None, None>>, <<"get_checkpoint", None, None>>}
    ELSE IF clients[c].last.session # SessionOf[c]
    THEN {<<"get_checkpoint", None, None>>, <<"acquire_session", None, None>>}
    ELSE {<<"renew_session", None, None>>, <<"release_session", None, None>>}
         \cup {<<"claim_authorization", g, None>> : g \in Grants}
         \cup {<<"consume_slot", g, s>> : g \in Grants, s \in Slots}

FreshId == CHOOSE i \in Ids : /\ \A q \in wire : q.id # i
                              /\ \A j \in Ids : j < i => \E q \in wire : q.id = j

Unanswered(c) == {q \in clients[c].prepared : \A x \in clients[c].seen : x.request # q}

Upset(n) ==
    /\ upsets' = upsets + n /\ upsets' <= MaxUpsets
    /\ Cardinality(wire) + 2 * upsets' <= MaxRequests

Prepare(c, id, key, body, lead) ==
    LET q == [id |-> id, key |-> key, client |-> c, expected |-> clients[c].last,
              op |-> body[1], grant |-> body[2], slot |-> body[3],
              issued |-> now + lead, expires |-> now + lead + Ttl]
    IN /\ Upset((IF lead = 0 THEN 0 ELSE 1) + (IF \E p \in wire : p.id = id \/ p.key = key THEN 1 ELSE 0))
       /\ Cardinality(wire \cup {q}) + 2 * upsets' <= MaxRequests
       /\ Cardinality(UNION {Unanswered(d) : d \in Clients} \cup {q}) <= MaxOpen
       /\ wire' = wire \cup {q}
       /\ clients' = [clients EXCEPT ![c].prepared = @ \cup {q},
                                     ![c].hasty = @ \/ Unanswered(c) # {}]
       /\ UNCHANGED <<now, serviceVars>>

PrepareFresh(c) ==
    /\ \E i \in Ids : \A q \in wire : q.id # i
    /\ \E body \in Bodies(c), lead \in Leads, key \in {FreshId} \cup {q.key : q \in wire} :
          Prepare(c, FreshId, key, body, lead)

PrepareAgain(c) ==
    /\ \E q \in wire, body \in Bodies(c), lead \in Leads : Prepare(c, q.id, q.id, body, lead)

\* remoteAnchorRequestTimeStatus.
TimeStatus(q, t) ==
    LET upper == t + MaxError IN
    IF q.issued > upper THEN "future" ELSE IF q.expires <= upper THEN "expired" ELSE "active"

\* #verifyBinding: the request is the one that was prepared, and the decision
\* fits the time of the receipt.
BindingHolds(x) ==
    LET status == TimeStatus(x.request, x.time) IN
    IF x.decision # "rejected" THEN status = "active"
    ELSE IF x.error \in {"future", "expired"} THEN status = x.error
    ELSE status = "active"

\* Mutant: a read may skip ahead.
ContinuesSkipping(c, x) == x.decision # "rejected"

\* #verifyMonotonicReceipt: the next checkpoint continues the last one.
Continues(c, x) ==
    LET last == clients[c].last IN
    \/ last = Unregistered \/ x.after = Unregistered
    \/ x.after = last
    \/ /\ x.decision = "committed"
       /\ Len(x.after.head) = Len(last.head) + 1
       /\ x.previous = last.head

Acceptable(c, x) ==
    /\ x.request \in clients[c].prepared
    /\ BindingHolds(x)
    /\ \A y \in clients[c].seen : y.request.id = x.request.id => y = x
    /\ x.time >= clients[c].time
    /\ Continues(c, x)

\* A receipt that was seen before changes nothing; one that is not acceptable is
\* an error whose outcome may be committed, and changes nothing either.
Receive(c, x) ==
    /\ Acceptable(c, x) /\ x \notin clients[c].seen
    /\ clients' = [clients EXCEPT
          ![c].seen = @ \cup {x}, ![c].time = x.time,
          ![c].last = IF x.after = Unregistered THEN @ ELSE x.after,
          ![c].base = IF @ = <<>> THEN x.after.head ELSE @]
    /\ UNCHANGED <<now, serviceVars, upsets, wire>>

--------------------------------------------------------------------------------
(* The service's side: handle.                                              *)

Upper == now + MaxError

\* #verifySession.
SessionHolds(q) ==
    LET reg == registries[RegistryOf[q.client]] IN
    /\ reg.session = SessionOf[q.client]
    /\ reg.token = q.expected.token
    /\ reg.lease > Upper

ClaimAllowed(q) ==
    /\ GrantEnd[q.grant] > Upper
    /\ \A h \in Grants : claimed[h] # None =>
          /\ AuthorizationOf[h] # AuthorizationOf[q.grant]
          /\ Authorized[h] \cap Authorized[q.grant] = {}

\* Mutant: the claim is not looked up.
ConsumeAllowedUnclaimed(q) ==
    /\ q.slot[1] \in Authorized[q.grant]
    /\ GrantEnd[q.grant] > Upper
    /\ q.slot \notin consumed
    /\ \A i \in 1..(q.slot[2] - 1) : <<q.slot[1], i>> \in consumed

ConsumeAllowed(q) ==
    /\ claimed[q.grant] = RegistryOf[q.client]
    /\ q.slot[1] \in Authorized[q.grant]
    /\ GrantEnd[q.grant] > Upper
    /\ q.slot \notin consumed
    /\ \A i \in 1..(q.slot[2] - 1) : <<q.slot[1], i>> \in consumed

AcquireAllowed(q) ==
    LET reg == registries[RegistryOf[q.client]] IN
    ~ (reg.session # None /\ reg.lease > Upper)

\* The checks of #applyMutation.
MutationAllowed(q) ==
    LET reg == registries[RegistryOf[q.client]] IN
    IF q.op = "register_registry"
    THEN reg = Unregistered
    ELSE /\ reg # Unregistered /\ q.expected = reg
         /\ q.op = "acquire_session" => AcquireAllowed(q)
         /\ q.op # "acquire_session" => SessionHolds(q)
         /\ q.op = "claim_authorization" => ClaimAllowed(q)
         /\ q.op = "consume_slot" => ConsumeAllowed(q)

\* The registry's row after it: session, token and lease.
Mutated(q) ==
    LET reg  == registries[RegistryOf[q.client]]
        next == [reg EXCEPT !.head = Append(@, <<q.id, now>>)]
    IN CASE q.op = "acquire_session" -> [next EXCEPT !.session = SessionOf[q.client],
                                                     !.token = @ + 1, !.lease = now + LeaseTime]
         [] q.op = "renew_session"   -> [next EXCEPT !.lease = now + LeaseTime]
         [] q.op = "release_session" -> [next EXCEPT !.session = None, !.lease = 0]
         [] OTHER                    -> next

Receipt(q, decision, error, previous, after) ==
    [request |-> q, decision |-> decision, error |-> error, time |-> now,
     previous |-> previous, after |-> after]

\* #storeRequest: the answer is kept and sent.
Answer(x) ==
    /\ stored' = stored \cup {x}
    /\ answers' = answers \cup {x}

\* A request that is neither known nor in conflict with one, at a service that
\* is available.
Decide(q) ==
    /\ ~fatal /\ now >= lastClock
    /\ \A x \in stored : x.request.id # q.id /\ x.request.key # q.key
    /\ RegistryOf[q.client] \notin quarantined
    /\ lastClock' = now
    /\ UNCHANGED <<now, fatal, quarantined, restarted, upsets, wire, clients>>

Commit(q) ==
    LET r == RegistryOf[q.client] IN
    /\ Decide(q)
    /\ TimeStatus(q, now) = "active"
    /\ q.op # "get_checkpoint" /\ MutationAllowed(q)
    /\ registries' = [registries EXCEPT ![r] = Mutated(q)]
    /\ claimed' = IF q.op = "claim_authorization" THEN [claimed EXCEPT ![q.grant] = r]
                                                  ELSE claimed
    /\ consumed' = IF q.op = "consume_slot" THEN consumed \cup {q.slot} ELSE consumed
    /\ Answer(Receipt(q, "committed", None, registries[r].head, Mutated(q)))

ReadAllowed(q) ==
    LET reg == registries[RegistryOf[q.client]] IN
    reg # Unregistered /\ q.expected \in {Unregistered, reg}

Observe(q) ==
    /\ Decide(q)
    /\ TimeStatus(q, now) = "active"
    /\ q.op = "get_checkpoint" /\ ReadAllowed(q)
    /\ Answer(Receipt(q, "observed", None, <<>>, registries[RegistryOf[q.client]]))
    /\ UNCHANGED stateVars

\* Mutant: a refusal is answered and forgotten.
RejectForgetting(q) ==
    LET status == TimeStatus(q, now) IN
    /\ Decide(q)
    /\ status = "active" => ~ IF q.op = "get_checkpoint" THEN ReadAllowed(q) ELSE MutationAllowed(q)
    /\ answers' = answers \cup
          {Receipt(q, "rejected", IF status = "active" THEN "refused" ELSE status,
                   <<>>, registries[RegistryOf[q.client]])}
    /\ UNCHANGED <<stateVars, stored>>

\* Mutant: a request that came too late or too early is refused as any other.
RejectUntimed(q) ==
    LET status == TimeStatus(q, now) IN
    /\ Decide(q)
    /\ status = "active" => ~ IF q.op = "get_checkpoint" THEN ReadAllowed(q) ELSE MutationAllowed(q)
    /\ Answer(Receipt(q, "rejected", "refused", <<>>, registries[RegistryOf[q.client]]))
    /\ UNCHANGED stateVars

Reject(q) ==
    LET status == TimeStatus(q, now) IN
    /\ Decide(q)
    /\ status = "active" => ~ IF q.op = "get_checkpoint" THEN ReadAllowed(q) ELSE MutationAllowed(q)
    /\ Answer(Receipt(q, "rejected", IF status = "active" THEN "refused" ELSE status,
                      <<>>, registries[RegistryOf[q.client]]))
    /\ UNCHANGED stateVars

\* #replayOrConflict: an exact repetition gets the stored bytes, which are under
\* way already; another request with a known id or key is not answered and ends
\* the work of its registry.
Conflict(q) ==
    /\ ~fatal
    /\ \A x \in stored : x.request # q
    /\ \E x \in stored : x.request.id = q.id \/ x.request.key = q.key
    /\ quarantined' = quarantined \cup {RegistryOf[q.client]}
    /\ UNCHANGED <<now, lastClock, fatal, stateVars, stored, restarted, upsets, answers, wire, clients>>

\* #readTrustedTime: a clock that ran backwards is fatal.
ClockFails(q) ==
    /\ ~fatal /\ now < lastClock
    /\ \A x \in stored : x.request.id # q.id /\ x.request.key # q.key
    /\ RegistryOf[q.client] \notin quarantined
    /\ fatal' = TRUE
    /\ UNCHANGED <<now, lastClock, stateVars, stored, quarantined, restarted, upsets, answers, wire, clients>>

Handle(q) == Commit(q) \/ Observe(q) \/ Reject(q) \/ Conflict(q) \/ ClockFails(q)

Empty ==
    /\ lastClock = 0 /\ fatal = FALSE
    /\ registries = [r \in Registries |-> Unregistered]
    /\ claimed = [g \in Grants |-> None]
    /\ consumed = {} /\ stored = {} /\ quarantined = {}

\* close, and a new service with the same keys.
Restart ==
    /\ Upset(1) /\ restarted' = TRUE
    /\ lastClock' = 0 /\ fatal' = FALSE
    /\ registries' = [r \in Registries |-> Unregistered]
    /\ claimed' = [g \in Grants |-> None]
    /\ consumed' = {} /\ stored' = {} /\ quarantined' = {}
    /\ UNCHANGED <<now, answers, wire, clients>>

ClockMoves ==
    /\ Upset(1) /\ now' \in 0..MaxTime
    /\ UNCHANGED <<serviceVars, wire, clients>>

Init ==
    /\ Empty
    /\ now = 0 /\ restarted = FALSE /\ upsets = 0 /\ wire = {} /\ answers = {}
    /\ clients = [c \in Clients |-> NewClient]

Next ==
    \/ \E c \in Clients : PrepareFresh(c) \/ PrepareAgain(c)
    \/ \E c \in Clients, x \in answers : Receive(c, x)
    \/ \E q \in wire : Handle(q)
    \/ Restart \/ ClockMoves

Spec == Init /\ [][Next]_vars

--------------------------------------------------------------------------------
(* Properties.                                                              *)

Checkpoints == [head : Seq(Ids \X (0..MaxTime)), session : Sessions \cup {None},
                token : Nat, lease : Nat]

TypeOK ==
    /\ now \in 0..MaxTime /\ lastClock \in 0..MaxTime /\ fatal \in BOOLEAN /\ upsets \in 0..MaxUpsets
    /\ \A r \in Registries : registries[r] \in Checkpoints
    /\ claimed \in [Grants -> Registries \cup {None}]
    /\ consumed \subseteq Slots
    /\ stored \subseteq answers
    /\ quarantined \subseteq Registries
    /\ \A c \in Clients : clients[c].seen \subseteq answers /\ clients[c].prepared \subseteq wire

Proves(x, s) == x.decision = "committed" /\ x.request.op = "consume_slot" /\ x.request.slot = s

\* Retrying is free: however often a request is repeated and in whatever order
\* the messages come, it has one answer, an idempotency key commits one request,
\* and a slot is bought with one proof, unless the service lost its memory.
RetriesAreFree ==
    ~restarted => \A x, y \in answers :
        /\ x.request = y.request => x = y
        /\ (x.request.key = y.request.key /\ x.decision = "committed"
              /\ y.decision = "committed") => x = y
        /\ (\E s \in Slots : Proves(x, s) /\ Proves(y, s)) => x = y

Extends(s, t) == Len(s) >= Len(t) /\ SubSeq(s, 1, Len(t)) = t

\* From the first checkpoint a client believed, everything in its registry's
\* history was its own doing: it stops believing the service as soon as another
\* process with its key, or a service that lost its memory, changed anything.
HistoriesAreOwn ==
    TypeOK /\ \A c \in Clients :
        /\ Extends(clients[c].last.head, clients[c].base)
        /\ \A i \in (Len(clients[c].base) + 1)..Len(clients[c].last.head) :
               \E x \in clients[c].seen :
                   x.decision = "committed" /\ <<x.request.id, x.time>> = clients[c].last.head[i]

Alone(c) == \A q \in wire : RegistryOf[q.client] = RegistryOf[c] => q \in clients[c].prepared

\* No false alarm: a client that works alone on its registry, one request at a
\* time, accepts every answer, however late it comes or often it was lost.
LoneClientsKeepUp ==
    ~restarted => \A c \in Clients : (Alone(c) /\ ~clients[c].hasty) =>
        \A x \in answers : x.request \in Unanswered(c) => Acceptable(c, x)

\* Until the service loses its memory it is an anchor.
Promise == INSTANCE AnchorPromise WITH
    owner <- claimed, spent <- consumed, Nobody <- None,
    fence <- [r \in Registries |-> registries[r].token],
    held  <- {r \in Registries : registries[r].session # None}

ImplementsPromise ==
    Promise!Init /\ [][restarted' \/ Promise!Next]_(Promise!promiseVars)
================================================================================
