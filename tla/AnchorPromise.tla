----------------------------- MODULE AnchorPromise -----------------------------
(***************************************************************************)
(* What an anchor promises to the authorities that rely on it, whatever    *)
(* the calls, the processes and the messages that carry them: a consent    *)
(* and each of its executions belong to one registry for good, a slot is   *)
(* spent once, in order, by the registry that owns it and while it has a   *)
(* session, and every session of a registry has a token of its own.        *)
(*                                                                         *)
(* Both anchors implement it: the local one under AuthorityRegistry, and   *)
(* RemoteAnchor as long as the service keeps its memory.                   *)
(***************************************************************************)
EXTENDS Integers

CONSTANTS Registries, Grants, Executions, Authorized, LastOrdinal, Nobody

VARIABLES
    owner,  \* the registry of a consent, or Nobody
    spent,  \* slots of executions
    fence,  \* per registry, the token of its last session
    held    \* the registries that have a session

promiseVars == <<owner, spent, fence, held>>

Slots == Executions \X (1..LastOrdinal)

Init ==
    /\ owner = [g \in Grants |-> Nobody]
    /\ spent = {}
    /\ fence = [r \in Registries |-> 0]
    /\ held = {}

Open(r) ==
    /\ fence' = [fence EXCEPT ![r] = @ + 1]
    /\ held' = held \cup {r}
    /\ UNCHANGED <<owner, spent>>

Release(r) ==
    /\ r \in held
    /\ held' = held \ {r}
    /\ UNCHANGED <<owner, spent, fence>>

Claim(r, g) ==
    /\ r \in held
    /\ owner[g] = Nobody
    /\ \A h \in Grants : owner[h] # Nobody => Authorized[h] \cap Authorized[g] = {}
    /\ owner' = [owner EXCEPT ![g] = r]
    /\ UNCHANGED <<spent, fence, held>>

Spend(r, s) ==
    /\ r \in held
    /\ \E g \in Grants : owner[g] = r /\ s[1] \in Authorized[g]
    /\ s \notin spent
    /\ \A i \in 1..(s[2] - 1) : <<s[1], i>> \in spent
    /\ spent' = spent \cup {s}
    /\ UNCHANGED <<owner, fence, held>>

Next ==
    \E r \in Registries :
        \/ Open(r) \/ Release(r)
        \/ \E g \in Grants : Claim(r, g)
        \/ \E s \in Slots : Spend(r, s)

Spec == Init /\ [][Next]_promiseVars
================================================================================
