------------------------------ MODULE LocalAnchor ------------------------------
(***************************************************************************)
(* The anchor of the live-shadow boundary: LocalAnchorStub of              *)
(* evaluation/live-shadow/local-anchor-stub.ts, the one party that cannot  *)
(* be copied or rolled back.                                               *)
(*                                                                         *)
(* Each method is one BEGIN IMMEDIATE transaction.  A caller passes the    *)
(* checkpoint it believes in, and the transaction compares it with the     *)
(* registry's row before anything else: an action is "the call commits",   *)
(* its ...Allowed operator is the conjunction of the method's checks, and  *)
(* a call that is not allowed throws and changes nothing.  A registry's    *)
(* events form one hash chain, so that the sequence number determines the  *)
(* head and stands for both.                                               *)
(***************************************************************************)
EXTENDS Integers, FiniteSets

CONSTANTS
    Registries,       \* authority registry ids
    Grants,           \* signed consents, identified by their fingerprint
    Executions,       \* execution ids
    Sessions,         \* session ids
    RegistryOf,       \* the registry a consent's runtime manifest names
    AuthorizationOf,  \* the authorization id a consent carries
    Authorized,       \* the executions a consent authorizes
    LastOrdinal,      \* how many slots an execution has: LIVE_CALL_SLOTS.length
    NoSession

ASSUME AnchorAssumption ==
    /\ Executions # {}
    /\ RegistryOf \in [Grants -> Registries]
    /\ Authorized \in [Grants -> SUBSET Executions]
    /\ LastOrdinal \in Nat \ {0}
    /\ NoSession \notin Sessions

VARIABLES
    anchor,    \* registries: a checkpoint each; sequence 0 = not registered
    claimed,   \* authorizations
    consumed   \* call_slots in state consumed

anchorVars == <<anchor, claimed, consumed>>

Keys         == Executions \X (1..LastOrdinal)
KeysOf(g)    == Authorized[g] \X (1..LastOrdinal)
Checkpoints  == [sequence : Nat, session : Sessions \cup {NoSession}, token : Nat]
Unregistered == [sequence |-> 0, session |-> NoSession, token |-> 0]

--------------------------------------------------------------------------------
\* #assertCheckpoint.
Matches(r, cp) == anchor[r].sequence > 0 /\ anchor[r] = cp

\* #appendEvent: every transaction moves the registry's sequence by one.
Append(r, session, token) ==
    anchor' = [anchor EXCEPT ![r] = [sequence |-> @.sequence + 1,
                                     session |-> session, token |-> token]]

RegisterRegistry(r) ==
    /\ anchor[r].sequence = 0
    /\ Append(r, NoSession, 0)
    /\ UNCHANGED <<claimed, consumed>>

\* Mutant: a session may be taken over.
AcquireAllowedAnyway(r, cp) == anchor[r].sequence > 0
AcquireAllowed(r, cp) == Matches(r, cp) /\ anchor[r].session = NoSession

AcquireSession(r, cp, s) ==
    /\ AcquireAllowed(r, cp)
    /\ Append(r, s, anchor[r].token + 1)
    /\ UNCHANGED <<claimed, consumed>>

\* Mutant: execution ids are not compared.
ClaimAllowedSharing(r, cp, g) ==
    Matches(r, cp) /\ \A h \in claimed : AuthorizationOf[h] # AuthorizationOf[g]

\* Over all registries, an authorization is claimed once and so is an execution.
ClaimAllowed(r, cp, g) ==
    /\ Matches(r, cp)
    /\ \A h \in claimed : /\ AuthorizationOf[h] # AuthorizationOf[g]
                          /\ Authorized[h] \cap Authorized[g] = {}

ClaimAuthorization(r, cp, g) ==
    /\ ClaimAllowed(r, cp, g)
    /\ Append(r, cp.session, cp.token)
    /\ claimed' = claimed \cup {g}
    /\ UNCHANGED consumed

ConsumeAllowed(r, cp, k) ==
    /\ Matches(r, cp)
    /\ \E g \in claimed : k \in KeysOf(g)
    /\ k \notin consumed
    /\ \A i \in 1..(k[2] - 1) : <<k[1], i>> \in consumed

ConsumeSlot(r, cp, k) ==
    /\ ConsumeAllowed(r, cp, k)
    /\ Append(r, cp.session, cp.token)
    /\ consumed' = consumed \cup {k}
    /\ UNCHANGED claimed

ReleaseAllowed(r, cp) == Matches(r, cp)

ReleaseSession(r, cp) ==
    /\ ReleaseAllowed(r, cp)
    /\ Append(r, NoSession, cp.token)
    /\ UNCHANGED <<claimed, consumed>>

AnchorInit ==
    /\ anchor = [r \in Registries |-> Unregistered]
    /\ claimed = {}
    /\ consumed = {}

AnchorTypeOK ==
    /\ anchor \in [Registries -> Checkpoints]
    /\ claimed \subseteq Grants
    /\ consumed \subseteq Keys
================================================================================
