----------------------------- MODULE MCCollectorRun -----------------------------
(***************************************************************************)
(* Instances of CollectorRun for TLC.                                      *)
(***************************************************************************)
EXTENDS CollectorRun

CONSTANTS r1, a1, e1, e2

TheAuthOf     == [r \in {r1} |-> a1]
OneAuthorized == [a \in {a1} |-> {e1}]
TheAuthorized == [a \in {a1} |-> {e1, e2}]
TheCreatedAt  == [a \in {a1} |-> 0]
TheExpiresAt  == [a \in {a1} |-> 2]
================================================================================
