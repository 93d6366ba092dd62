--------------------------- MODULE MCCollectorLedger ---------------------------
(***************************************************************************)
(* Instances of CollectorLedger for TLC.                                   *)
(***************************************************************************)
EXTENDS CollectorRefinement

CONSTANTS r1, r2, r3, a1, a2, e1, e2

\* One round of one execution; the clock jumps among four instants.
OneAuthOf     == [r \in {r1} |-> a1]
OneAuthorized == [a \in {a1} |-> {e1}]
OneCreatedAt  == [a \in {a1} |-> 0]
OneExpiresAt  == [a \in {a1} |-> 3]

\* r1 and r2 name the same grant, and the grant of r3 lists two executions, one of
\* which theirs lists too.
SharedAuthOf     == [r \in {r1, r2, r3} |-> IF r = r3 THEN a2 ELSE a1]
SharedAuthorized == [a \in {a1, a2} |-> IF a = a1 THEN {e1} ELSE {e1, e2}]
SharedCreatedAt  == [a \in {a1, a2} |-> 0]
SharedExpiresAt  == [a \in {a1, a2} |-> 1]
================================================================================
