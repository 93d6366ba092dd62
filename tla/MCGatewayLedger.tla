---------------------------- MODULE MCGatewayLedger ----------------------------
(***************************************************************************)
(* Instances of GatewayLedger for TLC.                                     *)
(***************************************************************************)
EXTENDS GatewayLedger

CONSTANTS h1, h2, h3, b1, b2, q1, q2, o1, o2

\* Two challenges of one operation; h1 and h2 reuse a boot id.
TheBootOf      == [h \in {h1, h2} |-> b1]
TheOperationOf == [q \in {q1, q2} |-> o1]
TheExpires     == [q \in {q1, q2} |-> 2]

\* Three handles, two operations.
ThreeBootOf      == [h \in {h1, h2, h3} |-> IF h = h3 THEN b2 ELSE b1]
ThreeOperationOf == [q \in {q1, q2} |-> IF q = q1 THEN o1 ELSE o2]
ThreeExpires     == [q \in {q1, q2} |-> 1]
================================================================================
