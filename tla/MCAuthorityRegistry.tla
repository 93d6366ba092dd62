-------------------------- MODULE MCAuthorityRegistry --------------------------
(***************************************************************************)
(* Instances of AuthorityRegistry for TLC.                                 *)
(***************************************************************************)
EXTENDS AuthorityRegistry

CONSTANTS r1, r2, f1, f2, h1, h2, h3, g1, g2, a1, a2, e1, e2, s1

\* Two processes on one file and one on its copy, all with one session id.
OneRegistryOf      == [g \in {g1} |-> r1]
OneAuthorizationOf == [g \in {g1} |-> a1]
PairAuthorized     == [g \in {g1} |-> {e1, e2}]
CloneRegistry      == [f \in {f1, f2} |-> r1]
CloneFileOf        == [h \in {h1, h2, h3} |-> IF h = h3 THEN f2 ELSE f1]
SameSession        == [h \in {h1, h2, h3} |-> s1]

\* Two processes on the file of one registry and one on that of another, and two
\* consents that share an execution id.
CleanRegistry        == [f \in {f1, f2} |-> IF f = f1 THEN r1 ELSE r2]
RivalRegistryOf      == [g \in {g1, g2} |-> IF g = g1 THEN r1 ELSE r2]
RivalAuthorizationOf == [g \in {g1, g2} |-> IF g = g1 THEN a1 ELSE a2]
RivalAuthorized      == [g \in {g1, g2} |-> IF g = g1 THEN {e1} ELSE {e1, e2}]
================================================================================
