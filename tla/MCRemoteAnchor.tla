---------------------------- MODULE MCRemoteAnchor -----------------------------
(***************************************************************************)
(* Instances of RemoteAnchor for TLC.                                      *)
(***************************************************************************)
EXTENDS RemoteAnchor

CONSTANTS r1, c1, c2, s1, s2, g1, a1, e1

\* Two processes with the key of one registry, and one consent.
SameRegistry == [c \in {c1, c2} |-> r1]
TwoSessions  == [c \in {c1, c2} |-> IF c = c1 THEN s1 ELSE s2]
OneAuthorization == [g \in {g1} |-> a1]
OneExecution == [g \in {g1} |-> {e1}]
\* The processes and their session ids may be exchanged together.
Swap == {[x \in {c1, c2, s1, s2} |-> x],
         [x \in {c1, c2, s1, s2} |-> CASE x = c1 -> c2 [] x = c2 -> c1
                                         [] x = s1 -> s2 [] x = s2 -> s1]}

LateEnd      == [g \in {g1} |-> 3]
================================================================================
