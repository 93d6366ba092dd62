----------------------------- MODULE SendAuthority -----------------------------
(***************************************************************************)
(* What the collector ledger promises about provider requests, with        *)
(* everything else left out: a call slot belongs to at most one round, is  *)
(* reserved and then sent at most once and only while its round is open,   *)
(* and closing a round withdraws, in the same step, every reservation that *)
(* was not sent.  A sent call is settled later, open round or not.         *)
(*                                                                         *)
(* CollectorLedger implements it (see CollectorRefinement).                *)
(***************************************************************************)
CONSTANTS Rounds, Executions, Slots, NoRound

VARIABLES
    home,    \* the round an execution was enlisted in
    closed,  \* the rounds that ended
    phase    \* of every call slot: unspent, reserved, sent, settled or void

avars == <<home, closed, phase>>

Calls == Executions \X Slots
Open(c) == home[c[1]] \in Rounds \ closed

GivenUp(p) == CASE p \in {"unspent", "reserved"} -> "void"
                [] p = "sent"                    -> "settled"
                [] OTHER                         -> p

Enlist(r) ==
    /\ r \notin closed
    /\ \A e \in Executions : home[e] # r
    /\ home' = [e \in Executions |-> home'[e]]
    /\ \A e \in Executions : home'[e] # home[e] => home[e] = NoRound /\ home'[e] = r
    /\ UNCHANGED <<closed, phase>>

Reserve(c) ==
    /\ Open(c) /\ phase[c] = "unspent"
    /\ phase' = [phase EXCEPT ![c] = "reserved"]
    /\ UNCHANGED <<home, closed>>

Send(c) ==
    /\ Open(c) /\ phase[c] = "reserved"
    /\ phase' = [phase EXCEPT ![c] = "sent"]
    /\ UNCHANGED <<home, closed>>

Settle(c) ==
    /\ phase[c] = "sent"
    /\ phase' = [phase EXCEPT ![c] = "settled"]
    /\ UNCHANGED <<home, closed>>

\* Some rounds close (possibly none) and some calls are given up; a closed
\* round keeps no reservation.
Withdraw ==
    /\ closed \subseteq closed' /\ closed' \subseteq Rounds
    /\ phase' = [c \in Calls |-> phase'[c]]
    /\ \A c \in Calls : /\ phase'[c] \in {phase[c], GivenUp(phase[c])}
                        /\ home[c[1]] \in closed' => phase'[c] # "reserved"
    /\ UNCHANGED home

AInit ==
    /\ home = [e \in Executions |-> NoRound]
    /\ closed = {}
    /\ phase = [c \in Calls |-> "unspent"]

ANext ==
    \/ \E r \in Rounds : Enlist(r)
    \/ \E c \in Calls : Reserve(c) \/ Send(c) \/ Settle(c)
    \/ Withdraw

ASpec == AInit /\ [][ANext]_avars
================================================================================
