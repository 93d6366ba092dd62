-------------------------- MODULE CollectorRefinement --------------------------
(***************************************************************************)
(* CollectorLedger implements SendAuthority.                               *)
(***************************************************************************)
EXTENDS CollectorLedger

PhaseOf(state) == CASE state \in {"none", "planned"} -> "unspent"
                    [] state = "reserved"            -> "reserved"
                    [] state = "dispatched"          -> "sent"
                    [] state = "result"              -> "settled"
                    [] OTHER                         -> "void"

Authority == INSTANCE SendAuthority WITH
    home   <- grantOf,
    closed <- {r \in Rounds : status[r] \in TerminalStatuses},
    phase  <- [c \in Calls |-> PhaseOf(calls[c].state)]

\* Every ledger transaction is a step of the abstract authority or invisible to
\* it: requests are sent at most once, only in an open round, and a stop,
\* revocation, expiry, rollback or recovery withdraws unsent reservations
\* in its own transaction.
ImplementsSendAuthority == Authority!ASpec
================================================================================
