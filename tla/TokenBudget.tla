----------------------------- MODULE TokenBudget -----------------------------
(***************************************************************************)
(* The token ledgers of the two pilot scripts: what the budget modules     *)
(* src/evaluation/pilot/adaptive-token-budget.ts and token-budget.ts       *)
(* accept.  A ledger file is a list of reserve and settle lines, appended  *)
(* by one process at a time; it is modelled by what its readers compute    *)
(* from it: the calls reserved, the tokens settled for some of them, and   *)
(* whether its last line is torn.  A call names its case, its attempt and  *)
(* its slot; the model tier follows from the slot.                         *)
(***************************************************************************)
EXTENDS Integers, FiniteSets, FiniteSetsExt, Functions, Sequences

CONSTANTS
  Reserve,           \* tokens charged for a call before its answer is known
  Allowance,         \* tokens per tier the account starts with
  RedLine,           \* tokens per tier that must remain
  AdaptiveCap,       \* [Tiers -> Nat], what one adaptive run may be charged
  AdaptiveMaxCalls,  \* calls in one adaptive run
  PilotCap,          \* [Tiers -> Nat], what the MVTec run may be charged
  PilotMaxCalls,     \* calls in the MVTec run
  MaxAttempts        \* attempts per case of the MVTec run

Tiers == {"plus", "flash"}

\* The caps of the MVTec run leave the red line, so that assertPilotReserveLeavesRedLine of
\* token-budget.ts never throws where the caps hold.
ASSUME BudgetAssumption ==
  /\ Reserve \in Nat \ {0} /\ {Allowance, RedLine} \subseteq Nat
  /\ AdaptiveCap \in [Tiers -> Nat] /\ PilotCap \in [Tiers -> Nat]
  /\ \A t \in Tiers : PilotCap[t] + RedLine <= Allowance

AdaptiveOrder == <<"primary", "scout", "final">>
PilotOrder == <<"primary", "flash", "plus">>

Tier(slot) == IF slot \in {"scout", "flash"} THEN "flash" ELSE "plus"

Call(case, attempt, slot) == [case |-> case, attempt |-> attempt, slot |-> slot]

EmptyLedger == [reserved |-> {}, settled |-> <<>>, torn |-> FALSE]

Pending(ledger) == ledger.reserved \ DOMAIN ledger.settled

\* An unsettled call is charged its whole reservation.
Charge(ledger, c) ==
  IF c \in DOMAIN ledger.settled THEN ledger.settled[c] ELSE Reserve

OfTier(calls, t) == {c \in calls : Tier(c.slot) = t}

Charged(ledger, t) ==
  SumFunction([c \in OfTier(ledger.reserved, t) |-> Charge(ledger, c)])

SettledIn(ledger, t) ==
  SumFunctionOnSet(ledger.settled, OfTier(DOMAIN ledger.settled, t))

Reserving(ledger, calls) == [ledger EXCEPT !.reserved = @ \cup calls]
Settling(ledger, c, total) ==
  [ledger EXCEPT !.settled = [d \in {c} \cup DOMAIN ledger.settled |->
                                IF d = c THEN total ELSE ledger.settled[d]]]

SlotsReserved(ledger, case, attempt) ==
  {c.slot : c \in {d \in ledger.reserved : d.case = case /\ d.attempt = attempt}}

\* A reserve line must name the next slot of its attempt.
NextInOrder(ledger, c, order) ==
  \E i \in 1..Len(order) :
    /\ order[i] = c.slot
    /\ SlotsReserved(ledger, c.case, c.attempt) = {order[j] : j \in 1..(i - 1)}

------------------------------------------------------------------------------
(* The adaptive ledger. *)

AdaptiveSummaryHolds(ledger, prior) ==
  /\ Cardinality(ledger.reserved) <= AdaptiveMaxCalls
  /\ \A t \in Tiers :
       /\ Charged(ledger, t) <= AdaptiveCap[t]
       /\ Allowance - prior[t] - Charged(ledger, t) >= RedLine

Observers(case) == {Call(case, 1, "primary"), Call(case, 1, "scout")}

\* Mutant: the caps are checked on the ledger as it stood.
InitialAllowedLate(ledger, prior, case) ==
  /\ Pending(ledger) = {}
  /\ SlotsReserved(ledger, case, 1) = {}
  /\ AdaptiveSummaryHolds(ledger, prior)

\* Primary and scout are reserved together, before either is sent.
InitialAllowed(ledger, prior, case) ==
  /\ Pending(ledger) = {}
  /\ SlotsReserved(ledger, case, 1) = {}
  /\ AdaptiveSummaryHolds(Reserving(ledger, Observers(case)), prior)

FinalAllowed(ledger, prior, case) ==
  /\ Pending(ledger) = {}
  /\ SlotsReserved(ledger, case, 1) = {"primary", "scout"}
  /\ AdaptiveSummaryHolds(Reserving(ledger, {Call(case, 1, "final")}), prior)

AdaptiveSettleAllowed(ledger, prior, c, total) ==
  /\ c \in Pending(ledger)
  /\ total \in 1..Reserve
  /\ AdaptiveSummaryHolds(Settling(ledger, c, total), prior)

------------------------------------------------------------------------------
(* The MVTec pilot's ledger. *)

PilotSummaryHolds(ledger) ==
  /\ Cardinality(ledger.reserved) <= PilotMaxCalls
  /\ \A t \in Tiers : Charged(ledger, t) <= PilotCap[t]

ReservationAllowed(ledger, c) ==
  /\ Pending(ledger) = {}
  /\ c.attempt \in 1..MaxAttempts
  /\ c \notin ledger.reserved
  /\ c.attempt > 1 => SlotsReserved(ledger, c.case, c.attempt - 1) # {}
  /\ NextInOrder(ledger, c, PilotOrder)
  /\ PilotSummaryHolds(Reserving(ledger, {c}))

PilotSettleAllowed(ledger, c, total) ==
  /\ Pending(ledger) = {c}
  /\ total \in 1..Reserve
  /\ PilotSummaryHolds(Settling(ledger, c, total))
==============================================================================
