---------------------------- MODULE PilotAccount -----------------------------
(***************************************************************************)
(* The two pilots on one account.  The adaptive pilot imports what the     *)
(* MVTec run and the first adaptive run consumed, and starts only while    *)
(* the MVTec ledger is at the revision the script pins (loadPriorUsage).   *)
(* Nothing keeps the MVTec script from going on afterwards.                *)
(***************************************************************************)
EXTENDS TokenBudget

CONSTANTS
  PilotCases, AdaptiveCases,  \* sequences of cases
  Uses, BatchSizes,
  Pin,                        \* [calls, plus, flash] of the pinned MVTec ledger
  FirstRun                    \* [Tiers -> Nat], the first adaptive run's usage

\* The manifest and SELECTED_CASES name no case twice; a case stands for one run's look
\* at it, so the runs share none.  What was imported leaves the account its red line.
ASSUME AccountAssumption ==
  /\ \A cases \in {PilotCases, AdaptiveCases} : DOMAIN cases \subseteq Nat /\ IsInjective(cases)
  /\ Range(PilotCases) \cap Range(AdaptiveCases) = {}
  /\ Uses \subseteq Nat
  /\ {Pin.plus, Pin.flash} \subseteq Nat /\ FirstRun \in [Tiers -> Nat]
  /\ \A t \in Tiers : Pin[t] + FirstRun[t] + RedLine <= Allowance

VARIABLES mledger, mresults, mproc, aledger, aresults, aproc, sent, used

vars == <<mledger, mresults, mproc, aledger, aresults, aproc, sent, used>>

Calls ==
  {Call(PilotCases[i], a, s) : i \in DOMAIN PilotCases, a \in 1..MaxAttempts,
                               s \in {"primary", "flash", "plus"}}
  \cup {Call(AdaptiveCases[i], 1, s) : i \in DOMAIN AdaptiveCases,
                                       s \in {"primary", "scout", "final"}}

Pinned ==
  /\ ~mledger.torn
  /\ Pending(mledger) = {}
  /\ Cardinality(mledger.reserved) = Pin.calls
  /\ \A t \in Tiers : SettledIn(mledger, t) = Pin[t]

PriorUsage ==
  [revision |-> IF Pinned THEN "pinned" ELSE "changed",
   plus |-> Pin.plus + FirstRun["plus"], flash |-> Pin.flash + FirstRun["flash"]]

Mvtec == INSTANCE MvtecPilot WITH
  Cases <- PilotCases, ledger <- mledger, results <- mresults, proc <- mproc

Adaptive == INSTANCE AdaptivePilot WITH
  Cases <- AdaptiveCases, ledger <- aledger, results <- aresults, proc <- aproc,
  prior <- PriorUsage

Init ==
  /\ Mvtec!Init /\ Adaptive!Init
  /\ sent = [c \in Calls |-> 0]
  /\ used = [c \in Calls |-> 0]

Next ==
  \/ Mvtec!Next /\ UNCHANGED <<aledger, aresults, aproc>>
  \/ Adaptive!Next /\ UNCHANGED <<mledger, mresults, mproc>>

Spec == Init /\ [][Next]_vars

------------------------------------------------------------------------------
\* A call leaves the machine at most once over every process there ever was,
\* and only after its reservation is on disk.
SentOnce ==
  \A c \in Calls :
    /\ sent[c] <= 1
    /\ sent[c] = 1 => c \in mledger.reserved \cup aledger.reserved

\* A recorded result stands on calls that all left and settled for what they
\* consumed.
ResultsArePaid ==
  /\ \A row \in aresults.rows :
       \A c \in aledger.reserved : c.case = row.case =>
         c \in DOMAIN aledger.settled /\ aledger.settled[c] = used[c]
  /\ \A row \in mresults.rows :
       \A c \in mledger.reserved : c.case = row.case =>
         c \in DOMAIN mledger.settled /\ mledger.settled[c] = used[c]

RequestsAreCovered == SentOnce /\ ResultsArePaid

\* What the pilots really consumed of a tier, a call without a settlement
\* counted at no more than its reservation.
Consumed(ledger, t) ==
  SumFunction([c \in OfTier(ledger.reserved, t) |->
                 IF c \in DOMAIN ledger.settled \/ used[c] <= Reserve
                 THEN used[c] ELSE Reserve])

Overruns(ledger, t) ==
  {c \in OfTier(ledger.reserved, t) : used[c] > Reserve}

\* Whatever the provider charges, a run consumes no more than its caps, and
\* while the MVTec ledger is the imported one the account keeps its red line,
\* but for the excess of one call per tier and run over its reservation.
RedLineHolds ==
  \A t \in Tiers :
    /\ Consumed(mledger, t) <= PilotCap[t]
    /\ Consumed(aledger, t) <= AdaptiveCap[t]
    /\ Pinned =>
         Consumed(mledger, t) + FirstRun[t] + Consumed(aledger, t) + RedLine <= Allowance
    /\ Cardinality(Overruns(mledger, t)) <= 1
    /\ Cardinality(Overruns(aledger, t)) <= 1

\* What the pilots spend was reserved, recorded and within their caps.
SpendingIsCovered == RequestsAreCovered /\ RedLineHolds

\* The pending calls a live process still answers for.
Mine(case, slots) == {c \in Calls : c.case = case /\ c.slot \in slots}

AdaptiveOwn ==
  IF aproc.pc \in {"observe", "verify"}
  THEN Mine(Adaptive!Case, aproc.expected \cup aproc.flying \cup aproc.failed) ELSE {}

MvtecOwn ==
  IF mproc.pc = "call" /\ mproc.flying THEN Mine(Mvtec!Case, {mproc.asked}) ELSE {}

Doubtful(ledger, results, own) ==
  \/ ledger.torn \/ results.torn
  \/ \E row \in results.rows : row.stop
  \/ Pending(ledger) \ own # {}

\* While a pilot's files hold a safety stop, a torn line or a pending call that
\* no live process answers for, that pilot sends nothing: not the process that
\* lost the call, and not one started later.
DoubtIsQuiet ==
  [][\A c \in Calls : sent'[c] # sent[c] =>
       IF c \in mledger'.reserved
       THEN ~Doubtful(mledger, mresults, MvtecOwn)
       ELSE ~Doubtful(aledger, aresults, AdaptiveOwn)]_vars
==============================================================================
