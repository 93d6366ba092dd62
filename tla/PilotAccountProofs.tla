------------------------- MODULE PilotAccountProofs --------------------------
(***************************************************************************)
(* Theorems about the pilots on one account, for every list of cases,      *)
(* consumption, cap and reservation, and deaths at any step of a process.  *)
(***************************************************************************)
EXTENDS PilotAccount, FiniteSetTheorems, WellFoundedInduction, TLAPS

--------------------------------------------------------------------------------
(* Sums.  The library's induction takes a predicate as a parameter; here it  *)
(* is the least bad subset that leads to a contradiction.                    *)

\* Induction over the subsets of a finite set: if one is bad, one is bad and no smaller is.
LEMMA SmallestSet ==
  ASSUME NEW S, IsFiniteSet(S), NEW Bad \in SUBSET (SUBSET S), Bad # {}
  PROVE  \E U \in Bad : \A V \in Bad : V \subseteq U => V = U
<1>1. IsWellFoundedOn(StrictSubsetOrdering(S), SUBSET S)
  BY FS_StrictSubsetOrderingWellFounded, FS_FiniteSubsetsOfFinite
<1>2. PICK U \in Bad : \A V \in Bad : <<V, U>> \notin StrictSubsetOrdering(S)
  BY <1>1, WFMin
<1>3. QED
  BY <1>2 DEF StrictSubsetOrdering

Pick(s) == CHOOSE x \in s : TRUE
Sums(f, g, U) ==
  g = [s \in SUBSET U |-> IF s = {} THEN 0 ELSE f[Pick(s)] + g[s \ {Pick(s)}]]

LEMMA SumsOnSubset ==
  ASSUME NEW f, NEW g, NEW U, Sums(f, g, U), NEW V \in SUBSET U
  PROVE  Sums(f, [s \in SUBSET V |-> g[s]], V)
<1> DEFINE h == [s \in SUBSET V |-> g[s]]
<1>1. \A s \in SUBSET V : s # {} => h[s \ {Pick(s)}] = g[s \ {Pick(s)}]
  OBVIOUS
<1>2. \A s \in SUBSET V : h[s] = IF s = {} THEN 0 ELSE f[Pick(s)] + g[s \ {Pick(s)}]
  BY DEF Sums
<1>3. QED
  BY <1>1, <1>2 DEF Sums

LEMMA SumsUnique ==
  ASSUME NEW f, NEW S, IsFiniteSet(S), NEW g, NEW h, Sums(f, g, S), Sums(f, h, S)
  PROVE  g = h
<1> DEFINE Bad == {U \in SUBSET S : g[U] # h[U]}
<1>1. ASSUME Bad # {} PROVE FALSE
  <2>1. Bad \in SUBSET (SUBSET S)
    OBVIOUS
  <2>2. PICK U \in Bad : \A V \in Bad : V \subseteq U => V = U
    <3> HIDE DEF Bad
    <3> QED BY <1>1, <2>1, SmallestSet
  <2>3. U # {}
    BY DEF Sums
  <2>4. Pick(U) \in U /\ U \ {Pick(U)} \in SUBSET S
    BY <2>3 DEF Pick
  <2>5. U \ {Pick(U)} \notin Bad
    BY <2>2, <2>4
  <2> QED
    BY <2>3, <2>4, <2>5 DEF Sums
<1>2. \A U \in SUBSET S : g[U] = h[U]
  BY <1>1
<1> QED
  BY <1>2 DEF Sums

LEMMA SumsExist ==
  ASSUME NEW f, NEW S, IsFiniteSet(S)
  PROVE  \E g : Sums(f, g, S)
<1> DEFINE Bad == {U \in SUBSET S : ~ \E g : Sums(f, g, U)}
<1>1. ASSUME Bad # {} PROVE FALSE
  <2>1. Bad \in SUBSET (SUBSET S)
    OBVIOUS
  <2>2. PICK U \in Bad : \A V \in Bad : V \subseteq U => V = U
    <3> HIDE DEF Bad
    <3> QED BY <1>1, <2>1, SmallestSet
  <2> DEFINE G(V) == CHOOSE g : Sums(f, g, V)
             h == [s \in SUBSET U |->
                     IF s = {} THEN 0 ELSE f[Pick(s)] + G(s \ {Pick(s)})[s \ {Pick(s)}]]
  <2>3. \A V \in SUBSET U : V # U => Sums(f, G(V), V)
    BY <2>2
  <2>4. \A V \in SUBSET U : \A W \in SUBSET V : V # U => G(V)[W] = G(W)[W]
    <3> TAKE V \in SUBSET U
    <3> TAKE W \in SUBSET V
    <3> HAVE V # U
    <3>1. IsFiniteSet(W) /\ W \in SUBSET U /\ W # U
      BY FS_Subset
    <3>2. Sums(f, G(V), V) /\ Sums(f, G(W), W)
      BY <2>3, <3>1
    <3> HIDE DEF G
    <3>3. Sums(f, [s \in SUBSET W |-> G(V)[s]], W)
      BY <3>2, SumsOnSubset
    <3>4. [s \in SUBSET W |-> G(V)[s]] = G(W)
      BY <3>1, <3>2, <3>3, SumsUnique
    <3>5. [s \in SUBSET W |-> G(V)[s]][W] = G(V)[W]
      OBVIOUS
    <3> QED
      BY <3>4, <3>5
  <2>5. ASSUME NEW s \in SUBSET U, s # {}, NEW t, t = s \ {Pick(s)}
        PROVE  h[t] = G(t)[t]
    <3>1. t \in SUBSET U /\ t # U /\ Pick(s) \in s
      BY <2>5 DEF Pick
    <3>2. Sums(f, G(t), t) /\ \A W \in SUBSET t : G(t)[W] = G(W)[W]
      BY <2>3, <2>4, <3>1
    <3> HIDE DEF G
    <3>3. CASE t = {}
      BY <3>1, <3>2, <3>3 DEF Sums
    <3>4. CASE t # {}
      <4>1. t \ {Pick(t)} \in SUBSET t
        OBVIOUS
      <4> QED
        BY <3>1, <3>2, <3>4, <4>1 DEF Sums
    <3> QED BY <3>3, <3>4
  <2>6. \A s \in SUBSET U : h[s] = IF s = {} THEN 0 ELSE f[Pick(s)] + h[s \ {Pick(s)}]
    <3> TAKE s \in SUBSET U
    <3>1. s # {} => h[s \ {Pick(s)}] = G(s \ {Pick(s)})[s \ {Pick(s)}]
      BY <2>5
    <3> HIDE DEF G
    <3> QED BY <3>1
  <2>7. Sums(f, h, U)
    <3> HIDE DEF G
    <3>1. h = [s \in SUBSET U |-> h[s]]
      OBVIOUS
    <3> HIDE DEF h
    <3> QED BY <2>6, <3>1 DEF Sums
  <2> QED BY <2>7
<1> QED
  BY <1>1

\* What the fold computes.
LEMMA SumIs ==
  ASSUME NEW f, NEW S, IsFiniteSet(S)
  PROVE  \E g : Sums(f, g, S) /\ SumFunctionOnSet(f, S) = g[S]
<1>1. PICK g : Sums(f, g, S)
  BY SumsExist
<1>2. (CHOOSE h : Sums(f, h, S)) = g
  BY <1>1, SumsUnique
<1>3. SumFunctionOnSet(f, S) = (CHOOSE h : Sums(f, h, S))[S]
  BY DEF SumFunctionOnSet, FoldFunctionOnSet, MapThenFoldSet, Sums, Pick
<1> QED BY <1>1, <1>2, <1>3

Counts(f, S) == \A x \in S : f[x] \in Nat

LEMMA SumsNat ==
  ASSUME NEW f, NEW S, IsFiniteSet(S), NEW g, Sums(f, g, S), Counts(f, S)
  PROVE  \A U \in SUBSET S : g[U] \in Nat
<1> DEFINE Bad == {U \in SUBSET S : g[U] \notin Nat}
<1>1. ASSUME Bad # {} PROVE FALSE
  <2>1. Bad \in SUBSET (SUBSET S)
    OBVIOUS
  <2>2. PICK U \in Bad : \A V \in Bad : V \subseteq U => V = U
    <3> HIDE DEF Bad
    <3> QED BY <1>1, <2>1, SmallestSet
  <2>3. U # {}
    BY DEF Sums
  <2>4. Pick(U) \in U /\ U \ {Pick(U)} \in SUBSET S
    BY <2>3 DEF Pick
  <2>5. U \ {Pick(U)} \notin Bad
    BY <2>2, <2>4
  <2>6. f[Pick(U)] \in Nat
    BY <2>4 DEF Counts
  <2>7. g[U] = f[Pick(U)] + g[U \ {Pick(U)}]
    BY <2>3 DEF Sums
  <2>8. g[U \ {Pick(U)}] \in Nat
    BY <2>4, <2>5
  <2>9. g[U] \in Nat
    BY <2>6, <2>7, <2>8
  <2> QED
    BY <2>9
<1> QED
  BY <1>1

LEMMA SumsRemove ==
  ASSUME NEW f, NEW S, IsFiniteSet(S), NEW g, Sums(f, g, S), Counts(f, S)
  PROVE  \A U \in SUBSET S : \A x \in U : g[U] = f[x] + g[U \ {x}]
<1> DEFINE Bad == {U \in SUBSET S : \E x \in U : g[U] # f[x] + g[U \ {x}]}
<1>1. ASSUME Bad # {} PROVE FALSE
  <2>1. Bad \in SUBSET (SUBSET S)
    OBVIOUS
  <2>2. PICK U \in Bad : \A V \in Bad : V \subseteq U => V = U
    <3> HIDE DEF Bad
    <3> QED BY <1>1, <2>1, SmallestSet
  <2>3. PICK x \in U : g[U] # f[x] + g[U \ {x}]
    OBVIOUS
  <2>4. PICK y \in U : y = Pick(U)
    BY DEF Pick
  <2>5. g[U] = f[y] + g[U \ {y}]
    BY <2>4 DEF Sums
  <2>6. x # y
    BY <2>3, <2>5
  <2>7. g[U \ {y}] = f[x] + g[(U \ {y}) \ {x}]
    <3>1. U \ {y} \notin Bad /\ x \in U \ {y} /\ U \ {y} \in SUBSET S
      BY <2>2, <2>6
    <3> QED BY <3>1
  <2>8. g[U \ {x}] = f[y] + g[(U \ {x}) \ {y}]
    <3>1. U \ {x} \notin Bad /\ y \in U \ {x} /\ U \ {x} \in SUBSET S
      BY <2>2, <2>6
    <3> QED BY <3>1
  <2>9. (U \ {x}) \ {y} = (U \ {y}) \ {x} /\ (U \ {x}) \ {y} \in SUBSET S
    OBVIOUS
  <2>10. f[x] \in Nat /\ f[y] \in Nat /\ g[(U \ {y}) \ {x}] \in Nat
    BY <2>9, SumsNat DEF Counts
  <2>11. PICK r \in Nat : r = g[(U \ {y}) \ {x}]
    BY <2>10
  <2>12. g[U \ {y}] = f[x] + r /\ g[U \ {x}] = f[y] + r
    BY <2>7, <2>8, <2>9, <2>11
  <2>13. f[y] + (f[x] + r) = f[x] + (f[y] + r)
    BY <2>10, <2>11
  <2> QED
    BY <2>3, <2>5, <2>12, <2>13
<1> QED
  BY <1>1

LEMMA SumNat ==
  ASSUME NEW f, NEW S, IsFiniteSet(S), Counts(f, S)
  PROVE  SumFunctionOnSet(f, S) \in Nat
  BY SumIs, SumsNat

LEMMA SumEmpty ==
  ASSUME NEW f
  PROVE  SumFunctionOnSet(f, {}) = 0
<1>1. PICK g : Sums(f, g, {}) /\ SumFunctionOnSet(f, {}) = g[{}]
  BY SumIs, FS_EmptySet
<1> QED BY <1>1 DEF Sums

LEMMA SumRemove ==
  ASSUME NEW f, NEW S, IsFiniteSet(S), Counts(f, S), NEW x \in S
  PROVE  SumFunctionOnSet(f, S) = f[x] + SumFunctionOnSet(f, S \ {x})
<1>1. PICK g : Sums(f, g, S) /\ SumFunctionOnSet(f, S) = g[S]
  BY SumIs
<1> DEFINE T == S \ {x}
           h == [s \in SUBSET T |-> g[s]]
<1>2. IsFiniteSet(T) /\ T \in SUBSET S
  BY FS_Subset
<1>3. Sums(f, h, T)
  BY <1>1, <1>2, SumsOnSubset
<1>4. PICK k : Sums(f, k, T) /\ SumFunctionOnSet(f, T) = k[T]
  BY <1>2, SumIs
<1>5. k = h
  <2> HIDE DEF h, T
  <2> QED BY <1>2, <1>3, <1>4, SumsUnique
<1>6. h[T] = g[T]
  OBVIOUS
<1>7. g[S] = f[x] + g[S \ {x}]
  BY <1>1, SumsRemove
<1> QED
  BY <1>1, <1>4, <1>5, <1>6, <1>7

\* A smaller set, and smaller amounts, have a smaller sum.
LEMMA SumMonotone ==
  ASSUME NEW f, NEW g, NEW S, NEW T, IsFiniteSet(T), S \subseteq T, Counts(f, S), Counts(g, T),
         \A x \in S : f[x] <= g[x]
  PROVE  SumFunctionOnSet(f, S) <= SumFunctionOnSet(g, T)
<1> DEFINE F(U) == SumFunctionOnSet(f, U \cap S)
           H(U) == SumFunctionOnSet(g, U)
           Bad == {U \in SUBSET T : ~(F(U) <= H(U))}
<1>1. ASSUME Bad # {} PROVE FALSE
  <2>1. Bad \in SUBSET (SUBSET T)
    OBVIOUS
  <2>2. PICK U \in Bad : \A V \in Bad : V \subseteq U => V = U
    <3> HIDE DEF Bad
    <3> QED BY <1>1, <2>1, SmallestSet
  <2>3. U # {}
    <3>1. SUFFICES ASSUME U = {} PROVE F(U) = 0 /\ H(U) = 0
      OBVIOUS
    <3>2. U \cap S = {}
      BY <3>1
    <3> QED BY <3>1, <3>2, SumEmpty
  <2>4. PICK x \in U : TRUE
    BY <2>3
  <2>5. U \ {x} \in SUBSET T /\ F(U \ {x}) <= H(U \ {x})
    BY <2>2
  <2>6. /\ IsFiniteSet(U) /\ IsFiniteSet(U \cap S)
        /\ IsFiniteSet(U \ {x}) /\ IsFiniteSet((U \ {x}) \cap S)
    BY FS_Subset
  <2>7. /\ Counts(g, U) /\ Counts(g, U \ {x})
        /\ Counts(f, U \cap S) /\ Counts(f, (U \ {x}) \cap S)
    BY DEF Counts
  <2>8. /\ H(U) \in Nat /\ H(U \ {x}) \in Nat
        /\ F(U) \in Nat /\ F(U \ {x}) \in Nat
    BY <2>6, <2>7, SumNat
  <2>9. H(U) = g[x] + H(U \ {x}) /\ g[x] \in Nat
    BY <2>4, <2>6, <2>7, SumRemove DEF Counts
  <2>10. CASE x \in S
    <3>1. (U \cap S) \ {x} = (U \ {x}) \cap S /\ x \in U \cap S
      BY <2>10
    <3>2. SumFunctionOnSet(f, U \cap S) = f[x] + SumFunctionOnSet(f, (U \cap S) \ {x})
      BY <2>6, <2>7, <3>1, SumRemove
    <3>3. F(U) = f[x] + F(U \ {x}) /\ f[x] \in Nat /\ f[x] <= g[x]
      BY <2>10, <3>1, <3>2 DEF Counts
    <3>4. F(U) <= H(U)
      <4> HIDE DEF F, H
      <4> QED BY <2>5, <2>8, <2>9, <3>3
    <3> QED BY <3>4
  <2>11. CASE x \notin S
    <3>1. (U \ {x}) \cap S = U \cap S
      BY <2>11
    <3>2. F(U) = F(U \ {x})
      BY <3>1
    <3>3. F(U) <= H(U)
      <4> HIDE DEF F, H
      <4> QED BY <2>5, <2>8, <2>9, <3>2
    <3> QED BY <3>3
  <2> QED BY <2>10, <2>11
<1>2. F(T) <= H(T)
  BY <1>1
<1>3. T \cap S = S
  OBVIOUS
<1> QED
  BY <1>2, <1>3
--------------------------------------------------------------------------------
(* The inductive invariant.                                                 *)

PilotCalls ==
  {Call(PilotCases[i], a, s) : i \in DOMAIN PilotCases, a \in 1..MaxAttempts,
                               s \in {"primary", "flash", "plus"}}
AdaptiveCalls ==
  {Call(AdaptiveCases[i], 1, s) : i \in DOMAIN AdaptiveCases,
                                  s \in {"primary", "scout", "final"}}

\* What a ledger file of the calls `own` holds, when sn left and used us: what is settled
\* was reserved, settled for what it used, and within the reservation; a call leaves once and
\* after its reservation; the caps hold, and of each tier one call at most is pending.
BookHolds(L, own, cap, sn, us) ==
  /\ L = [reserved |-> L.reserved, settled |-> L.settled, torn |-> L.torn]
  /\ L.torn \in BOOLEAN
  /\ L.reserved \subseteq own /\ IsFiniteSet(L.reserved)
  /\ DOMAIN L.settled \subseteq L.reserved
  /\ \A c \in DOMAIN L.settled : L.settled[c] = us[c] /\ us[c] \in 1..Reserve
  /\ \A c \in own : /\ sn[c] \in {0, 1} /\ us[c] \in Nat
                    /\ sn[c] = 1 => c \in L.reserved
  /\ \A t \in Tiers : Charged(L, t) <= cap[t]
  /\ \A c, d \in Pending(L) : Tier(c.slot) = Tier(d.slot) => c = d

\* A result stands on settled calls.
RowsHold(R, L) ==
  /\ R = [rows |-> R.rows, torn |-> R.torn] /\ R.torn \in BOOLEAN
  /\ \A row \in R.rows : \A c \in L.reserved :
       c.case = row.case => c \in DOMAIN L.settled

\* What a live process knows of the files: no doubt, and no result yet for any of the
\* cases it still has to take.
Trusts(P, L, R, cases) ==
  /\ ~L.torn /\ ~R.torn
  /\ \A row \in R.rows : ~row.stop
  /\ P.todo \subseteq DOMAIN cases
  /\ \A row \in R.rows : \A i \in P.todo : cases[i] # row.case

MvtecAsks(P) == Call(PilotCases[Min(P.todo)], P.attempt, P.asked)

MvtecProc(P, L) ==
  \/ /\ P.pc = "next" /\ P = [pc |-> "next", retry |-> P.retry, todo |-> P.todo]
     /\ Pending(L) = {}
  \/ /\ P.pc = "call"
     /\ P = [pc |-> "call", todo |-> P.todo, retry |-> P.retry, attempt |-> P.attempt,
             records |-> P.records, asked |-> P.asked, flying |-> P.flying]
     /\ P.todo # {} /\ P.asked \in {"primary", "flash", "plus"} /\ P.flying \in BOOLEAN
     /\ P.flying => Pending(L) = {MvtecAsks(P)}
  \/ /\ P.pc = "result" /\ P = [pc |-> "result", todo |-> P.todo, retry |-> P.retry]
     /\ P.todo # {} /\ Pending(L) = {}

MvtecHolds(L, R, P, sn, us) ==
  /\ BookHolds(L, PilotCalls, PilotCap, sn, us) /\ RowsHold(R, L)
  /\ P = [pc |-> "dead"] \/ (Trusts(P, L, R, PilotCases) /\ MvtecProc(P, L))

AdaptiveOf(P, s) == Call(AdaptiveCases[Min(P.todo)], 1, s)

Imported ==
  [revision |-> "pinned",
   plus |-> Pin.plus + FirstRun["plus"], flash |-> Pin.flash + FirstRun["flash"]]

\* The slots a process still answers for are the pending calls, each in one of three hands.
AdaptiveProc(P, L, sn) ==
  \/ /\ P.pc = "next" /\ P = [pc |-> "next", prior |-> P.prior, todo |-> P.todo]
     /\ Pending(L) = {}
  \/ /\ P.pc \in {"observe", "verify"}
     /\ P = [pc |-> P.pc, prior |-> P.prior, todo |-> P.todo, expected |-> P.expected,
             flying |-> P.flying, records |-> P.records, failed |-> P.failed]
     /\ P.todo # {}
     /\ Pending(L) = {AdaptiveOf(P, s) : s \in P.expected \cup P.flying \cup P.failed}
     /\ P.expected \cap P.flying = {} /\ P.expected \cap P.failed = {}
     /\ P.flying \cap P.failed = {}
     /\ \A s \in P.expected : sn[AdaptiveOf(P, s)] = 0
  \/ /\ P.pc = "result"
     /\ P = [pc |-> "result", prior |-> P.prior, todo |-> P.todo, stop |-> P.stop]
     /\ P.todo # {} /\ P.stop \in BOOLEAN /\ Pending(L) = {}

AdaptiveHolds(L, R, P, sn, us) ==
  /\ BookHolds(L, AdaptiveCalls, AdaptiveCap, sn, us) /\ RowsHold(R, L)
  /\ \A t \in Tiers : Imported[t] + Charged(L, t) + RedLine <= Allowance
  /\ \/ P = [pc |-> "dead"]
     \/ Trusts(P, L, R, AdaptiveCases) /\ P.prior = Imported /\ AdaptiveProc(P, L, sn)

AccountInv ==
  /\ sent = [c \in Calls |-> sent[c]] /\ used = [c \in Calls |-> used[c]]
  /\ MvtecHolds(mledger, mresults, mproc, sent, used)
  /\ AdaptiveHolds(aledger, aresults, aproc, sent, used)

--------------------------------------------------------------------------------
(* Ledgers.                                                                 *)

LEMMA LeastPlace ==
  ASSUME NEW S \in SUBSET Nat, S # {}
  PROVE  Min(S) \in S /\ \A i \in S : Min(S) <= i
<1>1. PICK m \in S : \A i \in S : <<i, m>> \notin OpToRel(<, Nat)
  BY NatLessThanWellFounded, WFMin
<1>2. \A i \in S : <<i, m>> \in OpToRel(<, Nat) <=> i < m
  BY DEF OpToRel
<1>3. \A i \in S : m <= i
  <2> TAKE i \in S
  <2>1. ~(i < m)
    BY <1>1, <1>2
  <2> QED
    BY <2>1
<1> QED
  BY <1>3 DEF Min

LEMMA TiersAre == Tiers = {"plus", "flash"} /\ \A s : Tier(s) \in Tiers
  BY DEF Tiers, Tier

\* What a book charges: a whole reservation for what is pending.
LEMMA ChargesCount ==
  ASSUME NEW L, NEW own, NEW cap, NEW sn, NEW us, BookHolds(L, own, cap, sn, us), NEW t
  PROVE  /\ IsFiniteSet(OfTier(L.reserved, t))
         /\ Counts([c \in OfTier(L.reserved, t) |-> Charge(L, c)], OfTier(L.reserved, t))
         /\ Charged(L, t) \in Nat
<1>1. IsFiniteSet(OfTier(L.reserved, t))
  BY FS_Subset DEF OfTier, BookHolds
<1>2. \A c \in L.reserved : Charge(L, c) \in Nat
  BY BudgetAssumption DEF Charge, BookHolds
<1>3. Counts([c \in OfTier(L.reserved, t) |-> Charge(L, c)], OfTier(L.reserved, t))
  BY <1>2 DEF Counts, OfTier
<1>4. Charged(L, t) \in Nat
  BY <1>1, <1>3, SumNat DEF Charged, SumFunction
<1> QED
  BY <1>1, <1>3, <1>4

\* A ledger with fewer reservations and the same settlements charges no more.
LEMMA ChargesGrow ==
  ASSUME NEW L, NEW M, NEW t, IsFiniteSet(M.reserved), L.reserved \subseteq M.reserved,
         M.settled = L.settled, \A c \in M.reserved : Charge(M, c) \in Nat
  PROVE  Charged(L, t) <= Charged(M, t)
<1>1. /\ OfTier(L.reserved, t) \subseteq OfTier(M.reserved, t)
      /\ OfTier(M.reserved, t) \subseteq M.reserved
  BY DEF OfTier
<1>2. IsFiniteSet(OfTier(M.reserved, t))
  BY <1>1, FS_Subset
<1>3. \A c \in L.reserved : Charge(L, c) = Charge(M, c)
  BY DEF Charge
<1> DEFINE f == [c \in OfTier(L.reserved, t) |-> Charge(L, c)]
           g == [c \in OfTier(M.reserved, t) |-> Charge(M, c)]
<1>4. \A c \in OfTier(M.reserved, t) : g[c] = Charge(M, c) /\ g[c] \in Nat
  BY <1>1
<1>5. \A c \in OfTier(L.reserved, t) : f[c] = g[c] /\ f[c] \in Nat
  BY <1>1, <1>3, <1>4 DEF OfTier
<1>6. Counts(f, OfTier(L.reserved, t)) /\ Counts(g, OfTier(M.reserved, t))
  BY <1>4, <1>5 DEF Counts
<1>7. \A c \in OfTier(L.reserved, t) : f[c] <= g[c]
  <2> HIDE DEF f, g
  <2> QED BY <1>5
<1>8. SumFunctionOnSet(f, OfTier(L.reserved, t)) <= SumFunctionOnSet(g, OfTier(M.reserved, t))
  <2> HIDE DEF f, g
  <2> QED BY <1>1, <1>2, <1>6, <1>7, SumMonotone
<1> QED
  BY <1>8 DEF Charged, SumFunction

\* The books of the calls that a step does not touch.
LEMMA BookFrame ==
  ASSUME NEW L, NEW own, NEW cap, NEW sn, NEW us, BookHolds(L, own, cap, sn, us),
         NEW sn2, NEW us2, \A c \in own : sn2[c] = sn[c] /\ us2[c] = us[c]
  PROVE  BookHolds(L, own, cap, sn2, us2)
  BY DEF BookHolds

LEMMA TearKeeps ==
  ASSUME NEW L, NEW own, NEW cap, NEW sn, NEW us, BookHolds(L, own, cap, sn, us), NEW b \in BOOLEAN,
         NEW M, M = [L EXCEPT !.torn = b]
  PROVE  BookHolds(M, own, cap, sn, us) /\ \A t : Charged(M, t) = Charged(L, t)
<1>1. /\ M = [reserved |-> L.reserved, settled |-> L.settled, torn |-> b]
  BY DEF BookHolds
<1>2. M.reserved = L.reserved /\ M.settled = L.settled /\ M.torn = b
  BY <1>1
<1>3. \A t : Charged(M, t) = Charged(L, t)
  BY <1>2 DEF Charged, Charge
<1>4. Pending(M) = Pending(L)
  BY <1>2 DEF Pending
<1> QED
  BY <1>1, <1>2, <1>3, <1>4 DEF BookHolds

\* Reserving calls of different tiers, where nothing is pending.
LEMMA ReserveKeeps ==
  ASSUME NEW L, NEW own, NEW cap, NEW sn, NEW us, BookHolds(L, own, cap, sn, us),
         Pending(L) = {}, NEW calls \in SUBSET own, IsFiniteSet(calls),
         calls \cap L.reserved = {},
         \A c, d \in calls : Tier(c.slot) = Tier(d.slot) => c = d,
         NEW M, M = Reserving(L, calls),
         \A t \in Tiers : Charged(M, t) <= cap[t]
  PROVE  BookHolds(M, own, cap, sn, us) /\ Pending(M) = calls
<1>1. /\ M = [reserved |-> L.reserved \cup calls, settled |-> L.settled, torn |-> L.torn]
  BY DEF BookHolds, Reserving
<1>2. M.reserved = L.reserved \cup calls /\ M.settled = L.settled /\ M.torn = L.torn
  BY <1>1
<1>3. Pending(M) = calls
  BY <1>2 DEF Pending, BookHolds
<1>4. IsFiniteSet(M.reserved)
  BY <1>2, FS_Union DEF BookHolds
<1> QED
  BY <1>1, <1>2, <1>3, <1>4 DEF BookHolds

\* Settling a pending call for what it used.
LEMMA SettleKeeps ==
  ASSUME NEW L, NEW own, NEW cap, NEW sn, NEW us, BookHolds(L, own, cap, sn, us),
         NEW c \in Pending(L), us[c] \in 1..Reserve,
         NEW M, M = Settling(L, c, us[c]),
         \A t \in Tiers : Charged(M, t) <= cap[t]
  PROVE  /\ BookHolds(M, own, cap, sn, us) /\ Pending(M) = Pending(L) \ {c}
         /\ M.reserved = L.reserved /\ DOMAIN M.settled = {c} \cup DOMAIN L.settled
<1> DEFINE settled == [d \in {c} \cup DOMAIN L.settled |-> IF d = c THEN us[c] ELSE L.settled[d]]
<1>1. M = [reserved |-> L.reserved, settled |-> settled, torn |-> L.torn]
  BY DEF BookHolds, Settling
<1>2. M.reserved = L.reserved /\ M.settled = settled /\ M.torn = L.torn
  BY <1>1
<1>3. /\ DOMAIN M.settled = {c} \cup DOMAIN L.settled
      /\ \A d \in DOMAIN M.settled : M.settled[d] = us[d]
  BY <1>2 DEF BookHolds
<1> HIDE DEF settled
<1>4. Pending(M) = Pending(L) \ {c}
  BY <1>2, <1>3 DEF Pending
<1>5. c \in L.reserved
  BY DEF Pending
<1> QED
  BY <1>1, <1>2, <1>3, <1>4, <1>5 DEF BookHolds

\* A call that is reserved leaves.
LEMMA SendKeeps ==
  ASSUME NEW L, NEW own, NEW cap, NEW sn, NEW us, BookHolds(L, own, cap, sn, us),
         NEW c \in Pending(L), sn[c] = 0, NEW n \in Nat,
         NEW sn2, NEW us2,
         \A d \in own : /\ sn2[d] = (IF d = c THEN sn[c] + 1 ELSE sn[d])
                        /\ us2[d] = (IF d = c THEN us[c] + n ELSE us[d])
  PROVE  BookHolds(L, own, cap, sn2, us2)
<1>1. c \in L.reserved /\ c \notin DOMAIN L.settled /\ c \in own
  BY DEF Pending, BookHolds
<1>2. \A d \in DOMAIN L.settled : us2[d] = us[d]
  BY <1>1 DEF BookHolds
<1>3. \A d \in own : sn2[d] \in {0, 1} /\ us2[d] \in Nat /\ (sn2[d] = 1 => d \in L.reserved)
  BY <1>1 DEF BookHolds
<1> QED
  BY <1>2, <1>3 DEF BookHolds

LEMMA RowsKeep ==
  ASSUME NEW R, NEW L, RowsHold(R, L), NEW M,
         \A row \in R.rows : \A c \in M.reserved :
            c.case = row.case => c \in L.reserved,
         DOMAIN L.settled \subseteq DOMAIN M.settled
  PROVE  RowsHold(R, M)
  BY DEF RowsHold

--------------------------------------------------------------------------------
(* The MVTec pilot.                                                         *)

\* Its instance of the budget is the budget.
LEMMA MvtecTerms ==
  /\ \A L, t : Mvtec!Charged(L, t) = Charged(L, t)
  /\ \A L : Mvtec!Pending(L) = Pending(L)
  /\ \A L, calls : Mvtec!Reserving(L, calls) = Reserving(L, calls)
  /\ \A L, c, n : Mvtec!Settling(L, c, n) = Settling(L, c, n)
  /\ \A c, a, s : Mvtec!Call(c, a, s) = Call(c, a, s)
  /\ \A S : Mvtec!Min(S) = Min(S)
  /\ Mvtec!Tiers = Tiers
<1>1. ASSUME NEW L, NEW t PROVE Mvtec!Charged(L, t) = Charged(L, t)
  BY DEF Mvtec!Charged, Charged, Mvtec!OfTier, OfTier, Mvtec!Charge, Charge, Mvtec!Tier, Tier,
     Mvtec!SumFunction, SumFunction, Mvtec!SumFunctionOnSet, SumFunctionOnSet,
     Mvtec!FoldFunctionOnSet, FoldFunctionOnSet, Mvtec!MapThenFoldSet, MapThenFoldSet
<1>2. \A L : Mvtec!Pending(L) = Pending(L)
  BY DEF Mvtec!Pending, Pending
<1>3. \A L, calls : Mvtec!Reserving(L, calls) = Reserving(L, calls)
  BY DEF Mvtec!Reserving, Reserving
<1>4. \A L, c, n : Mvtec!Settling(L, c, n) = Settling(L, c, n)
  BY DEF Mvtec!Settling, Settling
<1>5. \A c, a, s : Mvtec!Call(c, a, s) = Call(c, a, s)
  BY DEF Mvtec!Call, Call
<1>6. \A S : Mvtec!Min(S) = Min(S)
  BY DEF Mvtec!Min, Min
<1>7. Mvtec!Tiers = Tiers
  BY DEF Mvtec!Tiers, Tiers
<1> QED
  BY <1>1, <1>2, <1>3, <1>4, <1>5, <1>6, <1>7

LEMMA MvtecAsked == Mvtec!Asked = MvtecAsks(mproc)
  BY MvtecTerms DEF Mvtec!Asked, Mvtec!Case, MvtecAsks

\* What a reservation and a settlement were checked for.
LEMMA MvtecReserves ==
  ASSUME NEW c, Mvtec!ReservationAllowed(mledger, c)
  PROVE  /\ Pending(mledger) = {} /\ c \notin mledger.reserved /\ c.attempt \in 1..MaxAttempts
         /\ \A t \in Tiers : Charged(Reserving(mledger, {c}), t) <= PilotCap[t]
  BY MvtecTerms DEF Mvtec!ReservationAllowed, Mvtec!PilotSummaryHolds

LEMMA MvtecSettles ==
  ASSUME NEW c, NEW n, Mvtec!PilotSettleAllowed(mledger, c, n)
  PROVE  /\ Pending(mledger) = {c} /\ n \in 1..Reserve
         /\ \A t \in Tiers : Charged(Settling(mledger, c, n), t) <= PilotCap[t]
  BY MvtecTerms DEF Mvtec!PilotSettleAllowed, Mvtec!PilotSummaryHolds

\* The first of the places a process has left.
LEMMA FirstPlace ==
  ASSUME NEW cases \in {PilotCases, AdaptiveCases},
         NEW P, P.todo \subseteq DOMAIN cases, P.todo # {}
  PROVE  /\ Min(P.todo) \in P.todo /\ Min(P.todo) \in DOMAIN cases
         /\ \A i \in P.todo \ {Min(P.todo)} : cases[i] # cases[Min(P.todo)]
<1>1. Min(P.todo) \in P.todo
  BY LeastPlace, AccountAssumption
<1>2. \A i, j \in DOMAIN cases : cases[i] = cases[j] => i = j
  BY AccountAssumption DEF IsInjective
<1> QED
  BY <1>1, <1>2

\* Where no call is pending, all of a case's calls are settled.
LEMMA RowAdded ==
  ASSUME NEW R, NEW L, RowsHold(R, L), Pending(L) = {}, NEW row,
         NEW R2, R2 = [R EXCEPT !.rows = @ \cup {row}]
  PROVE  /\ RowsHold(R2, L) /\ R2.rows = R.rows \cup {row} /\ R2.torn = R.torn
<1>1. R2 = [rows |-> R.rows \cup {row}, torn |-> R.torn]
  BY DEF RowsHold
<1>2. R2.rows = R.rows \cup {row} /\ R2.torn = R.torn
  BY <1>1
<1>3. L.reserved \subseteq DOMAIN L.settled
  BY DEF Pending
<1> QED
  BY <1>1, <1>2, <1>3 DEF RowsHold

LEMMA RowsTorn ==
  ASSUME NEW R, NEW L, RowsHold(R, L), NEW R2, R2 = [R EXCEPT !.torn = TRUE]
  PROVE  RowsHold(R2, L)
<1>1. R2 = [rows |-> R.rows, torn |-> TRUE]
  BY DEF RowsHold
<1>2. R2.rows = R.rows /\ R2.torn = TRUE
  BY <1>1
<1> QED
  BY <1>1, <1>2 DEF RowsHold

\* A new reservation is for a case without a result.
LEMMA RowsReserved ==
  ASSUME NEW R, NEW L, RowsHold(R, L), NEW calls, NEW M, M = Reserving(L, calls),
         L = [reserved |-> L.reserved, settled |-> L.settled, torn |-> L.torn],
         \A row \in R.rows : \A c \in calls : c.case # row.case
  PROVE  RowsHold(R, M)
<1>1. M.reserved = L.reserved \cup calls /\ M.settled = L.settled
  BY DEF Reserving
<1> QED
  BY <1>1 DEF RowsHold

LEMMA RowsSettled ==
  ASSUME NEW R, NEW L, RowsHold(R, L), NEW M, M.reserved = L.reserved,
         DOMAIN L.settled \subseteq DOMAIN M.settled
  PROVE  RowsHold(R, M)
  BY DEF RowsHold

\* The two runs have no call in common.
LEMMA CallsApart ==
  /\ Calls = PilotCalls \cup AdaptiveCalls
  /\ PilotCalls \cap AdaptiveCalls = {}
<1>1. Calls = PilotCalls \cup AdaptiveCalls
  BY DEF Calls, PilotCalls, AdaptiveCalls
<1>2. \A c \in PilotCalls : c.case \in Range(PilotCases)
  BY DEF PilotCalls, Call, Range
<1>3. \A c \in AdaptiveCalls : c.case \in Range(AdaptiveCases)
  BY DEF AdaptiveCalls, Call, Range
<1> QED
  BY <1>1, <1>2, <1>3, AccountAssumption

LEMMA MvtecFrame ==
  ASSUME NEW L, NEW R, NEW P, NEW sn, NEW us, MvtecHolds(L, R, P, sn, us),
         NEW sn2, NEW us2, \A c \in PilotCalls : sn2[c] = sn[c] /\ us2[c] = us[c]
  PROVE  MvtecHolds(L, R, P, sn2, us2)
<1>1. BookHolds(L, PilotCalls, PilotCap, sn2, us2)
  BY BookFrame DEF MvtecHolds
<1> QED
  BY <1>1 DEF MvtecHolds

LEMMA AdaptiveFrame ==
  ASSUME NEW L, NEW R, NEW P, NEW sn, NEW us, AdaptiveHolds(L, R, P, sn, us),
         NEW sn2, NEW us2, \A c \in AdaptiveCalls : sn2[c] = sn[c] /\ us2[c] = us[c]
  PROVE  AdaptiveHolds(L, R, P, sn2, us2)
<1>1. BookHolds(L, AdaptiveCalls, AdaptiveCap, sn2, us2)
  BY BookFrame DEF AdaptiveHolds
<1>2. \A c \in Pending(L) : sn2[c] = sn[c]
  BY DEF AdaptiveHolds, BookHolds, Pending
<1>3. AdaptiveProc(P, L, sn) => AdaptiveProc(P, L, sn2)
  BY <1>2 DEF AdaptiveProc
<1> QED
  BY <1>1, <1>3 DEF AdaptiveHolds

\* A dead process leaves the files as they are.
LEMMA MvtecDies ==
  ASSUME NEW L, NEW R, NEW P, NEW sn, NEW us,
         BookHolds(L, PilotCalls, PilotCap, sn, us), RowsHold(R, L), P = [pc |-> "dead"]
  PROVE  MvtecHolds(L, R, P, sn, us)
  BY DEF MvtecHolds

LEMMA MvtecStarts ==
  ASSUME AccountInv, NEW size \in BatchSizes, NEW retry \in BOOLEAN, Mvtec!Start(size, retry)
  PROVE  MvtecHolds(mledger, mresults, mproc', sent, used)
<1> DEFINE open == {i \in DOMAIN PilotCases : PilotCases[i] \notin Mvtec!Completed}
<1>1. /\ ~mresults.torn /\ ~mledger.torn /\ Pending(mledger) = {}
      /\ \A row \in mresults.rows : ~row.stop
  BY MvtecTerms DEF Mvtec!Start, Mvtec!StartAllowed, Mvtec!SafetyStopped
<1>2. PICK todo \in SUBSET open : mproc' = [pc |-> "next", retry |-> retry, todo |-> todo]
  BY DEF Mvtec!Start
<1>3. /\ mproc'.pc = "next" /\ mproc'.todo = todo
      /\ mproc' = [pc |-> "next", retry |-> mproc'.retry, todo |-> mproc'.todo]
  BY <1>2
<1>4. Trusts(mproc', mledger, mresults, PilotCases)
  BY <1>1, <1>3 DEF Trusts, Mvtec!Completed
<1>5. MvtecProc(mproc', mledger)
  BY <1>1, <1>3 DEF MvtecProc
<1> QED
  BY <1>4, <1>5 DEF AccountInv, MvtecHolds

LEMMA MvtecBegins ==
  ASSUME AccountInv, Mvtec!BeginCase
  PROVE  MvtecHolds(mledger, mresults, mproc', sent, used)
<1>1. /\ mproc.pc = "next" /\ mproc.todo # {}
      /\ mproc' = [pc |-> "call", todo |-> mproc.todo, retry |-> mproc.retry,
                   attempt |-> Mvtec!NextAttempt, records |-> <<>>, asked |-> "primary",
                   flying |-> FALSE]
  BY DEF Mvtec!BeginCase
<1>2. /\ Trusts(mproc, mledger, mresults, PilotCases) /\ MvtecProc(mproc, mledger)
  BY <1>1 DEF AccountInv, MvtecHolds
<1>3. /\ mproc'.pc = "call" /\ mproc'.todo = mproc.todo /\ mproc'.asked = "primary"
      /\ mproc'.flying = FALSE
      /\ mproc' = [pc |-> "call", todo |-> mproc'.todo, retry |-> mproc'.retry,
                   attempt |-> mproc'.attempt, records |-> mproc'.records,
                   asked |-> mproc'.asked, flying |-> mproc'.flying]
  BY <1>1
<1>4. Trusts(mproc', mledger, mresults, PilotCases)
  BY <1>2, <1>3 DEF Trusts
<1>5. MvtecProc(mproc', mledger)
  BY <1>1, <1>3 DEF MvtecProc
<1> QED
  BY <1>4, <1>5 DEF AccountInv, MvtecHolds

\* What holds while a case is called.
LEMMA MvtecCalling ==
  ASSUME AccountInv, mproc.pc = "call"
  PROVE  /\ Trusts(mproc, mledger, mresults, PilotCases)
         /\ mproc = [pc |-> "call", todo |-> mproc.todo, retry |-> mproc.retry,
                     attempt |-> mproc.attempt, records |-> mproc.records,
                     asked |-> mproc.asked, flying |-> mproc.flying]
         /\ mproc.todo # {} /\ mproc.asked \in {"primary", "flash", "plus"}
         /\ mproc.flying \in BOOLEAN
         /\ mproc.flying => Pending(mledger) = {MvtecAsks(mproc)}
         /\ Min(mproc.todo) \in mproc.todo /\ Min(mproc.todo) \in DOMAIN PilotCases
<1>1. /\ Trusts(mproc, mledger, mresults, PilotCases) /\ MvtecProc(mproc, mledger)
  BY DEF AccountInv, MvtecHolds
<1>2. /\ mproc.todo # {} /\ mproc.todo \subseteq DOMAIN PilotCases
  BY <1>1 DEF MvtecProc, Trusts
<1>3. Min(mproc.todo) \in mproc.todo /\ Min(mproc.todo) \in DOMAIN PilotCases
  BY <1>2, FirstPlace
<1> QED
  BY <1>1, <1>3 DEF MvtecProc

\* A reservation that passes is a new call of a case without a result.
LEMMA MvtecReserved ==
  ASSUME AccountInv, mproc.pc = "call", Mvtec!Passes,
         NEW c, c = MvtecAsks(mproc), NEW L, L = Reserving(mledger, {c})
  PROVE  /\ Pending(mledger) = {} /\ c \notin mledger.reserved /\ c \in PilotCalls
         /\ BookHolds(L, PilotCalls, PilotCap, sent, used) /\ Pending(L) = {c}
         /\ L.torn = mledger.torn /\ RowsHold(mresults, L)
<1>1. /\ Pending(mledger) = {} /\ c \notin mledger.reserved /\ c.attempt \in 1..MaxAttempts
      /\ \A t \in Tiers : Charged(L, t) <= PilotCap[t]
  BY MvtecAsked, MvtecReserves DEF Mvtec!Passes
<1>2. /\ c.case = PilotCases[Min(mproc.todo)] /\ c.attempt = mproc.attempt
      /\ c.slot = mproc.asked
  BY DEF MvtecAsks, Call
<1>3. c \in PilotCalls
  BY <1>1, <1>2, MvtecCalling DEF PilotCalls, MvtecAsks
<1>4. BookHolds(mledger, PilotCalls, PilotCap, sent, used) /\ RowsHold(mresults, mledger)
  BY DEF AccountInv, MvtecHolds
<1>5. BookHolds(L, PilotCalls, PilotCap, sent, used) /\ Pending(L) = {c}
  <2>1. /\ {c} \in SUBSET PilotCalls /\ IsFiniteSet({c}) /\ {c} \cap mledger.reserved = {}
        /\ \A d, e \in {c} : d = e
    BY <1>1, <1>3, FS_Singleton
  <2> QED
    BY <1>1, <1>4, <2>1, ReserveKeeps
<1>6. L.torn = mledger.torn
  BY <1>4 DEF BookHolds, Reserving
<1>7. \A row \in mresults.rows : c.case # row.case
  BY <1>2, MvtecCalling DEF Trusts
<1>8. RowsHold(mresults, L)
  BY <1>4, <1>7, RowsReserved DEF BookHolds
<1> QED
  BY <1>1, <1>3, <1>5, <1>6, <1>8

LEMMA MvtecSends ==
  ASSUME AccountInv, Mvtec!Send
  PROVE  /\ MvtecHolds(mledger', mresults, mproc', sent', used')
         /\ AdaptiveHolds(aledger, aresults, aproc, sent', used')
         /\ sent' = [c \in Calls |-> sent'[c]] /\ used' = [c \in Calls |-> used'[c]]
<1> DEFINE c == MvtecAsks(mproc)
<1>1. /\ mproc.pc = "call" /\ ~mproc.flying /\ Mvtec!Passes
      /\ mledger' = Reserving(mledger, {c})
      /\ sent' = [sent EXCEPT ![c] = @ + 1]
      /\ mproc' = [mproc EXCEPT !.flying = TRUE]
  BY MvtecAsked, MvtecTerms DEF Mvtec!Send
<1>2. PICK n \in Nat : used' = [used EXCEPT ![c] = @ + n]
  BY MvtecAsked, AccountAssumption DEF Mvtec!Send
<1> HIDE DEF c
<1>3. /\ Pending(mledger) = {} /\ c \notin mledger.reserved /\ c \in PilotCalls
      /\ BookHolds(mledger', PilotCalls, PilotCap, sent, used) /\ Pending(mledger') = {c}
      /\ mledger'.torn = mledger.torn /\ RowsHold(mresults, mledger')
  BY <1>1, MvtecReserved DEF c
<1>4. /\ sent = [d \in Calls |-> sent[d]] /\ used = [d \in Calls |-> used[d]]
      /\ BookHolds(mledger, PilotCalls, PilotCap, sent, used)
  BY DEF AccountInv, MvtecHolds
<1>5. /\ \A d \in Calls : /\ sent'[d] = (IF d = c THEN sent[c] + 1 ELSE sent[d])
                          /\ used'[d] = (IF d = c THEN used[c] + n ELSE used[d])
      /\ sent' = [d \in Calls |-> sent'[d]] /\ used' = [d \in Calls |-> used'[d]]
  BY <1>1, <1>2, <1>4
<1>6. sent[c] = 0
  BY <1>3, <1>4 DEF BookHolds
<1>7. BookHolds(mledger', PilotCalls, PilotCap, sent', used')
  <2>1. c \in Pending(mledger')
    BY <1>3
  <2>2. \A d \in PilotCalls : /\ sent'[d] = (IF d = c THEN sent[c] + 1 ELSE sent[d])
                              /\ used'[d] = (IF d = c THEN used[c] + n ELSE used[d])
    BY <1>5, CallsApart
  <2> QED
    BY <1>3, <1>6, <2>1, <2>2, SendKeeps
<1>8. \A d \in AdaptiveCalls : sent'[d] = sent[d] /\ used'[d] = used[d]
  BY <1>3, <1>5, CallsApart
<1>9. AdaptiveHolds(aledger, aresults, aproc, sent', used')
  BY <1>8, AdaptiveFrame DEF AccountInv
<1>10. /\ mproc'.pc = "call" /\ mproc'.todo = mproc.todo /\ mproc'.asked = mproc.asked
       /\ mproc'.attempt = mproc.attempt /\ mproc'.flying = TRUE
       /\ mproc' = [pc |-> "call", todo |-> mproc'.todo, retry |-> mproc'.retry,
                    attempt |-> mproc'.attempt, records |-> mproc'.records,
                    asked |-> mproc'.asked, flying |-> mproc'.flying]
  BY <1>1, MvtecCalling
<1>11. MvtecAsks(mproc') = c
  BY <1>10 DEF c, MvtecAsks
<1>12. Trusts(mproc', mledger', mresults, PilotCases)
  BY <1>1, <1>3, <1>10, MvtecCalling DEF Trusts
<1>13. MvtecProc(mproc', mledger')
  BY <1>1, <1>3, <1>10, <1>11, MvtecCalling DEF MvtecProc
<1> QED
  BY <1>3, <1>5, <1>7, <1>9, <1>12, <1>13 DEF MvtecHolds

LEMMA MvtecSettlesIt ==
  ASSUME AccountInv, Mvtec!Settle
  PROVE  MvtecHolds(mledger', mresults, mproc', sent, used)
<1> DEFINE c == MvtecAsks(mproc)
<1>1. /\ mproc.pc = "call" /\ mproc.flying
      /\ Mvtec!PilotSettleAllowed(mledger, c, used[c])
      /\ mledger' = Settling(mledger, c, used[c])
  BY MvtecAsked, MvtecTerms DEF Mvtec!Settle
<1>2. PICK next \in Mvtec!After(mproc.asked) :
         mproc' = Mvtec!Continue([mproc EXCEPT !.flying = FALSE,
                                               !.records = Append(@, mproc.asked)], next)
  BY DEF Mvtec!Settle
<1> HIDE DEF c
<1>3. /\ Pending(mledger) = {c} /\ used[c] \in 1..Reserve
      /\ \A t \in Tiers : Charged(mledger', t) <= PilotCap[t]
  BY <1>1, MvtecSettles
<1>4. BookHolds(mledger, PilotCalls, PilotCap, sent, used) /\ RowsHold(mresults, mledger)
  BY DEF AccountInv, MvtecHolds
<1>5. /\ BookHolds(mledger', PilotCalls, PilotCap, sent, used)
      /\ Pending(mledger') = {}
      /\ mledger'.reserved = mledger.reserved
      /\ DOMAIN mledger'.settled = {c} \cup DOMAIN mledger.settled
  BY <1>1, <1>3, <1>4, SettleKeeps
<1>6. mledger'.torn = mledger.torn
  BY <1>1, <1>4 DEF BookHolds, Settling
<1>7. RowsHold(mresults, mledger')
  BY <1>4, <1>5, RowsSettled
<1> DEFINE p == [mproc EXCEPT !.flying = FALSE, !.records = Append(@, mproc.asked)]
<1>8. /\ p.todo = mproc.todo /\ p.retry = mproc.retry /\ p.pc = "call" /\ p.flying = FALSE
      /\ p = [pc |-> "call", todo |-> mproc.todo, retry |-> mproc.retry,
              attempt |-> mproc.attempt, records |-> p.records,
              asked |-> mproc.asked, flying |-> FALSE]
  <2>1. PICK r : r = Append(mproc.records, mproc.asked)
    OBVIOUS
  <2>2. p = [mproc EXCEPT !.flying = FALSE, !.records = r]
    BY <2>1
  <2> HIDE DEF p
  <2> QED
    BY <1>1, <2>2, MvtecCalling
<1> HIDE DEF p
<1>9. next \in {"flash", "result", "dead", "plus"}
  BY <1>2, MvtecCalling, <1>1 DEF Mvtec!After
<1>10. CASE next = "dead"
  <2>1. mproc' = [pc |-> "dead"]
    BY <1>2, <1>10 DEF Mvtec!Continue, Mvtec!Dead
  <2> QED
    BY <1>5, <1>7, <2>1, MvtecDies
<1>11. CASE next = "result"
  <2>1. mproc' = [pc |-> "result", todo |-> mproc.todo, retry |-> mproc.retry]
    BY <1>2, <1>8, <1>11 DEF Mvtec!Continue, p
  <2>2. mproc'.pc = "result" /\ mproc'.todo = mproc.todo /\ mproc'.retry = mproc.retry
    BY <2>1
  <2>3. Trusts(mproc', mledger', mresults, PilotCases)
    BY <1>1, <1>6, <2>2, MvtecCalling DEF Trusts
  <2>4. MvtecProc(mproc', mledger')
    BY <1>1, <1>5, <2>1, <2>2, MvtecCalling DEF MvtecProc
  <2> QED
    BY <1>5, <1>7, <2>3, <2>4 DEF MvtecHolds
<1>12. CASE next \in {"flash", "plus"}
  <2>1. mproc' = [p EXCEPT !.asked = next]
    BY <1>2, <1>12 DEF Mvtec!Continue, p
  <2>2. /\ mproc'.pc = "call" /\ mproc'.todo = mproc.todo /\ mproc'.asked = next
        /\ mproc'.flying = FALSE
        /\ mproc' = [pc |-> "call", todo |-> mproc'.todo, retry |-> mproc'.retry,
                     attempt |-> mproc'.attempt, records |-> mproc'.records,
                     asked |-> mproc'.asked, flying |-> mproc'.flying]
    BY <1>8, <2>1
  <2>3. Trusts(mproc', mledger', mresults, PilotCases)
    BY <1>1, <1>6, <2>2, MvtecCalling DEF Trusts
  <2>4. MvtecProc(mproc', mledger')
    BY <1>1, <1>12, <2>2, MvtecCalling DEF MvtecProc
  <2> QED
    BY <1>5, <1>7, <2>3, <2>4 DEF MvtecHolds
<1> QED
  BY <1>9, <1>10, <1>11, <1>12

LEMMA MvtecRejects ==
  ASSUME AccountInv, Mvtec!Reject
  PROVE  MvtecHolds(mledger, mresults, mproc', sent, used)
<1>1. /\ mproc.pc = "call"
      /\ mproc' = IF mproc.asked = "flash"
                  THEN [mproc EXCEPT !.asked = "plus", !.flying = FALSE]
                  ELSE [pc |-> "dead"]
  BY DEF Mvtec!Reject, Mvtec!Dead
<1>2. CASE mproc.asked = "flash"
  <2>1. /\ mproc'.pc = "call" /\ mproc'.todo = mproc.todo /\ mproc'.asked = "plus"
        /\ mproc'.flying = FALSE
        /\ mproc' = [pc |-> "call", todo |-> mproc'.todo, retry |-> mproc'.retry,
                     attempt |-> mproc'.attempt, records |-> mproc'.records,
                     asked |-> mproc'.asked, flying |-> mproc'.flying]
    BY <1>1, <1>2, MvtecCalling
  <2>2. Trusts(mproc', mledger, mresults, PilotCases)
    BY <1>1, <2>1, MvtecCalling DEF Trusts
  <2>3. MvtecProc(mproc', mledger)
    BY <1>1, <2>1, MvtecCalling DEF MvtecProc
  <2> QED
    BY <2>2, <2>3 DEF AccountInv, MvtecHolds
<1>3. CASE mproc.asked # "flash"
  BY <1>1, <1>3 DEF AccountInv, MvtecHolds
<1> QED
  BY <1>2, <1>3

LEMMA MvtecRecords ==
  ASSUME AccountInv, Mvtec!AppendResult
  PROVE  MvtecHolds(mledger, mresults', mproc', sent, used)
<1>1. mproc.pc = "result"
  BY DEF Mvtec!AppendResult
<1>2. /\ Trusts(mproc, mledger, mresults, PilotCases)
      /\ mproc = [pc |-> "result", todo |-> mproc.todo, retry |-> mproc.retry]
      /\ mproc.todo # {} /\ Pending(mledger) = {} /\ RowsHold(mresults, mledger)
      /\ BookHolds(mledger, PilotCalls, PilotCap, sent, used)
  BY <1>1 DEF AccountInv, MvtecHolds, MvtecProc
<1> DEFINE case == PilotCases[Min(mproc.todo)]
<1>3. PICK stop \in BOOLEAN :
        /\ mresults' = [mresults EXCEPT !.rows = @ \cup {[case |-> case, stop |-> stop]}]
        /\ mproc' = IF stop THEN [pc |-> "dead"]
                    ELSE [mproc EXCEPT !.pc = "next", !.todo = @ \ {Min(@)}]
  BY MvtecTerms DEF Mvtec!AppendResult, Mvtec!Case, Mvtec!Dead
<1> HIDE DEF case
<1>4. /\ RowsHold(mresults', mledger) /\ mresults'.torn = mresults.torn
      /\ mresults'.rows = mresults.rows \cup {[case |-> case, stop |-> stop]}
  <2> DEFINE row == [case |-> case, stop |-> stop]
  <2>1. mresults' = [mresults EXCEPT !.rows = @ \cup {row}]
    BY <1>3
  <2> HIDE DEF row
  <2>2. /\ RowsHold(mresults', mledger) /\ mresults'.torn = mresults.torn
        /\ mresults'.rows = mresults.rows \cup {row}
    BY <1>2, <2>1, RowAdded
  <2> QED
    BY <2>2 DEF row
<1>5. CASE stop
  BY <1>2, <1>3, <1>4, <1>5 DEF MvtecHolds
<1>6. CASE ~stop
  <2>1. /\ mproc'.pc = "next" /\ mproc'.todo = mproc.todo \ {Min(mproc.todo)}
        /\ mproc' = [pc |-> "next", retry |-> mproc'.retry, todo |-> mproc'.todo]
    BY <1>2, <1>3, <1>6
  <2>2. \A i \in mproc'.todo : PilotCases[i] # case
    BY <1>2, <2>1, FirstPlace DEF Trusts, case
  <2>3. Trusts(mproc', mledger, mresults', PilotCases)
    BY <1>2, <1>4, <1>6, <2>1, <2>2 DEF Trusts
  <2>4. MvtecProc(mproc', mledger)
    BY <1>2, <2>1 DEF MvtecProc
  <2> QED
    BY <1>2, <1>4, <2>3, <2>4 DEF MvtecHolds
<1> QED
  BY <1>5, <1>6

LEMMA MvtecTears ==
  ASSUME AccountInv, Mvtec!CrashInAppend
  PROVE  MvtecHolds(mledger', mresults', mproc', sent, used)
<1>1. mproc' = [pc |-> "dead"]
  BY DEF Mvtec!CrashInAppend, Mvtec!Dead
<1>2. BookHolds(mledger, PilotCalls, PilotCap, sent, used) /\ RowsHold(mresults, mledger)
  BY DEF AccountInv, MvtecHolds
<1> DEFINE Kept == /\ BookHolds(mledger', PilotCalls, PilotCap, sent, used)
                   /\ RowsHold(mresults', mledger')
<1>3. ASSUME mledger' = [mledger EXCEPT !.torn = TRUE], mresults' = mresults
      PROVE  Kept
  <2>1. BookHolds(mledger', PilotCalls, PilotCap, sent, used)
    BY <1>2, <1>3, TearKeeps
  <2>2. mledger'.reserved = mledger.reserved /\ mledger'.settled = mledger.settled
    BY <1>2, <1>3 DEF BookHolds
  <2>3. RowsHold(mresults', mledger')
    BY <1>2, <1>3, <2>2 DEF RowsHold
  <2> QED
    BY <2>1, <2>3
<1>4. ASSUME mproc.pc = "call", Mvtec!Passes, mledger' = Reserving(mledger, {MvtecAsks(mproc)}),
             mresults' = mresults
      PROVE  Kept
  BY <1>4, MvtecReserved
<1>5. ASSUME mresults' = [mresults EXCEPT !.torn = TRUE], mledger' = mledger
      PROVE  Kept
  BY <1>2, <1>5, RowsTorn
<1>6. Kept
  <2>1. \/ mledger' = [mledger EXCEPT !.torn = TRUE] /\ mresults' = mresults
        \/ /\ mproc.pc = "call" /\ Mvtec!Passes /\ mresults' = mresults
           /\ mledger' = Reserving(mledger, {MvtecAsks(mproc)})
        \/ mresults' = [mresults EXCEPT !.torn = TRUE] /\ mledger' = mledger
    BY MvtecAsked, MvtecTerms DEF Mvtec!CrashInAppend
  <2> HIDE DEF Kept
  <2> QED
    BY <1>3, <1>4, <1>5, <2>1
<1> QED
  BY <1>1, <1>6, MvtecDies

--------------------------------------------------------------------------------
(* The adaptive pilot.                                                      *)

LEMMA AdaptiveTerms ==
  /\ \A L, t : Adaptive!Charged(L, t) = Charged(L, t)
  /\ \A L : Adaptive!Pending(L) = Pending(L)
  /\ \A L, calls : Adaptive!Reserving(L, calls) = Reserving(L, calls)
  /\ \A L, c, n : Adaptive!Settling(L, c, n) = Settling(L, c, n)
  /\ \A c, a, s : Adaptive!Call(c, a, s) = Call(c, a, s)
  /\ \A L, c, a : Adaptive!SlotsReserved(L, c, a) = SlotsReserved(L, c, a)
  /\ \A S : Adaptive!Min(S) = Min(S)
  /\ Adaptive!Tiers = Tiers
<1>1. ASSUME NEW L, NEW t PROVE Adaptive!Charged(L, t) = Charged(L, t)
  BY DEF Adaptive!Charged, Charged, Adaptive!OfTier, OfTier, Adaptive!Charge, Charge,
     Adaptive!Tier, Tier,
     Adaptive!SumFunction, SumFunction, Adaptive!SumFunctionOnSet, SumFunctionOnSet,
     Adaptive!FoldFunctionOnSet, FoldFunctionOnSet, Adaptive!MapThenFoldSet, MapThenFoldSet
<1>2. \A L : Adaptive!Pending(L) = Pending(L)
  BY DEF Adaptive!Pending, Pending
<1>3. \A L, calls : Adaptive!Reserving(L, calls) = Reserving(L, calls)
  BY DEF Adaptive!Reserving, Reserving
<1>4. \A L, c, n : Adaptive!Settling(L, c, n) = Settling(L, c, n)
  BY DEF Adaptive!Settling, Settling
<1>5. \A c, a, s : Adaptive!Call(c, a, s) = Call(c, a, s)
  BY DEF Adaptive!Call, Call
<1>6. \A L, c, a : Adaptive!SlotsReserved(L, c, a) = SlotsReserved(L, c, a)
  BY DEF Adaptive!SlotsReserved, SlotsReserved
<1>7. \A S : Adaptive!Min(S) = Min(S)
  BY DEF Adaptive!Min, Min
<1>8. Adaptive!Tiers = Tiers
  BY DEF Adaptive!Tiers, Tiers
<1> QED
  BY <1>1, <1>2, <1>3, <1>4, <1>5, <1>6, <1>7, <1>8

LEMMA AdaptiveCase ==
  /\ Adaptive!Case = AdaptiveCases[Min(aproc.todo)]
  /\ \A s : Adaptive!Of(s) = AdaptiveOf(aproc, s)
  BY AdaptiveTerms DEF Adaptive!Case, Adaptive!Of, AdaptiveOf

\* The budget that both the cap and the red line leave to a tier.
Covers(L, t) ==
  Charged(L, t) <= AdaptiveCap[t] /\ Imported[t] + Charged(L, t) + RedLine <= Allowance

\* The check of a summary, where the charges are numbers.
LEMMA SummaryCovers ==
  ASSUME NEW L, Adaptive!AdaptiveSummaryHolds(L, Imported), NEW t \in Tiers, Charged(L, t) \in Nat
  PROVE  Covers(L, t)
<1>1. Charged(L, t) <= AdaptiveCap[t] /\ Allowance - Imported[t] - Charged(L, t) >= RedLine
  BY AdaptiveTerms DEF Adaptive!AdaptiveSummaryHolds
<1>2. Imported[t] \in Nat
  BY AccountAssumption DEF Imported, Tiers
<1>3. Allowance \in Nat /\ RedLine \in Nat
  BY BudgetAssumption
<1> QED
  BY <1>1, <1>2, <1>3 DEF Covers

\* The book that a reservation which was checked leaves.
LEMMA AdaptiveBook ==
  ASSUME NEW L, NEW sn, NEW us, BookHolds(L, AdaptiveCalls, AdaptiveCap, sn, us),
         Pending(L) = {}, NEW calls \in SUBSET AdaptiveCalls, IsFiniteSet(calls),
         calls \cap L.reserved = {},
         \A c, d \in calls : Tier(c.slot) = Tier(d.slot) => c = d,
         NEW M, M = Reserving(L, calls), Adaptive!AdaptiveSummaryHolds(M, Imported)
  PROVE  /\ BookHolds(M, AdaptiveCalls, AdaptiveCap, sn, us) /\ Pending(M) = calls
         /\ \A t \in Tiers : Covers(M, t)
         /\ M.reserved = L.reserved \cup calls /\ M.settled = L.settled /\ M.torn = L.torn
<1>1. \A t \in Tiers : Charged(M, t) <= AdaptiveCap[t]
  BY AdaptiveTerms DEF Adaptive!AdaptiveSummaryHolds
<1>2. BookHolds(M, AdaptiveCalls, AdaptiveCap, sn, us) /\ Pending(M) = calls
  BY <1>1, ReserveKeeps
<1>3. \A t \in Tiers : Covers(M, t)
  BY <1>2, ChargesCount, SummaryCovers
<1>4. M.reserved = L.reserved \cup calls /\ M.settled = L.settled /\ M.torn = L.torn
  BY DEF BookHolds, Reserving
<1> QED
  BY <1>2, <1>3, <1>4

LEMMA AdaptiveBookNow ==
  AccountInv => /\ BookHolds(aledger, AdaptiveCalls, AdaptiveCap, sent, used)
                /\ RowsHold(aresults, aledger)
                /\ \A t \in Tiers : Covers(aledger, t)
  BY DEF AccountInv, AdaptiveHolds, BookHolds, Covers

\* What holds of a live process.
LEMMA AdaptiveLive ==
  ASSUME AccountInv, aproc.pc # "dead"
  PROVE  /\ Trusts(aproc, aledger, aresults, AdaptiveCases)
         /\ aproc.prior = Imported /\ AdaptiveProc(aproc, aledger, sent)
         /\ aproc.todo # {} =>
              /\ Min(aproc.todo) \in aproc.todo /\ Min(aproc.todo) \in DOMAIN AdaptiveCases
              /\ \A i \in aproc.todo \ {Min(aproc.todo)} :
                   AdaptiveCases[i] # AdaptiveCases[Min(aproc.todo)]
              /\ \A s \in {"primary", "scout", "final"} : AdaptiveOf(aproc, s) \in AdaptiveCalls
<1>1. /\ Trusts(aproc, aledger, aresults, AdaptiveCases)
      /\ aproc.prior = Imported /\ AdaptiveProc(aproc, aledger, sent)
  BY DEF AccountInv, AdaptiveHolds
<1>2. ASSUME aproc.todo # {}
      PROVE  /\ Min(aproc.todo) \in aproc.todo /\ Min(aproc.todo) \in DOMAIN AdaptiveCases
             /\ \A i \in aproc.todo \ {Min(aproc.todo)} :
                   AdaptiveCases[i] # AdaptiveCases[Min(aproc.todo)]
  BY <1>1, <1>2, FirstPlace DEF Trusts
<1>3. ASSUME aproc.todo # {}
      PROVE  \A s \in {"primary", "scout", "final"} : AdaptiveOf(aproc, s) \in AdaptiveCalls
  BY <1>2, <1>3 DEF AdaptiveOf, AdaptiveCalls
<1> QED
  BY <1>1, <1>2, <1>3

LEMMA AdaptiveDies ==
  ASSUME NEW L, NEW R, NEW P, NEW sn, NEW us,
         BookHolds(L, AdaptiveCalls, AdaptiveCap, sn, us), RowsHold(R, L),
         \A t \in Tiers : Covers(L, t), P = [pc |-> "dead"]
  PROVE  AdaptiveHolds(L, R, P, sn, us)
  BY DEF AdaptiveHolds, Covers

LEMMA AdaptiveGoesOn ==
  ASSUME NEW L, NEW R, NEW P, NEW sn, NEW us,
         BookHolds(L, AdaptiveCalls, AdaptiveCap, sn, us), RowsHold(R, L),
         \A t \in Tiers : Covers(L, t),
         Trusts(P, L, R, AdaptiveCases), P.prior = Imported, AdaptiveProc(P, L, sn)
  PROVE  AdaptiveHolds(L, R, P, sn, us)
  BY DEF AdaptiveHolds, Covers

LEMMA AdaptiveStarts ==
  ASSUME AccountInv, Adaptive!Start
  PROVE  AdaptiveHolds(aledger, aresults, aproc', sent, used)
<1> DEFINE open == {i \in DOMAIN AdaptiveCases : AdaptiveCases[i] \notin Adaptive!Completed}
<1>1. /\ ~aresults.torn /\ ~aledger.torn /\ Pending(aledger) = {}
      /\ \A row \in aresults.rows : ~row.stop
      /\ PriorUsage.revision = "pinned"
      /\ aproc' = [pc |-> "next", prior |-> PriorUsage, todo |-> open]
  BY AdaptiveTerms DEF Adaptive!Start, Adaptive!StartAllowed, Adaptive!SafetyStopped
<1>2. PriorUsage = Imported
  BY <1>1 DEF PriorUsage, Imported
<1>3. /\ aproc'.pc = "next" /\ aproc'.todo = open /\ aproc'.prior = Imported
      /\ aproc' = [pc |-> "next", prior |-> aproc'.prior, todo |-> aproc'.todo]
  BY <1>1, <1>2
<1>4. Trusts(aproc', aledger, aresults, AdaptiveCases)
  BY <1>1, <1>3 DEF Trusts, Adaptive!Completed
<1>5. AdaptiveProc(aproc', aledger, sent)
  BY <1>1, <1>3 DEF AdaptiveProc
<1> QED
  BY <1>3, <1>4, <1>5, AdaptiveBookNow, AdaptiveGoesOn

\* The observers of the case at hand are reserved together.
ObserverCalls(P) == {AdaptiveOf(P, "primary"), AdaptiveOf(P, "scout")}

LEMMA ObserversReserved ==
  ASSUME AccountInv, aproc.pc = "next", aproc.todo # {},
         Adaptive!InitialAllowed(aledger, aproc.prior, Adaptive!Case),
         NEW L, L = Reserving(aledger, ObserverCalls(aproc))
  PROVE  /\ Pending(aledger) = {} /\ ObserverCalls(aproc) \cap aledger.reserved = {}
         /\ BookHolds(L, AdaptiveCalls, AdaptiveCap, sent, used)
         /\ Pending(L) = ObserverCalls(aproc) /\ \A t \in Tiers : Covers(L, t)
         /\ RowsHold(aresults, L) /\ L.torn = aledger.torn
         /\ L.reserved = aledger.reserved \cup ObserverCalls(aproc) /\ L.settled = aledger.settled
<1> DEFINE case == AdaptiveCases[Min(aproc.todo)]
           calls == ObserverCalls(aproc)
<1>1. /\ Pending(aledger) = {} /\ SlotsReserved(aledger, case, 1) = {}
      /\ Adaptive!AdaptiveSummaryHolds(L, Imported)
  BY AdaptiveTerms, AdaptiveCase, AdaptiveLive
     DEF Adaptive!InitialAllowed, Adaptive!Observers, ObserverCalls, AdaptiveOf
<1>2. \A c \in calls : /\ c.case = case /\ c.attempt = 1 /\ c \in AdaptiveCalls
  BY AdaptiveLive DEF ObserverCalls, AdaptiveOf, Call
<1>3. calls \cap aledger.reserved = {}
  BY <1>1, <1>2 DEF SlotsReserved
<1>4. \A c, d \in calls : Tier(c.slot) = Tier(d.slot) => c = d
  BY DEF ObserverCalls, AdaptiveOf, Call, Tier
<1>5. IsFiniteSet(calls)
  <2>1. calls = {AdaptiveOf(aproc, "primary")} \cup {AdaptiveOf(aproc, "scout")}
    BY DEF ObserverCalls
  <2> HIDE DEF calls
  <2> QED
    BY <2>1, FS_Singleton, FS_AddElement
<1>6. \A row \in aresults.rows : \A c \in calls : c.case # row.case
  BY <1>2, AdaptiveLive DEF Trusts
<1>7. calls \in SUBSET AdaptiveCalls
  BY <1>2
<1> HIDE DEF calls, case
<1>8. L = Reserving(aledger, calls)
  BY DEF calls
<1>9. /\ BookHolds(L, AdaptiveCalls, AdaptiveCap, sent, used)
      /\ Pending(L) = calls /\ \A t \in Tiers : Covers(L, t)
      /\ L.reserved = aledger.reserved \cup calls /\ L.settled = aledger.settled
      /\ L.torn = aledger.torn
  BY <1>1, <1>3, <1>4, <1>5, <1>7, <1>8, AdaptiveBook, AdaptiveBookNow
<1>10. RowsHold(aresults, L)
  BY <1>6, <1>8, RowsReserved, AdaptiveBookNow DEF BookHolds
<1> QED
  BY <1>1, <1>3, <1>9, <1>10 DEF calls

LEMMA AdaptiveBegins ==
  ASSUME AccountInv, Adaptive!BeginCase
  PROVE  AdaptiveHolds(aledger', aresults, aproc', sent, used)
<1>1. /\ aproc.pc = "next" /\ aproc.todo # {}
      /\ Adaptive!InitialAllowed(aledger, aproc.prior, Adaptive!Case)
      /\ aproc' = [pc |-> "observe", prior |-> aproc.prior, todo |-> aproc.todo,
                   expected |-> {"primary", "scout"}, flying |-> {},
                   records |-> {}, failed |-> {}]
  BY DEF Adaptive!BeginCase
<1>2. aledger' = Reserving(aledger, ObserverCalls(aproc))
  BY AdaptiveTerms, AdaptiveCase
     DEF Adaptive!BeginCase, Adaptive!Observers, ObserverCalls, AdaptiveOf
<1>3. /\ Pending(aledger) = {} /\ ObserverCalls(aproc) \cap aledger.reserved = {}
      /\ BookHolds(aledger', AdaptiveCalls, AdaptiveCap, sent, used)
      /\ Pending(aledger') = ObserverCalls(aproc) /\ \A t \in Tiers : Covers(aledger', t)
      /\ RowsHold(aresults, aledger') /\ aledger'.torn = aledger.torn
  BY <1>1, <1>2, ObserversReserved
<1>4. /\ aproc'.pc = "observe" /\ aproc'.todo = aproc.todo /\ aproc'.prior = aproc.prior
      /\ aproc'.expected = {"primary", "scout"} /\ aproc'.flying = {} /\ aproc'.failed = {}
      /\ aproc' = [pc |-> aproc'.pc, prior |-> aproc'.prior, todo |-> aproc'.todo,
                   expected |-> aproc'.expected, flying |-> aproc'.flying,
                   records |-> aproc'.records, failed |-> aproc'.failed]
  BY <1>1
<1>5. Trusts(aproc', aledger', aresults, AdaptiveCases)
  BY <1>1, <1>3, <1>4, AdaptiveLive DEF Trusts
<1>6. \A s \in {"primary", "scout"} : sent[AdaptiveOf(aproc, s)] = 0
  <2>1. \A s \in {"primary", "scout"} :
          AdaptiveOf(aproc, s) \in AdaptiveCalls /\ AdaptiveOf(aproc, s) \notin aledger.reserved
    BY <1>1, <1>3, AdaptiveLive DEF ObserverCalls
  <2> QED
    BY <2>1, AdaptiveBookNow DEF BookHolds
<1>7. \A s : AdaptiveOf(aproc', s) = AdaptiveOf(aproc, s)
  BY <1>4 DEF AdaptiveOf
<1>8. Pending(aledger') = {AdaptiveOf(aproc', s) : s \in {"primary", "scout"}}
  BY <1>3, <1>7 DEF ObserverCalls
<1>9. AdaptiveProc(aproc', aledger', sent)
  BY <1>1, <1>4, <1>6, <1>7, <1>8 DEF AdaptiveProc
<1> QED
  BY <1>1, <1>3, <1>4, <1>5, <1>9, AdaptiveLive, AdaptiveGoesOn

\* What holds while calls are out.
LEMMA AdaptiveCalling ==
  ASSUME AccountInv, aproc.pc \in {"observe", "verify"}
  PROVE  /\ aproc = [pc |-> aproc.pc, prior |-> aproc.prior, todo |-> aproc.todo,
                     expected |-> aproc.expected, flying |-> aproc.flying,
                     records |-> aproc.records, failed |-> aproc.failed]
         /\ aproc.todo # {}
         /\ Pending(aledger) =
              {AdaptiveOf(aproc, s) : s \in aproc.expected \cup aproc.flying \cup aproc.failed}
         /\ aproc.expected \cap aproc.flying = {} /\ aproc.expected \cap aproc.failed = {}
         /\ aproc.flying \cap aproc.failed = {}
         /\ \A s \in aproc.expected : sent[AdaptiveOf(aproc, s)] = 0
  BY AdaptiveLive DEF AdaptiveProc

LEMMA AdaptiveSends ==
  ASSUME AccountInv, NEW slot \in {"primary", "scout", "final"}, Adaptive!Send(slot)
  PROVE  /\ AdaptiveHolds(aledger, aresults, aproc', sent', used')
         /\ MvtecHolds(mledger, mresults, mproc, sent', used')
         /\ sent' = [c \in Calls |-> sent'[c]] /\ used' = [c \in Calls |-> used'[c]]
<1> DEFINE c == AdaptiveOf(aproc, slot)
<1>1. /\ aproc.pc \in {"observe", "verify"} /\ slot \in aproc.expected
      /\ aproc' = [aproc EXCEPT !.expected = @ \ {slot}, !.flying = @ \cup {slot}]
      /\ c \in Pending(aledger)
      /\ sent' = [sent EXCEPT ![c] = @ + 1]
  BY AdaptiveTerms, AdaptiveCase DEF Adaptive!Send, Adaptive!SpendSlot
<1>2. PICK n \in Nat : used' = [used EXCEPT ![c] = @ + n]
  BY AdaptiveCase, AccountAssumption DEF Adaptive!Send
<1>3. c \in AdaptiveCalls /\ sent[c] = 0
  BY <1>1, AdaptiveCalling, AdaptiveLive
<1> HIDE DEF c
<1>4. sent = [d \in Calls |-> sent[d]] /\ used = [d \in Calls |-> used[d]]
  BY DEF AccountInv
<1>5. /\ \A d \in Calls : /\ sent'[d] = (IF d = c THEN sent[c] + 1 ELSE sent[d])
                          /\ used'[d] = (IF d = c THEN used[c] + n ELSE used[d])
      /\ sent' = [d \in Calls |-> sent'[d]] /\ used' = [d \in Calls |-> used'[d]]
  BY <1>1, <1>2, <1>4
<1>6. BookHolds(aledger, AdaptiveCalls, AdaptiveCap, sent', used')
  <2>1. \A d \in AdaptiveCalls : /\ sent'[d] = (IF d = c THEN sent[c] + 1 ELSE sent[d])
                                /\ used'[d] = (IF d = c THEN used[c] + n ELSE used[d])
    BY <1>5, CallsApart
  <2>2. BookHolds(aledger, AdaptiveCalls, AdaptiveCap, sent, used)
    BY AdaptiveBookNow
  <2>3. c \in Pending(aledger) /\ sent[c] = 0 /\ n \in Nat
    BY <1>1, <1>3
  <2> QED
    BY <2>1, <2>2, <2>3, SendKeeps
<1>7. MvtecHolds(mledger, mresults, mproc, sent', used')
  <2>1. \A d \in PilotCalls : sent'[d] = sent[d] /\ used'[d] = used[d]
    BY <1>3, <1>5, CallsApart
  <2> QED
    BY <2>1, MvtecFrame DEF AccountInv
<1>8. /\ aproc'.pc = aproc.pc /\ aproc'.todo = aproc.todo /\ aproc'.prior = aproc.prior
      /\ aproc'.expected = aproc.expected \ {slot} /\ aproc'.flying = aproc.flying \cup {slot}
      /\ aproc'.failed = aproc.failed
      /\ aproc' = [pc |-> aproc'.pc, prior |-> aproc'.prior, todo |-> aproc'.todo,
                   expected |-> aproc'.expected, flying |-> aproc'.flying,
                   records |-> aproc'.records, failed |-> aproc'.failed]
  BY <1>1, AdaptiveCalling
<1>9. \A s : AdaptiveOf(aproc', s) = AdaptiveOf(aproc, s)
  BY <1>8 DEF AdaptiveOf
<1>10. aproc'.expected \cup aproc'.flying \cup aproc'.failed
         = aproc.expected \cup aproc.flying \cup aproc.failed
  BY <1>1, <1>8
<1>11. \A s \in aproc'.expected : sent'[AdaptiveOf(aproc', s)] = 0
  <2> TAKE s \in aproc'.expected
  <2>1. /\ AdaptiveOf(aproc, s) # c /\ sent[AdaptiveOf(aproc, s)] = 0
    BY <1>1, <1>8, AdaptiveCalling DEF c, AdaptiveOf, Call
  <2>2. AdaptiveOf(aproc, s) \in AdaptiveCalls
    BY <1>1, <1>8, AdaptiveCalling, AdaptiveBookNow DEF BookHolds, Pending
  <2> QED
    BY <1>5, <1>9, <2>1, <2>2, CallsApart
<1>12. Trusts(aproc', aledger, aresults, AdaptiveCases)
  BY <1>1, <1>8, AdaptiveLive DEF Trusts
<1>13. Pending(aledger) =
         {AdaptiveOf(aproc', s) : s \in aproc'.expected \cup aproc'.flying \cup aproc'.failed}
  BY <1>1, <1>9, <1>10, AdaptiveCalling
<1>14. /\ aproc'.expected \cap aproc'.flying = {} /\ aproc'.expected \cap aproc'.failed = {}
       /\ aproc'.flying \cap aproc'.failed = {}
  BY <1>1, <1>8, AdaptiveCalling
<1>15. AdaptiveProc(aproc', aledger, sent')
  BY <1>1, <1>8, <1>11, <1>13, <1>14, AdaptiveCalling DEF AdaptiveProc
<1>16. AdaptiveHolds(aledger, aresults, aproc', sent', used')
  BY <1>1, <1>6, <1>8, <1>12, <1>15, AdaptiveLive, AdaptiveBookNow, AdaptiveGoesOn
<1> QED
  BY <1>5, <1>7, <1>16

LEMMA AdaptiveSettlesIt ==
  ASSUME AccountInv, NEW slot \in {"primary", "scout", "final"}, Adaptive!Settle(slot)
  PROVE  AdaptiveHolds(aledger', aresults, aproc', sent, used)
<1> DEFINE c == AdaptiveOf(aproc, slot)
<1>1. /\ aproc.pc \in {"observe", "verify"} /\ slot \in aproc.flying
      /\ aproc' = [aproc EXCEPT !.flying = @ \ {slot}, !.records = @ \cup {slot}]
      /\ aledger' = Settling(aledger, c, used[c])
      /\ c \in Pending(aledger) /\ used[c] \in 1..Reserve
      /\ Adaptive!AdaptiveSummaryHolds(aledger', aproc.prior)
  BY AdaptiveTerms, AdaptiveCase DEF Adaptive!Settle, Adaptive!AdaptiveSettleAllowed
<1>2. Adaptive!AdaptiveSummaryHolds(aledger', Imported)
  BY <1>1, AdaptiveLive
<1>3. \A t \in Tiers : Charged(aledger', t) <= AdaptiveCap[t]
  BY <1>2, AdaptiveTerms DEF Adaptive!AdaptiveSummaryHolds
<1> HIDE DEF c
<1>4. /\ BookHolds(aledger', AdaptiveCalls, AdaptiveCap, sent, used)
      /\ Pending(aledger') = Pending(aledger) \ {c}
      /\ aledger'.reserved = aledger.reserved
      /\ DOMAIN aledger'.settled = {c} \cup DOMAIN aledger.settled
  BY <1>1, <1>3, AdaptiveBookNow, SettleKeeps
<1>5. aledger'.torn = aledger.torn
  BY <1>1, AdaptiveBookNow DEF BookHolds, Settling
<1>6. \A t \in Tiers : Covers(aledger', t)
  BY <1>2, <1>4, ChargesCount, SummaryCovers
<1>7. RowsHold(aresults, aledger')
  BY <1>4, AdaptiveBookNow, RowsSettled
<1>8. /\ aproc'.pc = aproc.pc /\ aproc'.todo = aproc.todo /\ aproc'.prior = aproc.prior
      /\ aproc'.expected = aproc.expected /\ aproc'.flying = aproc.flying \ {slot}
      /\ aproc'.failed = aproc.failed
      /\ aproc' = [pc |-> aproc'.pc, prior |-> aproc'.prior, todo |-> aproc'.todo,
                   expected |-> aproc'.expected, flying |-> aproc'.flying,
                   records |-> aproc'.records, failed |-> aproc'.failed]
  BY <1>1, AdaptiveCalling
<1>9. \A s : AdaptiveOf(aproc', s) = AdaptiveOf(aproc, s)
  BY <1>8 DEF AdaptiveOf
<1>10. Pending(aledger') =
         {AdaptiveOf(aproc', s) : s \in aproc'.expected \cup aproc'.flying \cup aproc'.failed}
  <2>1. \A s : AdaptiveOf(aproc, s) = c <=> s = slot
    BY DEF c, AdaptiveOf, Call
  <2>2. aproc'.expected \cup aproc'.flying \cup aproc'.failed
          = (aproc.expected \cup aproc.flying \cup aproc.failed) \ {slot}
    BY <1>1, <1>8, AdaptiveCalling
  <2> QED
    BY <1>1, <1>4, <1>9, <2>1, <2>2, AdaptiveCalling
<1>11. /\ aproc'.expected \cap aproc'.flying = {} /\ aproc'.expected \cap aproc'.failed = {}
       /\ aproc'.flying \cap aproc'.failed = {}
       /\ \A s \in aproc'.expected : sent[AdaptiveOf(aproc', s)] = 0
  BY <1>1, <1>8, <1>9, AdaptiveCalling
<1>12. Trusts(aproc', aledger', aresults, AdaptiveCases)
  BY <1>1, <1>5, <1>8, AdaptiveLive DEF Trusts
<1>13. AdaptiveProc(aproc', aledger', sent)
  BY <1>1, <1>8, <1>10, <1>11, AdaptiveCalling DEF AdaptiveProc
<1> QED
  BY <1>1, <1>4, <1>6, <1>7, <1>8, <1>12, <1>13, AdaptiveLive, AdaptiveGoesOn

LEMMA AdaptiveLoses ==
  ASSUME AccountInv, NEW slot \in {"primary", "scout", "final"}, Adaptive!Lose(slot)
  PROVE  AdaptiveHolds(aledger, aresults, aproc', sent, used)
<1>1. /\ aproc.pc \in {"observe", "verify"} /\ slot \in aproc.flying
      /\ aproc' = [aproc EXCEPT !.flying = @ \ {slot}, !.failed = @ \cup {slot}]
  BY DEF Adaptive!Lose
<1>2. /\ aproc'.pc = aproc.pc /\ aproc'.todo = aproc.todo /\ aproc'.prior = aproc.prior
      /\ aproc'.expected = aproc.expected /\ aproc'.flying = aproc.flying \ {slot}
      /\ aproc'.failed = aproc.failed \cup {slot}
      /\ aproc' = [pc |-> aproc'.pc, prior |-> aproc'.prior, todo |-> aproc'.todo,
                   expected |-> aproc'.expected, flying |-> aproc'.flying,
                   records |-> aproc'.records, failed |-> aproc'.failed]
  BY <1>1, AdaptiveCalling
<1>3. \A s : AdaptiveOf(aproc', s) = AdaptiveOf(aproc, s)
  BY <1>2 DEF AdaptiveOf
<1>4. Pending(aledger) =
         {AdaptiveOf(aproc', s) : s \in aproc'.expected \cup aproc'.flying \cup aproc'.failed}
  <2>1. aproc'.expected \cup aproc'.flying \cup aproc'.failed
          = aproc.expected \cup aproc.flying \cup aproc.failed
    BY <1>1, <1>2
  <2> QED
    BY <1>1, <1>3, <2>1, AdaptiveCalling
<1>5. /\ aproc'.expected \cap aproc'.flying = {} /\ aproc'.expected \cap aproc'.failed = {}
      /\ aproc'.flying \cap aproc'.failed = {}
      /\ \A s \in aproc'.expected : sent[AdaptiveOf(aproc', s)] = 0
  BY <1>1, <1>2, <1>3, AdaptiveCalling
<1>6. Trusts(aproc', aledger, aresults, AdaptiveCases)
  BY <1>1, <1>2, AdaptiveLive DEF Trusts
<1>7. AdaptiveProc(aproc', aledger, sent)
  BY <1>1, <1>2, <1>4, <1>5, AdaptiveCalling DEF AdaptiveProc
<1> QED
  BY <1>1, <1>2, <1>6, <1>7, AdaptiveLive, AdaptiveBookNow, AdaptiveGoesOn

LEMMA AdaptiveAllowsFinal ==
  ASSUME AccountInv, Adaptive!AllowFinal
  PROVE  AdaptiveHolds(aledger', aresults, aproc', sent, used)
<1>1. aproc.pc = "observe" /\ aproc.expected = {} /\ aproc.flying = {} /\ aproc.failed = {}
  BY DEF Adaptive!AllowFinal, Adaptive!Answered
<1>2. ASSUME ~Adaptive!FinalAllowed(aledger, aproc.prior, Adaptive!Case),
             aproc' = [pc |-> "dead"], aledger' = aledger
      PROVE  AdaptiveHolds(aledger', aresults, aproc', sent, used)
  BY <1>2, AdaptiveBookNow, AdaptiveDies
<1> DEFINE c == AdaptiveOf(aproc, "final")
<1>3. ASSUME Adaptive!FinalAllowed(aledger, aproc.prior, Adaptive!Case),
             aledger' = Reserving(aledger, {c}),
             aproc' = [aproc EXCEPT !.pc = "verify", !.expected = {"final"}]
      PROVE  AdaptiveHolds(aledger', aresults, aproc', sent, used)
  <2>1. /\ Pending(aledger) = {}
        /\ SlotsReserved(aledger, AdaptiveCases[Min(aproc.todo)], 1) = {"primary", "scout"}
        /\ Adaptive!AdaptiveSummaryHolds(aledger', Imported)
    BY <1>1, <1>3, AdaptiveTerms, AdaptiveCase, AdaptiveLive DEF Adaptive!FinalAllowed, AdaptiveOf
  <2>2. /\ c.case = AdaptiveCases[Min(aproc.todo)] /\ c.attempt = 1 /\ c.slot = "final"
        /\ c \in AdaptiveCalls
    BY <1>1, AdaptiveLive, AdaptiveCalling DEF AdaptiveOf, Call
  <2>3. c \notin aledger.reserved
    BY <2>1, <2>2 DEF SlotsReserved
  <2> HIDE DEF c
  <2>4. /\ {c} \in SUBSET AdaptiveCalls /\ IsFiniteSet({c}) /\ {c} \cap aledger.reserved = {}
        /\ \A d, e \in {c} : d = e
    BY <2>2, <2>3, FS_Singleton
  <2>5. /\ BookHolds(aledger', AdaptiveCalls, AdaptiveCap, sent, used)
        /\ Pending(aledger') = {c} /\ \A t \in Tiers : Covers(aledger', t)
        /\ aledger'.torn = aledger.torn
    BY <1>3, <2>1, <2>4, AdaptiveBook, AdaptiveBookNow
  <2>6. \A row \in aresults.rows : c.case # row.case
    BY <1>1, <2>2, AdaptiveLive, AdaptiveCalling DEF Trusts
  <2>7. RowsHold(aresults, aledger')
    BY <1>3, <2>6, RowsReserved, AdaptiveBookNow DEF BookHolds
  <2>8. /\ aproc'.pc = "verify" /\ aproc'.todo = aproc.todo /\ aproc'.prior = aproc.prior
        /\ aproc'.expected = {"final"} /\ aproc'.flying = {} /\ aproc'.failed = {}
        /\ aproc' = [pc |-> aproc'.pc, prior |-> aproc'.prior, todo |-> aproc'.todo,
                     expected |-> aproc'.expected, flying |-> aproc'.flying,
                     records |-> aproc'.records, failed |-> aproc'.failed]
    BY <1>1, <1>3, AdaptiveCalling
  <2>9. AdaptiveOf(aproc', "final") = c
    BY <2>8 DEF AdaptiveOf, c
  <2>10. sent[c] = 0
    BY <2>2, <2>3, AdaptiveBookNow DEF BookHolds
  <2>11. Trusts(aproc', aledger', aresults, AdaptiveCases)
    BY <1>1, <2>5, <2>8, AdaptiveLive DEF Trusts
  <2>12. AdaptiveProc(aproc', aledger', sent)
    BY <1>1, <2>5, <2>8, <2>9, <2>10, AdaptiveCalling DEF AdaptiveProc
  <2> QED
    BY <1>1, <2>5, <2>7, <2>8, <2>11, <2>12, AdaptiveLive, AdaptiveGoesOn
<1>4. \/ /\ Adaptive!FinalAllowed(aledger, aproc.prior, Adaptive!Case)
         /\ aledger' = Reserving(aledger, {c})
         /\ aproc' = [aproc EXCEPT !.pc = "verify", !.expected = {"final"}]
      \/ /\ ~Adaptive!FinalAllowed(aledger, aproc.prior, Adaptive!Case)
         /\ aproc' = [pc |-> "dead"] /\ aledger' = aledger
  BY AdaptiveTerms, AdaptiveCase DEF Adaptive!AllowFinal, Adaptive!Dead
<1> QED
  BY <1>2, <1>3, <1>4

LEMMA AdaptiveDecides ==
  ASSUME AccountInv, Adaptive!Decide
  PROVE  AdaptiveHolds(aledger, aresults, aproc', sent, used)
<1>1. aproc.pc \in {"observe", "verify"} /\ Pending(aledger) = {}
  BY AdaptiveTerms DEF Adaptive!Decide
<1>2. PICK stop \in BOOLEAN :
        aproc' = [pc |-> "result", prior |-> aproc.prior, todo |-> aproc.todo, stop |-> stop]
  BY DEF Adaptive!Decide
<1>3. /\ aproc'.pc = "result" /\ aproc'.todo = aproc.todo /\ aproc'.prior = aproc.prior
      /\ aproc'.stop = stop
      /\ aproc' = [pc |-> "result", prior |-> aproc'.prior, todo |-> aproc'.todo,
                   stop |-> aproc'.stop]
  BY <1>2
<1>4. Trusts(aproc', aledger, aresults, AdaptiveCases)
  BY <1>1, <1>3, AdaptiveLive DEF Trusts
<1>5. AdaptiveProc(aproc', aledger, sent)
  BY <1>1, <1>3, AdaptiveCalling DEF AdaptiveProc
<1> QED
  BY <1>1, <1>3, <1>4, <1>5, AdaptiveLive, AdaptiveBookNow, AdaptiveGoesOn

LEMMA AdaptiveRecords ==
  ASSUME AccountInv, Adaptive!AppendResult
  PROVE  AdaptiveHolds(aledger, aresults', aproc', sent, used)
<1>1. aproc.pc = "result"
  BY DEF Adaptive!AppendResult
<1>2. aproc.todo # {} /\ Pending(aledger) = {} /\ aproc.stop \in BOOLEAN
  BY <1>1, AdaptiveLive DEF AdaptiveProc
<1> DEFINE case == AdaptiveCases[Min(aproc.todo)]
           row == [case |-> case, stop |-> aproc.stop]
<1>3. /\ aresults' = [aresults EXCEPT !.rows = @ \cup {row}]
      /\ aproc' = IF aproc.stop THEN [pc |-> "dead"]
                  ELSE [pc |-> "next", prior |-> aproc.prior,
                        todo |-> aproc.todo \ {Min(aproc.todo)}]
  BY AdaptiveTerms, AdaptiveCase DEF Adaptive!AppendResult, Adaptive!Dead
<1>4. row.case = case /\ row.stop = aproc.stop
  OBVIOUS
<1> HIDE DEF case, row
<1>5. /\ RowsHold(aresults', aledger) /\ aresults'.torn = aresults.torn
      /\ aresults'.rows = aresults.rows \cup {row}
  BY <1>2, <1>3, RowAdded, AdaptiveBookNow
<1>6. CASE aproc.stop
  BY <1>3, <1>5, <1>6, AdaptiveBookNow, AdaptiveDies
<1>7. CASE ~aproc.stop
  <2>1. /\ aproc'.pc = "next" /\ aproc'.todo = aproc.todo \ {Min(aproc.todo)}
        /\ aproc'.prior = aproc.prior
        /\ aproc' = [pc |-> "next", prior |-> aproc'.prior, todo |-> aproc'.todo]
    BY <1>3, <1>7
  <2>2. \A i \in aproc'.todo : AdaptiveCases[i] # case
    BY <1>1, <1>2, <2>1, AdaptiveLive DEF case
  <2>3. Trusts(aproc', aledger, aresults', AdaptiveCases)
    BY <1>1, <1>4, <1>5, <1>7, <2>1, <2>2, AdaptiveLive DEF Trusts
  <2>4. AdaptiveProc(aproc', aledger, sent)
    BY <1>2, <2>1 DEF AdaptiveProc
  <2> QED
    BY <1>1, <1>5, <2>1, <2>3, <2>4, AdaptiveLive, AdaptiveBookNow, AdaptiveGoesOn
<1> QED
  BY <1>6, <1>7


LEMMA AdaptiveTears ==
  ASSUME AccountInv, Adaptive!CrashInAppend
  PROVE  AdaptiveHolds(aledger', aresults', aproc', sent, used)
<1>1. aproc' = [pc |-> "dead"]
  BY DEF Adaptive!CrashInAppend, Adaptive!Dead
<1>2. /\ BookHolds(aledger, AdaptiveCalls, AdaptiveCap, sent, used) /\ RowsHold(aresults, aledger)
      /\ \A t \in Tiers : Covers(aledger, t)
  BY AdaptiveBookNow
<1> DEFINE Kept(L, R) == /\ BookHolds(L, AdaptiveCalls, AdaptiveCap, sent, used) /\ RowsHold(R, L)
                         /\ \A t \in Tiers : Covers(L, t)
<1>3. ASSUME NEW L, NEW M, NEW b \in BOOLEAN, Kept(L, aresults), M = [L EXCEPT !.torn = b]
      PROVE  Kept(M, aresults)
  <2>1. /\ BookHolds(M, AdaptiveCalls, AdaptiveCap, sent, used)
        /\ \A t : Charged(M, t) = Charged(L, t)
    BY <1>3, TearKeeps
  <2>2. M.reserved = L.reserved /\ M.settled = L.settled
    BY <1>3 DEF BookHolds
  <2>3. RowsHold(aresults, M)
    BY <1>3, <2>2 DEF RowsHold
  <2> QED
    BY <1>3, <2>1, <2>3 DEF Covers
<1>4. ASSUME NEW lines \in {{}, {AdaptiveOf(aproc, "primary")}},
             NEW L, L = Reserving(aledger, lines),
             aproc.pc = "next", aproc.todo # {},
             Adaptive!InitialAllowed(aledger, aproc.prior, Adaptive!Case)
      PROVE  Kept(L, aresults)
  <2> DEFINE whole == Reserving(aledger, ObserverCalls(aproc))
  <2>1. /\ Pending(aledger) = {} /\ ObserverCalls(aproc) \cap aledger.reserved = {}
        /\ BookHolds(whole, AdaptiveCalls, AdaptiveCap, sent, used)
        /\ Pending(whole) = ObserverCalls(aproc) /\ \A t \in Tiers : Covers(whole, t)
        /\ RowsHold(aresults, whole)
        /\ whole.reserved = aledger.reserved \cup ObserverCalls(aproc)
        /\ whole.settled = aledger.settled
    BY <1>4, ObserversReserved
  <2>2. lines \subseteq ObserverCalls(aproc) /\ IsFiniteSet(lines) /\ \A c, d \in lines : c = d
    <3>1. IsFiniteSet({}) /\ IsFiniteSet({AdaptiveOf(aproc, "primary")})
      BY FS_EmptySet, FS_Singleton
    <3> QED
      BY <3>1 DEF ObserverCalls
  <2>3. /\ L.reserved = aledger.reserved \cup lines /\ L.settled = aledger.settled
    BY <1>2, <1>4 DEF BookHolds, Reserving
  <2> HIDE DEF whole
  <2>4. \A t \in Tiers : Charged(L, t) <= Charged(whole, t)
    <3>1. \A c \in whole.reserved : Charge(whole, c) \in Nat
      BY <2>1, BudgetAssumption DEF Charge, BookHolds
    <3>2. /\ IsFiniteSet(whole.reserved) /\ L.reserved \subseteq whole.reserved
          /\ whole.settled = L.settled
      BY <2>1, <2>2, <2>3 DEF BookHolds
    <3> QED
      BY <3>1, <3>2, ChargesGrow
  <2>5. \A t \in Tiers : Charged(L, t) <= AdaptiveCap[t] /\ Covers(L, t)
    <3> TAKE t \in Tiers
    <3>1. Charged(L, t) <= Charged(whole, t) /\ Covers(whole, t)
      BY <2>1, <2>4
    <3>2. Charged(whole, t) \in Nat
      BY <2>1, ChargesCount
    <3>3. Charged(L, t) \in Nat
      <4>1. \A c \in L.reserved : Charge(L, c) \in Nat
        BY <2>1, <2>2, <2>3, BudgetAssumption DEF Charge, BookHolds
      <4>2. IsFiniteSet(OfTier(L.reserved, t))
        BY <1>2, <2>2, <2>3, FS_Union, FS_Subset DEF OfTier, BookHolds
      <4>3. Counts([c \in OfTier(L.reserved, t) |-> Charge(L, c)], OfTier(L.reserved, t))
        BY <4>1 DEF Counts, OfTier
      <4> QED
        BY <4>2, <4>3, SumNat DEF Charged, SumFunction
    <3>4. AdaptiveCap[t] \in Nat /\ Imported[t] \in Nat /\ RedLine \in Nat /\ Allowance \in Nat
      BY BudgetAssumption, AccountAssumption DEF Imported, Tiers
    <3> QED
      BY <3>1, <3>2, <3>3, <3>4 DEF Covers
  <2>6. BookHolds(L, AdaptiveCalls, AdaptiveCap, sent, used)
    <3>1. /\ lines \in SUBSET AdaptiveCalls /\ lines \cap aledger.reserved = {}
      BY <2>1, <2>2 DEF BookHolds
    <3> QED
      BY <1>2, <1>4, <2>1, <2>2, <2>5, <3>1, ReserveKeeps
  <2>7. RowsHold(aresults, L)
    BY <2>1, <2>2, <2>3 DEF RowsHold
  <2> QED
    BY <2>5, <2>6, <2>7
<1>5. Kept(aledger', aresults')
  <2>1. \/ /\ aproc.pc = "next" /\ aproc.todo # {}
           /\ Adaptive!InitialAllowed(aledger, aproc.prior, Adaptive!Case)
           /\ \E lines \in {{}, {AdaptiveOf(aproc, "primary")}}, torn \in BOOLEAN :
                aledger' = [Reserving(aledger, lines) EXCEPT !.torn = torn]
           /\ aresults' = aresults
        \/ aledger' = [aledger EXCEPT !.torn = TRUE] /\ aresults' = aresults
        \/ aresults' = [aresults EXCEPT !.torn = TRUE] /\ aledger' = aledger
    BY AdaptiveCase, AdaptiveTerms DEF Adaptive!CrashInAppend
  <2>2. ASSUME aproc.pc = "next", aproc.todo # {}, aresults' = aresults,
               Adaptive!InitialAllowed(aledger, aproc.prior, Adaptive!Case),
               NEW lines \in {{}, {AdaptiveOf(aproc, "primary")}}, NEW torn \in BOOLEAN,
               aledger' = [Reserving(aledger, lines) EXCEPT !.torn = torn]
        PROVE  Kept(aledger', aresults')
    <3>1. Kept(Reserving(aledger, lines), aresults)
      <4> HIDE DEF Kept
      <4> QED BY <1>4, <2>2
    <3>2. Kept(aledger', aresults)
      <4> HIDE DEF Kept
      <4> QED BY <1>3, <2>2, <3>1
    <3> QED
      BY <2>2, <3>2
  <2>3. ASSUME aledger' = [aledger EXCEPT !.torn = TRUE], aresults' = aresults
        PROVE  Kept(aledger', aresults')
    <3>1. Kept(aledger, aresults)
      BY <1>2
    <3>2. Kept(aledger', aresults)
      <4> HIDE DEF Kept
      <4> QED BY <1>3, <2>3, <3>1
    <3> QED
      BY <2>3, <3>2
  <2>4. ASSUME aresults' = [aresults EXCEPT !.torn = TRUE], aledger' = aledger
        PROVE  Kept(aledger', aresults')
    BY <1>2, <2>4, RowsTorn
  <2> HIDE DEF Kept
  <2> QED
    BY <2>1, <2>2, <2>3, <2>4
<1> QED
  BY <1>1, <1>5, AdaptiveDies

--------------------------------------------------------------------------------
(* Every step of either pilot.                                              *)

\* A step of a pilot moves its own side; it reaches the other only through `sent` and `used`.
LEMMA MvtecKeeps ==
  ASSUME AccountInv, Mvtec!Next, UNCHANGED <<aledger, aresults, aproc>>
  PROVE  AccountInv'
<1> DEFINE Kept == /\ MvtecHolds(mledger', mresults', mproc', sent', used')
                   /\ AdaptiveHolds(aledger, aresults, aproc, sent', used')
                   /\ sent' = [c \in Calls |-> sent'[c]] /\ used' = [c \in Calls |-> used'[c]]
<1>1. ASSUME UNCHANGED <<sent, used>>, MvtecHolds(mledger', mresults', mproc', sent, used)
      PROVE  Kept
  BY <1>1 DEF AccountInv
<1>2. /\ BookHolds(mledger, PilotCalls, PilotCap, sent, used) /\ RowsHold(mresults, mledger)
  BY DEF AccountInv, MvtecHolds
<1>3. ASSUME UNCHANGED <<mledger, mresults, sent, used>>, mproc' = [pc |-> "dead"]
      PROVE  Kept
  BY <1>1, <1>2, <1>3, MvtecDies
<1>4. ASSUME NEW size \in BatchSizes, NEW retry \in BOOLEAN, Mvtec!Start(size, retry)
      PROVE  Kept
  <2>1. UNCHANGED <<mledger, mresults, sent, used>>
    BY <1>4 DEF Mvtec!Start
  <2> QED
    BY <1>1, <1>4, <2>1, MvtecStarts
<1>5. ASSUME Mvtec!BeginCase PROVE Kept
  <2>1. UNCHANGED <<mledger, mresults, sent, used>>
    BY <1>5 DEF Mvtec!BeginCase
  <2> QED
    BY <1>1, <1>5, <2>1, MvtecBegins
<1>6. ASSUME Mvtec!Send PROVE Kept
  <2>1. UNCHANGED mresults
    BY <1>6 DEF Mvtec!Send
  <2> QED
    BY <1>6, <2>1, MvtecSends
<1>7. ASSUME Mvtec!Settle PROVE Kept
  <2>1. UNCHANGED <<mresults, sent, used>>
    BY <1>7 DEF Mvtec!Settle
  <2> QED
    BY <1>1, <1>7, <2>1, MvtecSettlesIt
<1>8. ASSUME Mvtec!Reject PROVE Kept
  <2>1. UNCHANGED <<mledger, mresults, sent, used>>
    BY <1>8 DEF Mvtec!Reject
  <2> QED
    BY <1>1, <1>8, <2>1, MvtecRejects
<1>9. ASSUME Mvtec!AppendResult PROVE Kept
  <2>1. UNCHANGED <<mledger, sent, used>>
    BY <1>9 DEF Mvtec!AppendResult
  <2> QED
    BY <1>1, <1>9, <2>1, MvtecRecords
<1>10. ASSUME Mvtec!CrashInAppend PROVE Kept
  <2>1. UNCHANGED <<sent, used>>
    BY <1>10 DEF Mvtec!CrashInAppend
  <2> QED
    BY <1>1, <1>10, <2>1, MvtecTears
<1>11. ASSUME Mvtec!RefuseRetry \/ Mvtec!End \/ Mvtec!Crash PROVE Kept
  BY <1>3, <1>11 DEF Mvtec!RefuseRetry, Mvtec!End, Mvtec!Crash, Mvtec!Dead
<1>12. Kept
  <2> HIDE DEF Kept
  <2> QED
    BY <1>4, <1>5, <1>6, <1>7, <1>8, <1>9, <1>10, <1>11 DEF Mvtec!Next, Mvtec!Step
<1> QED
  BY <1>12 DEF AccountInv

LEMMA AdaptiveKeeps ==
  ASSUME AccountInv, Adaptive!Next, UNCHANGED <<mledger, mresults, mproc>>
  PROVE  AccountInv'
<1> DEFINE Kept == /\ AdaptiveHolds(aledger', aresults', aproc', sent', used')
                   /\ MvtecHolds(mledger, mresults, mproc, sent', used')
                   /\ sent' = [c \in Calls |-> sent'[c]] /\ used' = [c \in Calls |-> used'[c]]
<1>1. ASSUME UNCHANGED <<sent, used>>, AdaptiveHolds(aledger', aresults', aproc', sent, used)
      PROVE  Kept
  BY <1>1 DEF AccountInv
<1>2. ASSUME UNCHANGED <<aledger, aresults, sent, used>>, aproc' = [pc |-> "dead"]
      PROVE  Kept
  BY <1>1, <1>2, AdaptiveBookNow, AdaptiveDies
<1>3. ASSUME Adaptive!Start PROVE Kept
  <2>1. UNCHANGED <<aledger, aresults, sent, used>>
    BY <1>3 DEF Adaptive!Start
  <2> QED
    BY <1>1, <1>3, <2>1, AdaptiveStarts
<1>4. ASSUME Adaptive!BeginCase PROVE Kept
  <2>1. UNCHANGED <<aresults, sent, used>>
    BY <1>4 DEF Adaptive!BeginCase
  <2> QED
    BY <1>1, <1>4, <2>1, AdaptiveBegins
<1>5. ASSUME NEW slot \in {"primary", "scout", "final"}, Adaptive!Send(slot)
      PROVE  Kept
  <2>1. UNCHANGED <<aledger, aresults>>
    BY <1>5 DEF Adaptive!Send
  <2> QED
    BY <1>5, <2>1, AdaptiveSends
<1>6. ASSUME NEW slot \in {"primary", "scout", "final"}, Adaptive!Settle(slot)
      PROVE  Kept
  <2>1. UNCHANGED <<aresults, sent, used>>
    BY <1>6 DEF Adaptive!Settle
  <2> QED
    BY <1>1, <1>6, <2>1, AdaptiveSettlesIt
<1>7. ASSUME NEW slot \in {"primary", "scout", "final"}, Adaptive!Lose(slot)
      PROVE  Kept
  <2>1. UNCHANGED <<aledger, aresults, sent, used>>
    BY <1>7 DEF Adaptive!Lose
  <2> QED
    BY <1>1, <1>7, <2>1, AdaptiveLoses
<1>8. ASSUME Adaptive!AllowFinal PROVE Kept
  <2>1. UNCHANGED <<aresults, sent, used>>
    BY <1>8 DEF Adaptive!AllowFinal
  <2> QED
    BY <1>1, <1>8, <2>1, AdaptiveAllowsFinal
<1>9. ASSUME Adaptive!Decide PROVE Kept
  <2>1. UNCHANGED <<aledger, aresults, sent, used>>
    BY <1>9 DEF Adaptive!Decide
  <2> QED
    BY <1>1, <1>9, <2>1, AdaptiveDecides
<1>10. ASSUME Adaptive!AppendResult PROVE Kept
  <2>1. UNCHANGED <<aledger, sent, used>>
    BY <1>10 DEF Adaptive!AppendResult
  <2> QED
    BY <1>1, <1>10, <2>1, AdaptiveRecords
<1>11. ASSUME Adaptive!CrashInAppend PROVE Kept
  <2>1. UNCHANGED <<sent, used>>
    BY <1>11 DEF Adaptive!CrashInAppend
  <2> QED
    BY <1>1, <1>11, <2>1, AdaptiveTears
<1>12. ASSUME Adaptive!RefuseCase \/ Adaptive!Fail \/ Adaptive!End \/ Adaptive!Crash PROVE Kept
  BY <1>2, <1>12 DEF Adaptive!RefuseCase, Adaptive!Fail, Adaptive!End, Adaptive!Crash, Adaptive!Dead
<1>13. Kept
  <2> HIDE DEF Kept
  <2> QED
    BY <1>3, <1>4, <1>5, <1>6, <1>7, <1>8, <1>9, <1>10, <1>11, <1>12
       DEF Adaptive!Next, Adaptive!Step
<1> QED
  BY <1>13 DEF AccountInv

\* A new account has charged nothing.
LEMMA EmptyBook ==
  ASSUME NEW own, NEW cap \in [Tiers -> Nat], NEW sn, NEW us, \A c \in own : sn[c] = 0 /\ us[c] = 0
  PROVE  /\ BookHolds(EmptyLedger, own, cap, sn, us) /\ \A t : Charged(EmptyLedger, t) = 0
<1>1. EmptyLedger.reserved = {} /\ EmptyLedger.settled = <<>> /\ EmptyLedger.torn = FALSE
  BY DEF EmptyLedger
<1>2. ASSUME NEW t PROVE Charged(EmptyLedger, t) = 0
  <2> DEFINE f == [c \in OfTier(EmptyLedger.reserved, t) |-> Charge(EmptyLedger, c)]
  <2>1. DOMAIN f = {}
    BY <1>1 DEF OfTier
  <2>2. Charged(EmptyLedger, t) = SumFunctionOnSet(f, DOMAIN f)
    BY DEF Charged, SumFunction
  <2> HIDE DEF f
  <2> QED
    BY <2>1, <2>2, SumEmpty
<1>3. DOMAIN EmptyLedger.settled = {} /\ Pending(EmptyLedger) = {}
  BY <1>1 DEF Pending
<1>4. EmptyLedger = [reserved |-> EmptyLedger.reserved, settled |-> EmptyLedger.settled,
                     torn |-> EmptyLedger.torn]
  BY DEF EmptyLedger
<1>5. IsFiniteSet(EmptyLedger.reserved) /\ \A t \in Tiers : cap[t] \in Nat
  BY <1>1, FS_EmptySet
<1>6. \A t \in Tiers : Charged(EmptyLedger, t) <= cap[t]
  BY <1>2, <1>5
<1>7. BookHolds(EmptyLedger, own, cap, sn, us)
  <2>1. EmptyLedger.torn \in BOOLEAN
    BY <1>1
  <2>2. \A c \in own : sn[c] \in {0, 1} /\ us[c] \in Nat /\ ~(sn[c] = 1)
    OBVIOUS
  <2>3. EmptyLedger.reserved = {}
    BY <1>1
  <2> HIDE DEF EmptyLedger
  <2> QED
    BY <1>3, <1>4, <1>5, <1>6, <2>1, <2>2, <2>3 DEF BookHolds
<1> QED
  BY <1>2, <1>7

LEMMA AccountInit == Init => AccountInv
<1> SUFFICES ASSUME Init PROVE AccountInv
  OBVIOUS
<1>1. /\ mledger = EmptyLedger /\ aledger = EmptyLedger
      /\ mproc = [pc |-> "dead"] /\ aproc = [pc |-> "dead"]
      /\ mresults = [rows |-> {}, torn |-> FALSE] /\ aresults = [rows |-> {}, torn |-> FALSE]
      /\ sent = [c \in Calls |-> 0] /\ used = [c \in Calls |-> 0]
  BY DEF Init, Mvtec!Init, Adaptive!Init, Mvtec!EmptyLedger, Adaptive!EmptyLedger, EmptyLedger,
     Mvtec!Dead, Adaptive!Dead, Mvtec!NoResults, Adaptive!NoResults
<1>2. /\ \A c \in PilotCalls : sent[c] = 0 /\ used[c] = 0
      /\ \A c \in AdaptiveCalls : sent[c] = 0 /\ used[c] = 0
  BY <1>1, CallsApart
<1>3. PilotCap \in [Tiers -> Nat] /\ AdaptiveCap \in [Tiers -> Nat]
  BY BudgetAssumption
<1>4. /\ BookHolds(mledger, PilotCalls, PilotCap, sent, used)
      /\ BookHolds(aledger, AdaptiveCalls, AdaptiveCap, sent, used)
      /\ \A t : Charged(aledger, t) = 0
  BY <1>1, <1>2, <1>3, EmptyBook
<1>5. RowsHold(mresults, mledger) /\ RowsHold(aresults, aledger)
  BY <1>1 DEF RowsHold
<1>6. \A t \in Tiers : Imported[t] + Charged(aledger, t) + RedLine <= Allowance
  <2>1. \A t \in Tiers : Imported[t] = Pin[t] + FirstRun[t] /\ Imported[t] \in Nat
    BY AccountAssumption DEF Imported, Tiers
  <2> QED
    BY <1>4, <2>1, AccountAssumption, BudgetAssumption
<1>7. /\ MvtecHolds(mledger, mresults, mproc, sent, used)
      /\ AdaptiveHolds(aledger, aresults, aproc, sent, used)
  BY <1>1, <1>4, <1>5, <1>6 DEF MvtecHolds, AdaptiveHolds
<1> QED
  BY <1>1, <1>7 DEF AccountInv

LEMMA AccountStep == AccountInv /\ [Next]_vars => AccountInv'
<1> SUFFICES ASSUME AccountInv, [Next]_vars PROVE AccountInv'
  OBVIOUS
<1>1. CASE Mvtec!Next /\ UNCHANGED <<aledger, aresults, aproc>>
  BY <1>1, MvtecKeeps
<1>2. CASE Adaptive!Next /\ UNCHANGED <<mledger, mresults, mproc>>
  BY <1>2, AdaptiveKeeps
<1>3. CASE UNCHANGED vars
  BY <1>3 DEF vars, AccountInv
<1> QED
  BY <1>1, <1>2, <1>3 DEF Next

\* Every reachable state of the two pilots is one the invariant describes.
THEOREM AccountInvariant == Spec => []AccountInv
<1> QED
  BY AccountInit, AccountStep, PTL DEF Spec

--------------------------------------------------------------------------------
(* What the invariant says of the spending.                                 *)

\* A settled call is charged what it used, a pending one no less than it counts for.
LEMMA ConsumedIsCharged ==
  ASSUME NEW L, NEW own, NEW cap, BookHolds(L, own, cap, sent, used), NEW t
  PROVE  /\ Consumed(L, t) <= Charged(L, t)
         /\ Consumed(L, t) \in Nat /\ Charged(L, t) \in Nat
         /\ Pending(L) = {} => Consumed(L, t) <= SettledIn(L, t)
<1> DEFINE S == OfTier(L.reserved, t)
           f == [c \in S |-> IF c \in DOMAIN L.settled \/ used[c] <= Reserve
                             THEN used[c] ELSE Reserve]
           g == [c \in S |-> Charge(L, c)]
<1>1. S \subseteq L.reserved /\ L.reserved \subseteq own
  BY DEF OfTier, BookHolds
<1>2. IsFiniteSet(S) /\ Counts(g, S) /\ Charged(L, t) \in Nat
  BY ChargesCount
<1>3. Reserve \in Nat
  BY BudgetAssumption
<1>4. \A c \in S : used[c] \in Nat
  BY <1>1 DEF BookHolds
<1>5. \A c \in S : f[c] \in Nat
  BY <1>3, <1>4
<1>6. \A c \in S : c \in DOMAIN L.settled => f[c] = L.settled[c] /\ g[c] = L.settled[c]
  BY DEF BookHolds, Charge
<1>7. \A c \in S : c \notin DOMAIN L.settled => f[c] <= Reserve /\ g[c] = Reserve
  BY <1>3, <1>4 DEF Charge
<1>8. Consumed(L, t) = SumFunctionOnSet(f, S) /\ Charged(L, t) = SumFunctionOnSet(g, S)
  BY DEF Consumed, Charged, SumFunction
<1>9. \A c \in S : f[c] <= g[c]
  <2> HIDE DEF f, g, S
  <2> QED BY <1>5, <1>6, <1>7
<1>10. Counts(f, S)
  BY <1>5 DEF Counts
<1> HIDE DEF f, g, S
<1>11. SumFunctionOnSet(f, S) <= SumFunctionOnSet(g, S) /\ SumFunctionOnSet(f, S) \in Nat
  BY <1>2, <1>9, <1>10, SumMonotone, SumNat
<1>12. ASSUME Pending(L) = {} PROVE Consumed(L, t) <= SettledIn(L, t)
  <2>1. DOMAIN L.settled = L.reserved
    BY <1>12 DEF Pending, BookHolds
  <2>2. OfTier(DOMAIN L.settled, t) = S
    BY <2>1 DEF S
  <2>3. \A c \in S : f[c] = L.settled[c]
    BY <1>1, <1>6, <2>1
  <2>4. Counts(L.settled, S) /\ \A c \in S : f[c] <= L.settled[c]
    BY <1>5, <2>3 DEF Counts
  <2>5. SumFunctionOnSet(f, S) <= SumFunctionOnSet(L.settled, S)
    BY <1>2, <1>10, <2>4, SumMonotone
  <2> QED
    BY <1>8, <2>2, <2>5 DEF SettledIn
<1> QED
  BY <1>2, <1>8, <1>11, <1>12

\* A settled call used no more than its reservation, and a tier has one pending call at most.
LEMMA OneOverrun ==
  ASSUME NEW L, NEW own, NEW cap, BookHolds(L, own, cap, sent, used), NEW t
  PROVE  Cardinality(Overruns(L, t)) <= 1
<1>1. Reserve \in Nat
  BY BudgetAssumption
<1>2. \A c \in Overruns(L, t) : c \in Pending(L) /\ Tier(c.slot) = t
  BY <1>1 DEF Overruns, OfTier, Pending, BookHolds
<1>3. \A c, d \in Overruns(L, t) : c = d
  BY <1>2 DEF BookHolds
<1>4. CASE Overruns(L, t) = {}
  BY <1>4, FS_EmptySet
<1>5. CASE Overruns(L, t) # {}
  <2>1. PICK c \in Overruns(L, t) : TRUE
    BY <1>5
  <2>2. Overruns(L, t) = {c}
    BY <1>3
  <2> QED
    BY <2>2, FS_Singleton
<1> QED
  BY <1>4, <1>5

LEMMA InvSpends == AccountInv => SpendingIsCovered
<1> SUFFICES ASSUME AccountInv PROVE SpendingIsCovered
  OBVIOUS
<1>1. /\ BookHolds(mledger, PilotCalls, PilotCap, sent, used) /\ RowsHold(mresults, mledger)
      /\ BookHolds(aledger, AdaptiveCalls, AdaptiveCap, sent, used) /\ RowsHold(aresults, aledger)
      /\ \A t \in Tiers : Imported[t] + Charged(aledger, t) + RedLine <= Allowance
  BY DEF AccountInv, MvtecHolds, AdaptiveHolds
<1>2. SentOnce
  <2>1. \A c \in PilotCalls : sent[c] <= 1 /\ (sent[c] = 1 => c \in mledger.reserved)
    BY <1>1 DEF BookHolds
  <2>2. \A c \in AdaptiveCalls : sent[c] <= 1 /\ (sent[c] = 1 => c \in aledger.reserved)
    BY <1>1 DEF BookHolds
  <2> QED
    BY <2>1, <2>2, CallsApart DEF SentOnce
<1>3. ResultsArePaid
  BY <1>1 DEF ResultsArePaid, RowsHold, BookHolds
<1>4. RedLineHolds
  <2> SUFFICES ASSUME NEW t \in Tiers
               PROVE  /\ Consumed(mledger, t) <= PilotCap[t]
                      /\ Consumed(aledger, t) <= AdaptiveCap[t]
                      /\ Pinned => Consumed(mledger, t) + FirstRun[t] + Consumed(aledger, t)
                                     + RedLine <= Allowance
                      /\ Cardinality(Overruns(mledger, t)) <= 1
                      /\ Cardinality(Overruns(aledger, t)) <= 1
    BY DEF RedLineHolds
  <2>1. /\ Consumed(mledger, t) <= Charged(mledger, t)
        /\ Consumed(mledger, t) \in Nat /\ Charged(mledger, t) \in Nat
        /\ Pending(mledger) = {} => Consumed(mledger, t) <= SettledIn(mledger, t)
    BY <1>1, ConsumedIsCharged
  <2>2. /\ Consumed(aledger, t) <= Charged(aledger, t)
        /\ Consumed(aledger, t) \in Nat /\ Charged(aledger, t) \in Nat
    BY <1>1, ConsumedIsCharged
  <2>3. Charged(mledger, t) <= PilotCap[t] /\ Charged(aledger, t) <= AdaptiveCap[t]
    BY <1>1 DEF BookHolds
  <2>4. PilotCap[t] \in Nat /\ AdaptiveCap[t] \in Nat /\ RedLine \in Nat /\ Allowance \in Nat
    BY BudgetAssumption
  <2>5. Imported[t] = Pin[t] + FirstRun[t] /\ Pin[t] \in Nat /\ FirstRun[t] \in Nat
    BY AccountAssumption DEF Imported, Tiers
  <2>6. ASSUME Pinned
        PROVE  Consumed(mledger, t) + FirstRun[t] + Consumed(aledger, t) + RedLine <= Allowance
    <3>1. Consumed(mledger, t) <= Pin[t]
      BY <2>1, <2>6 DEF Pinned
    <3>2. Pin[t] + FirstRun[t] + Charged(aledger, t) + RedLine <= Allowance
      BY <1>1, <2>5
    <3> QED
      BY <2>1, <2>2, <2>4, <2>5, <3>1, <3>2
  <2>7. Cardinality(Overruns(mledger, t)) <= 1 /\ Cardinality(Overruns(aledger, t)) <= 1
    BY <1>1, OneOverrun
  <2> QED
    BY <2>1, <2>2, <2>3, <2>4, <2>6, <2>7
<1> QED
  BY <1>2, <1>3, <1>4 DEF SpendingIsCovered, RequestsAreCovered

\* Every call left at most once and after its reservation, recorded results are paid for, and
\* both runs stay within their caps and the account keeps its red line, but for one call per
\* tier and run.
THEOREM SpendingCovered == Spec => []SpendingIsCovered
<1> QED
  BY AccountInvariant, InvSpends, PTL

--------------------------------------------------------------------------------
(* Who sends.                                                               *)

LEMMA MvtecSendsAlone ==
  ASSUME AccountInv, Mvtec!Next, NEW c \in Calls, sent'[c] # sent[c]
  PROVE  c \in mledger'.reserved /\ ~Doubtful(mledger, mresults, MvtecOwn)
<1>1. Mvtec!Send
  BY DEF Mvtec!Next, Mvtec!Step, Mvtec!Start, Mvtec!BeginCase, Mvtec!RefuseRetry, Mvtec!Settle,
     Mvtec!Reject, Mvtec!AppendResult, Mvtec!End, Mvtec!Crash, Mvtec!CrashInAppend
<1>2. /\ mproc.pc = "call" /\ Mvtec!Passes
      /\ mledger' = Reserving(mledger, {MvtecAsks(mproc)})
      /\ sent' = [sent EXCEPT ![MvtecAsks(mproc)] = @ + 1]
  BY <1>1, MvtecAsked, MvtecTerms DEF Mvtec!Send
<1>3. c = MvtecAsks(mproc)
  BY <1>2 DEF AccountInv
<1>4. c \in mledger'.reserved
  BY <1>2, <1>3 DEF AccountInv, MvtecHolds, BookHolds, Reserving
<1>5. Pending(mledger) = {}
  BY <1>2, MvtecReserved
<1>6. ~mledger.torn /\ ~mresults.torn /\ \A row \in mresults.rows : ~row.stop
  BY <1>2, MvtecCalling DEF Trusts
<1> QED
  BY <1>4, <1>5, <1>6 DEF Doubtful

LEMMA AdaptiveSendsAlone ==
  ASSUME AccountInv, Adaptive!Next, UNCHANGED mledger, NEW c \in Calls, sent'[c] # sent[c]
  PROVE  c \notin mledger'.reserved /\ ~Doubtful(aledger, aresults, AdaptiveOwn)
<1>1. PICK slot \in {"primary", "scout", "final"} : Adaptive!Send(slot)
  BY DEF Adaptive!Next, Adaptive!Step, Adaptive!Start, Adaptive!BeginCase, Adaptive!RefuseCase,
     Adaptive!Settle, Adaptive!Lose, Adaptive!Fail, Adaptive!AllowFinal, Adaptive!Decide,
     Adaptive!AppendResult, Adaptive!End, Adaptive!Crash, Adaptive!CrashInAppend
<1>2. /\ aproc.pc \in {"observe", "verify"}
      /\ sent' = [sent EXCEPT ![AdaptiveOf(aproc, slot)] = @ + 1]
  BY <1>1, AdaptiveCase DEF Adaptive!Send
<1>3. c = AdaptiveOf(aproc, slot)
  BY <1>2 DEF AccountInv
<1>4. c \in AdaptiveCalls
  BY <1>2, <1>3, AdaptiveLive, AdaptiveCalling
<1>5. mledger.reserved \subseteq PilotCalls
  BY DEF AccountInv, MvtecHolds, BookHolds
<1>6. ~aledger.torn /\ ~aresults.torn /\ \A row \in aresults.rows : ~row.stop
  BY <1>2, AdaptiveLive DEF Trusts
<1>7. Pending(aledger) \subseteq AdaptiveOwn
  <2>1. AdaptiveOwn = Mine(AdaptiveCases[Min(aproc.todo)],
                           aproc.expected \cup aproc.flying \cup aproc.failed)
    BY <1>2, AdaptiveCase DEF AdaptiveOwn
  <2>2. Pending(aledger) \subseteq Calls
    BY AdaptiveBookNow, CallsApart DEF Pending, BookHolds
  <2>3. \A d \in Pending(aledger) :
          /\ d.case = AdaptiveCases[Min(aproc.todo)]
          /\ d.slot \in aproc.expected \cup aproc.flying \cup aproc.failed
    BY <1>2, AdaptiveCalling DEF AdaptiveOf, Call
  <2> QED
    BY <2>1, <2>2, <2>3 DEF Mine
<1> QED
  BY <1>4, <1>5, <1>6, <1>7, CallsApart DEF Doubtful

\* A request leaves only where that pilot's files hold no stop, no torn line and no pending
\* call but those the live process answers for.
THEOREM DoubtsQuiet == Spec => DoubtIsQuiet
<1> DEFINE Quiet ==
      \A c \in Calls : sent'[c] # sent[c] =>
        IF c \in mledger'.reserved
        THEN ~Doubtful(mledger, mresults, MvtecOwn)
        ELSE ~Doubtful(aledger, aresults, AdaptiveOwn)
<1>1. AccountInv /\ [Next]_vars => [Quiet]_vars
  <2> SUFFICES ASSUME AccountInv, Next PROVE Quiet
    BY DEF vars
  <2>1. CASE Mvtec!Next /\ UNCHANGED <<aledger, aresults, aproc>>
    BY <2>1, MvtecSendsAlone
  <2>2. CASE Adaptive!Next /\ UNCHANGED <<mledger, mresults, mproc>>
    BY <2>2, AdaptiveSendsAlone
  <2> QED
    BY <2>1, <2>2 DEF Next
<1> QED
  BY <1>1, AccountInvariant, PTL DEF Spec, DoubtIsQuiet
================================================================================
