-------------------------- MODULE AnalysisRouteProofs --------------------------
(***************************************************************************)
(* Theorems about AnalysisRoute, for every set of clients, requests and    *)
(* objects, every limit, window and load of answers, and every order of    *)
(* arrivals, answers and midnights.                                        *)
(***************************************************************************)
EXTENDS AnalysisRoute, FiniteSetTheorems, TLAPS

--------------------------------------------------------------------------------
(* The inductive invariant.                                                 *)

\* What the guard counts is told from the handlers: Within is who of A was
\* admitted from first to last, Since from first on.  A is finite.
Within(A, hs, first, last) == {r \in A : hs[r].at \in first..last}
Since(A, hs, first) == {r \in A : hs[r].at >= first}

\* Of the handlers hs: the ones that were admitted, that hold a permit, that client a
\* sent.
Came(hs) == {r \in Requests : hs[r].pc \notin {"idle", "refused"}}
AtWork(hs) == {r \in Requests : hs[r].pc \in {"body", "observing", "verifying"}}
From(hs, a) == {r \in Came(hs) : hs[r].address = a}

\* A client without a window at time t: nobody of A came at t or later, fewer than a
\* limit in the last stretch of the day (it started at m), and nobody today unless
\* a whole window has passed since midnight.
Idle(A, hs, m, t) ==
  /\ Since(A, hs, t) = {}
  /\ \A x \in Nat : m <= x /\ t < x + WindowLength =>
       Cardinality(Since(A, hs, x)) <= ClientLimit - 1
  /\ Since(A, hs, m) # {} => m + WindowLength <= t

\* A client with a window w, opened at t or before.  Before it, the same as above.
Open(A, hs, m, w, t) ==
  /\ m <= w.start /\ w.start <= t
  /\ Cardinality(Since(A, hs, w.start)) = w.count
  /\ Cardinality(Since(A, hs, w.start + 1)) <= w.count - 1
  /\ Since(A, hs, w.start + WindowLength) = {}
  /\ \A x \in Nat : m <= x /\ w.start < x + WindowLength =>
       Cardinality(Within(A, hs, x, w.start - 1)) <= ClientLimit - 1
  /\ Within(A, hs, m, w.start - 1) # {} => m + WindowLength <= w.start

WindowHolds(A, hs, m, w, t) ==
  /\ w.count = 0 => Idle(A, hs, m, t)
  /\ w.count > 0 => Open(A, hs, m, w, t)

\* What is never forgotten: on any day, one limit in its first stretch, and fewer
\* than two in any other.
DayHolds(A, hs, d) ==
  /\ Cardinality(Within(A, hs, d * DayLength, d * DayLength + WindowLength - 1)) <= ClientLimit
  /\ \A x, y \in Nat :
       d * DayLength <= x /\ y < (d + 1) * DayLength /\ y < x + WindowLength =>
         Cardinality(Within(A, hs, x, y)) <= 2 * ClientLimit - 1

OnDay(hs, d) == Within(Came(hs), hs, d * DayLength, (d + 1) * DayLength - 1)

Windows == [start : Nat, count : 0..ClientLimit]
Guards == [day : Nat, daily : Nat, active : Nat, clients : [Addresses -> Windows]]

\* The guard g at time t counts the handlers hs: those at work, those of its day, and
\* each client's.
Counts(g, t, hs) ==
  /\ t \in Nat /\ g \in Guards
  /\ g.day <= t \div DayLength
  /\ g.active = Cardinality(AtWork(hs)) /\ g.active <= ConcurrentLimit
  /\ \A r \in Came(hs) : hs[r].at \in Nat /\ hs[r].at < (g.day + 1) * DayLength
  /\ g.daily = Cardinality(OnDay(hs, g.day))
  /\ \A a \in Addresses :
       WindowHolds(From(hs, a), hs, g.day * DayLength, g.clients[a], t)

\* The bounds on every day so far.
Bounded(hs) ==
  \A d \in Nat :
    /\ Cardinality(OnDay(hs, d)) <= DailyLimit
    /\ \A a \in Addresses : DayHolds(From(hs, a), hs, d)

Fields == {"pc", "address", "mode", "at", "primary", "scout", "fast", "plus", "outcome"}

\* A handler knows only answers that may come, in the order they may come.
HandlerForm(h) ==
  \/ h = NotArrived \/ h = [pc |-> "refused"]
  \/ /\ DOMAIN h = Fields
     /\ h.pc \in {"body", "observing", "verifying", "done"}
     /\ h.primary = NoAnswer \/ h.primary \in Primaries \/ h.primary \in Failures
     /\ h.scout = NoAnswer \/ h.scout = Off \/ h.scout \in Scouts \/ h.scout \in Failures
     /\ h.pc = "verifying" => h.primary \in Primaries /\ h.scout # NoAnswer
     /\ h.pc # "done" => h.plus = NoAnswer

BatchForm(b) == b \in Failures \/ (b.kind = "batch" /\ b.says \in [DOMAIN b.says -> Verdicts])

\* What the observers found, in the runtime rt.
Found(rt, h) == Observed(rt.provider, h.primary, h.scout)

\* A report is made of the answers that its handler keeps, in one of three ways:
\* without a verifier, on the word of the fast tier, and on that of the deciding model.
ReportFrom(rt, h, verdicts) == h.outcome.report = Report(Found(rt, h), verdicts, h.mode)

ReportHolds(rt, h) ==
  /\ h.primary \in Primaries /\ h.scout # NoAnswer
  /\ \/ ReportFrom(rt, h, Unverified)
     \/ /\ BatchForm(h.fast) /\ FastDecides(Candidates(Found(rt, h)), h.fast)
        /\ h.plus = NoAnswer
        /\ ReportFrom(rt, h, h.fast.says)
     \/ /\ BatchForm(h.plus)
        /\ ReportFrom(rt, h, Verified(rt.provider, Candidates(Found(rt, h)), h.plus))

Reports(h) == h.pc = "done" /\ h.outcome.kind = "report"

RouteInv ==
  /\ load \in Loads
  /\ handlers = [r \in Requests |-> handlers[r]]
  /\ \A r \in Requests :
       HandlerForm(handlers[r]) /\ (Reports(handlers[r]) => ReportHolds(runtime, handlers[r]))
  /\ Counts(guard, now, handlers) /\ Bounded(handlers)

--------------------------------------------------------------------------------
(* Days, and counting who came when.                                        *)

\* The day of a moment is the one it lies in.
LEMMA DayOf ==
  ASSUME NEW n \in Nat
  PROVE  /\ n \div DayLength \in Nat
         /\ (n \div DayLength) * DayLength <= n
         /\ n < (n \div DayLength + 1) * DayLength
  BY GuardAssumption, SMT DEF GuardAssumption

\* Days do not overlap.
LEMMA DayUnique ==
  ASSUME NEW n \in Nat, NEW d \in Nat, NEW e \in Nat,
         d * DayLength <= n, n < (d + 1) * DayLength,
         e * DayLength <= n, n < (e + 1) * DayLength
  PROVE  d = e
  BY GuardAssumption, SMT DEF GuardAssumption

\* A later day starts when an earlier one has ended.
LEMMA DayAfter ==
  ASSUME NEW d \in Nat, NEW e \in Nat, d < e
  PROVE  (d + 1) * DayLength <= e * DayLength
  BY GuardAssumption, SMT DEF GuardAssumption

LEMMA DayEnds ==
  ASSUME NEW d \in Nat
  PROVE  /\ d * DayLength \in Nat /\ (d + 1) * DayLength \in Nat
         /\ (d + 1) * DayLength = d * DayLength + DayLength
  BY GuardAssumption, SMT DEF GuardAssumption

\* The moments of A are natural numbers, and A is finite.
Timed(A, hs) == IsFiniteSet(A) /\ \A r \in A : hs[r].at \in Nat

\* A part of a finite set is finite and counts no more.
LEMMA CountLess ==
  ASSUME NEW S, NEW T, IsFiniteSet(T), S \subseteq T
  PROVE  IsFiniteSet(S) /\ Cardinality(S) \in Nat /\ Cardinality(T) \in Nat
         /\ Cardinality(S) <= Cardinality(T)
  BY FS_Subset, FS_CardinalityType

\* The union of two sets counts no more than both.
LEMMA CountUnion ==
  ASSUME NEW R, NEW S, NEW T, IsFiniteSet(S), IsFiniteSet(T), R \subseteq S \cup T
  PROVE  IsFiniteSet(R) /\ Cardinality(R) \in Nat /\ Cardinality(S) \in Nat
         /\ Cardinality(T) \in Nat /\ Cardinality(R) <= Cardinality(S) + Cardinality(T)
  <1>1. IsFiniteSet(S \cup T)
    BY FS_Union
  <1>2. Cardinality(R) <= Cardinality(S \cup T) /\ IsFiniteSet(R)
    BY <1>1, CountLess
  <1>3. Cardinality(S \cup T) = Cardinality(S) + Cardinality(T) - Cardinality(S \cap T)
    BY FS_Union
  <1>4. IsFiniteSet(S \cap T)
    BY FS_Subset
  <1>5. /\ Cardinality(R) \in Nat /\ Cardinality(S) \in Nat /\ Cardinality(T) \in Nat
        /\ Cardinality(S \cap T) \in Nat
    BY <1>2, <1>4, FS_CardinalityType
  <1> QED
    BY <1>2, <1>3, <1>5

\* Whoever came in a stretch came since its start, and stretches are finite.
LEMMA CountWithin ==
  ASSUME NEW A, NEW hs, Timed(A, hs), NEW x, NEW y
  PROVE  /\ IsFiniteSet(Within(A, hs, x, y)) /\ Cardinality(Within(A, hs, x, y)) \in Nat
         /\ IsFiniteSet(Since(A, hs, x)) /\ Cardinality(Since(A, hs, x)) \in Nat
  <1>1. Within(A, hs, x, y) \subseteq A /\ Since(A, hs, x) \subseteq A
    BY DEF Within, Since
  <1> QED
    BY <1>1, CountLess DEF Timed

LEMMA CountNone ==
  ASSUME NEW S, S = {}
  PROVE  Cardinality(S) = 0
  BY FS_EmptySet

--------------------------------------------------------------------------------
(* One client's windows.                                                    *)

\* An open window bounds every stretch of the day that reaches to its end, and the
\* first stretch of the day.
LEMMA OpenBounds ==
  ASSUME NEW A, NEW hs, Timed(A, hs), NEW m \in Nat, NEW w \in Windows, NEW t \in Nat,
         Open(A, hs, m, w, t), t < w.start + WindowLength
  PROVE  /\ \A x \in Nat : m <= x /\ x <= t /\ t < x + WindowLength =>
              Cardinality(Since(A, hs, x)) <= 2 * ClientLimit - 1
         /\ t < m + WindowLength => Cardinality(Since(A, hs, m)) <= ClientLimit
  <1> USE GuardAssumption DEF GuardAssumption
  <1>0. /\ w.start \in Nat /\ w.count \in 0..ClientLimit
        /\ Cardinality(Since(A, hs, w.start)) <= ClientLimit
    BY DEF Windows, Open
  <1>1. ASSUME NEW x \in Nat, m <= x, x <= t, t < x + WindowLength
        PROVE  Cardinality(Since(A, hs, x)) <= 2 * ClientLimit - 1
    <2>1. CASE w.start <= x
      <3>1. Since(A, hs, x) \subseteq Since(A, hs, w.start)
        BY <2>1, <1>0 DEF Since, Timed
      <3>2. Cardinality(Since(A, hs, x)) <= Cardinality(Since(A, hs, w.start))
        BY <3>1, CountWithin, CountLess
      <3>3. Cardinality(Since(A, hs, x)) \in Nat /\ Cardinality(Since(A, hs, w.start)) \in Nat
        BY CountWithin
      <3> QED
        BY <3>2, <3>3, <1>0, SMT
    <2>2. CASE x < w.start
      <3>1. Since(A, hs, x) \subseteq Within(A, hs, x, w.start - 1) \cup Since(A, hs, w.start)
        BY <2>2, <1>0 DEF Since, Within, Timed
      <3>2. Cardinality(Within(A, hs, x, w.start - 1)) <= ClientLimit - 1
        <4>1. w.start <= t
          BY DEF Open
        <4> QED
          BY <4>1, <1>0, <1>1 DEF Open
      <3>3. Cardinality(Since(A, hs, x))
              <= Cardinality(Within(A, hs, x, w.start - 1)) + Cardinality(Since(A, hs, w.start))
        BY <3>1, CountWithin, CountUnion
      <3>4. /\ Cardinality(Since(A, hs, x)) \in Nat /\ Cardinality(Since(A, hs, w.start)) \in Nat
            /\ Cardinality(Within(A, hs, x, w.start - 1)) \in Nat
        BY CountWithin
      <3> QED
        BY <3>2, <3>3, <3>4, <1>0
    <2> QED
      BY <2>1, <2>2, <1>0
  <1>2. ASSUME t < m + WindowLength
        PROVE  Cardinality(Since(A, hs, m)) <= ClientLimit
    <2>1. Within(A, hs, m, w.start - 1) = {}
      BY <1>0, <1>2 DEF Open
    <2>2. Since(A, hs, m) \subseteq Since(A, hs, w.start)
      BY <2>1, <1>0 DEF Since, Within, Timed
    <2>3. Cardinality(Since(A, hs, m)) <= Cardinality(Since(A, hs, w.start))
      BY <2>2, CountWithin, CountLess
    <2> QED
      BY <2>3, <1>0, CountWithin
  <1> QED
    BY <1>1, <1>2

\* A window that is dropped leaves an idle client.
LEMMA OpenExpires ==
  ASSUME NEW A, NEW hs, Timed(A, hs), NEW m \in Nat, NEW w \in Windows, NEW t \in Nat,
         NEW u \in Nat, Open(A, hs, m, w, t), w.start + WindowLength <= u
  PROVE  Idle(A, hs, m, u)
  <1> USE GuardAssumption DEF GuardAssumption
  <1>0. /\ w.start \in Nat /\ w.count \in 0..ClientLimit /\ m <= w.start
        /\ Cardinality(Since(A, hs, w.start + 1)) <= w.count - 1
        /\ Since(A, hs, w.start + WindowLength) = {}
    BY DEF Windows, Open
  <1>1. Since(A, hs, u) = {}
    BY <1>0 DEF Since, Timed
  <1>2. ASSUME NEW x \in Nat, m <= x, u < x + WindowLength
        PROVE  Cardinality(Since(A, hs, x)) <= ClientLimit - 1
    <2>1. Since(A, hs, x) \subseteq Since(A, hs, w.start + 1)
      BY <1>0, <1>2 DEF Since, Timed
    <2>2. Cardinality(Since(A, hs, x)) <= Cardinality(Since(A, hs, w.start + 1))
      BY <2>1, CountWithin, CountLess
    <2> QED
      BY <2>2, <1>0, CountWithin
  <1> QED
    BY <1>0, <1>1, <1>2 DEF Idle

\* Time passes over an idle client, and over an open window.
LEMMA TimePasses ==
  ASSUME NEW A, NEW hs, Timed(A, hs), NEW m \in Nat, NEW w \in Windows, NEW t \in Nat,
         NEW u \in Nat, t <= u, WindowHolds(A, hs, m, w, t)
  PROVE  WindowHolds(A, hs, m, w, u)
  <1> USE GuardAssumption DEF GuardAssumption
  <1>0. w.start \in Nat /\ w.count \in Nat
    BY DEF Windows
  <1>1. ASSUME w.count = 0 PROVE Idle(A, hs, m, u)
    <2>1. Idle(A, hs, m, t)
      BY <1>1 DEF WindowHolds
    <2>2. Since(A, hs, u) = {}
      BY <2>1 DEF Idle, Since, Timed
    <2> QED
      BY <2>1, <2>2 DEF Idle
  <1>2. ASSUME w.count > 0 PROVE Open(A, hs, m, w, u)
    <2>1. Open(A, hs, m, w, t)
      BY <1>2 DEF WindowHolds
    <2> QED
      BY <2>1, <1>0 DEF Open
  <1> QED
    BY <1>1, <1>2 DEF WindowHolds

\* One more of A comes at time t.
Joined(A, hs, B, ks, r, t) ==
  /\ r \notin A /\ B = A \cup {r} /\ ks[r].at = t
  /\ \A q \in A : ks[q].at = hs[q].at

LEMMA JoinedTimed ==
  ASSUME NEW A, NEW hs, Timed(A, hs), NEW B, NEW ks, NEW r, NEW t \in Nat,
         Joined(A, hs, B, ks, r, t)
  PROVE  /\ Timed(B, ks)
         /\ \A x \in Int : Since(B, ks, x) = IF x <= t THEN Since(A, hs, x) \cup {r}
                                             ELSE Since(A, hs, x)
         /\ \A x, y \in Int : Within(B, ks, x, y) = IF t \in x..y THEN Within(A, hs, x, y) \cup {r}
                                                    ELSE Within(A, hs, x, y)
  <1>1. Timed(B, ks)
    BY FS_AddElement DEF Timed, Joined
  <1>2. \A x \in Int : Since(B, ks, x) = IF x <= t THEN Since(A, hs, x) \cup {r}
                                         ELSE Since(A, hs, x)
    BY DEF Since, Joined
  <1>3. \A x, y \in Int : Within(B, ks, x, y) = IF t \in x..y THEN Within(A, hs, x, y) \cup {r}
                                                ELSE Within(A, hs, x, y)
    BY DEF Within, Joined
  <1> QED
    BY <1>1, <1>2, <1>3

LEMMA CountOneMore ==
  ASSUME NEW S, IsFiniteSet(S), NEW r, r \notin S
  PROVE  Cardinality(S \cup {r}) = Cardinality(S) + 1 /\ Cardinality(S) \in Nat
  BY FS_AddElement, FS_CardinalityType

\* The first request of an idle client opens a window.
LEMMA WindowOpens ==
  ASSUME NEW A, NEW hs, Timed(A, hs), NEW B, NEW ks, NEW r, NEW t \in Nat, NEW m \in Nat,
         Joined(A, hs, B, ks, r, t), m <= t, Idle(A, hs, m, t)
  PROVE  Open(B, ks, m, [start |-> t, count |-> 1], t)
  <1> USE GuardAssumption DEF GuardAssumption
  <1>0. Since(A, hs, t) = {} /\ Since(A, hs, t + 1) = {} /\ Since(A, hs, t + WindowLength) = {}
    BY DEF Idle, Since, Timed
  <1>1. Since(B, ks, t) = {r} /\ Since(B, ks, t + 1) = {} /\ Since(B, ks, t + WindowLength) = {}
    BY <1>0, JoinedTimed
  <1>2. Cardinality(Since(B, ks, t)) = 1 /\ Cardinality(Since(B, ks, t + 1)) = 0
    BY <1>1, FS_Singleton, CountNone
  <1>3. \A x \in Nat : Within(B, ks, x, t - 1) = Within(A, hs, x, t - 1)
    BY JoinedTimed
  <1>4. \A x \in Nat : Within(A, hs, x, t - 1) \subseteq Since(A, hs, x)
    BY DEF Within, Since
  <1>5. ASSUME NEW x \in Nat, m <= x, t < x + WindowLength
        PROVE  Cardinality(Within(B, ks, x, t - 1)) <= ClientLimit - 1
    <2>1. Cardinality(Within(A, hs, x, t - 1)) <= Cardinality(Since(A, hs, x))
      BY <1>4, CountWithin, CountLess
    <2>2. Cardinality(Since(A, hs, x)) <= ClientLimit - 1
      BY <1>5 DEF Idle
    <2> QED
      BY <2>1, <2>2, <1>3, CountWithin
  <1>6. Within(B, ks, m, t - 1) # {} => m + WindowLength <= t
    BY <1>3, <1>4 DEF Idle
  <1> QED
    BY <1>1, <1>2, <1>5, <1>6 DEF Open

\* One more request joins an open window.
LEMMA WindowGrows ==
  ASSUME NEW A, NEW hs, Timed(A, hs), NEW B, NEW ks, NEW r, NEW t \in Nat, NEW m \in Nat,
         NEW w \in Windows,
         Joined(A, hs, B, ks, r, t), Open(A, hs, m, w, t), t < w.start + WindowLength
  PROVE  Open(B, ks, m, [start |-> w.start, count |-> w.count + 1], t)
  <1> USE GuardAssumption DEF GuardAssumption
  <1>0. w.start \in Nat /\ w.count \in Nat /\ m <= w.start /\ w.start <= t
    BY DEF Windows, Open
  <1>a. PICK v : v = [start |-> w.start, count |-> w.count + 1]
    OBVIOUS
  <1>b. v.start = w.start /\ v.count = w.count + 1
    BY <1>a
  <1>1. /\ Since(B, ks, w.start) = Since(A, hs, w.start) \cup {r}
        /\ Since(B, ks, w.start + WindowLength) = Since(A, hs, w.start + WindowLength)
        /\ Since(B, ks, w.start + 1) \subseteq Since(A, hs, w.start + 1) \cup {r}
    BY <1>0, JoinedTimed
  <1>2. r \notin Since(A, hs, w.start) /\ r \notin Since(A, hs, w.start + 1)
    BY DEF Joined, Since
  <1>3. Cardinality(Since(B, ks, w.start)) = w.count + 1
    BY <1>1, <1>2, CountWithin, CountOneMore DEF Open
  <1>4. Cardinality(Since(B, ks, w.start + 1)) <= w.count
    <2>1. Cardinality(Since(A, hs, w.start + 1) \cup {r}) <= w.count - 1 + 1
      BY <1>0, <1>2, CountWithin, CountOneMore DEF Open
    <2>2. IsFiniteSet(Since(A, hs, w.start + 1) \cup {r})
      BY CountWithin, FS_AddElement
    <2>3. Cardinality(Since(B, ks, w.start + 1)) <= Cardinality(Since(A, hs, w.start + 1) \cup {r})
          /\ Cardinality(Since(A, hs, w.start + 1) \cup {r}) \in Nat
          /\ Cardinality(Since(B, ks, w.start + 1)) \in Nat
      BY <1>1, <2>2, CountLess
    <2> QED
      BY <2>1, <2>3, <1>0
  <1>5. \A x \in Nat : Within(B, ks, x, w.start - 1) = Within(A, hs, x, w.start - 1)
    BY <1>0, JoinedTimed
  <1>6. Since(B, ks, w.start + WindowLength) = {}
    BY <1>1 DEF Open
  <1>7. Open(B, ks, m, v, t)
    BY <1>0, <1>b, <1>3, <1>4, <1>5, <1>6 DEF Open
  <1> QED
    BY <1>7, <1>a

\* A client's request keeps what is never forgotten.
LEMMA DayGrows ==
  ASSUME NEW A, NEW hs, Timed(A, hs), NEW B, NEW ks, NEW r, NEW t \in Nat, NEW d \in Nat,
         NEW w \in Windows, NEW e \in Nat,
         Joined(A, hs, B, ks, r, t), DayHolds(A, hs, e),
         d * DayLength <= t, t < (d + 1) * DayLength,
         Open(B, ks, d * DayLength, w, t), t < w.start + WindowLength
  PROVE  DayHolds(B, ks, e)
  <1> USE GuardAssumption DEF GuardAssumption
  <1>0. /\ Timed(B, ks)
        /\ d * DayLength \in Nat /\ (d + 1) * DayLength = d * DayLength + DayLength
        /\ e * DayLength \in Nat /\ (e + 1) * DayLength = e * DayLength + DayLength
    BY JoinedTimed, DayEnds
  <1> DEFINE m == d * DayLength
             n == e * DayLength
  <1>1. /\ \A x \in Nat : m <= x /\ x <= t /\ t < x + WindowLength =>
              Cardinality(Since(B, ks, x)) <= 2 * ClientLimit - 1
        /\ t < m + WindowLength => Cardinality(Since(B, ks, m)) <= ClientLimit
    BY <1>0, OpenBounds
  <1>2. t \in n..(n + DayLength - 1) => e = d
    BY <1>0, DayUnique
  <1>3. ASSUME NEW x \in Nat, NEW y \in Int, t \notin x..y
        PROVE  Within(B, ks, x, y) = Within(A, hs, x, y)
    BY <1>3, JoinedTimed
  <1>4. \A x \in Nat, y \in Int : Within(B, ks, x, y) \subseteq Since(B, ks, x)
    BY DEF Within, Since
  <1>5. \A x \in Nat, y \in Int : Cardinality(Within(B, ks, x, y)) <= Cardinality(Since(B, ks, x))
    BY <1>4, <1>0, CountWithin, CountLess
  <1>9. \A x, y : Cardinality(Within(B, ks, x, y)) \in Nat /\ Cardinality(Since(B, ks, x)) \in Nat
    BY <1>0, CountWithin
  <1>6. Cardinality(Within(B, ks, n, n + WindowLength - 1)) <= ClientLimit
    <2>1. CASE t \in n..(n + WindowLength - 1)
      <3>1. e = d
        BY <2>1, <1>0, <1>2
      <3>2. Cardinality(Since(B, ks, n)) <= ClientLimit
        BY <3>1, <2>1, <1>0, <1>1
      <3> QED
        BY <3>2, <1>0, <1>5, <1>9
    <2>2. CASE t \notin n..(n + WindowLength - 1)
      BY <2>2, <1>0, <1>3 DEF DayHolds
    <2> QED
      BY <2>1, <2>2
  <1>7. ASSUME NEW x \in Nat, NEW y \in Nat,
               n <= x, y < n + DayLength, y < x + WindowLength
        PROVE  Cardinality(Within(B, ks, x, y)) <= 2 * ClientLimit - 1
    <2>1. CASE t \in x..y
      <3>1. e = d
        BY <2>1, <1>7, <1>0, <1>2
      <3>2. Cardinality(Since(B, ks, x)) <= 2 * ClientLimit - 1
        BY <3>1, <2>1, <1>7, <1>0, <1>1
      <3> QED
        BY <3>2, <1>0, <1>5, <1>9
    <2>2. CASE t \notin x..y
      BY <2>2, <1>7, <1>0, <1>3 DEF DayHolds
    <2> QED
      BY <2>1, <2>2
  <1> QED
    BY <1>0, <1>6, <1>7 DEF DayHolds

--------------------------------------------------------------------------------
(* The guard.                                                               *)

LEMMA CameTimed ==
  ASSUME NEW g, NEW t, NEW hs, Counts(g, t, hs)
  PROVE  /\ Timed(Came(hs), hs) /\ \A a : Timed(From(hs, a), hs)
         /\ IsFiniteSet(AtWork(hs)) /\ Cardinality(AtWork(hs)) \in Nat
  <1>1. /\ Came(hs) \subseteq Requests /\ AtWork(hs) \subseteq Requests
        /\ \A a : From(hs, a) \subseteq Came(hs)
    BY DEF Came, AtWork, From
  <1>2. IsFiniteSet(Requests)
    BY LoadAssumption DEF LoadAssumption
  <1>3. IsFiniteSet(Came(hs)) /\ IsFiniteSet(AtWork(hs)) /\ \A a : IsFiniteSet(From(hs, a))
    BY <1>1, <1>2, FS_Subset
  <1>4. \A r \in Came(hs) : hs[r].at \in Nat
    BY DEF Counts
  <1> QED
    BY <1>1, <1>3, <1>4, FS_CardinalityType DEF Timed

LEMMA GuardFields ==
  ASSUME NEW g \in Guards
  PROVE  /\ g.day \in Nat /\ g.daily \in Nat /\ g.active \in Nat
         /\ \A a \in Addresses : g.clients[a] \in Windows
  BY DEF Guards

\* A new day: nobody has come yet, and no client has a window.
LEMMA TodaysCounts ==
  ASSUME Counts(guard, now, handlers)
  PROVE  Counts(Todays, now, handlers) /\ Todays.day = Day
  <1> USE GuardAssumption DEF GuardAssumption
  <1>1. CASE guard.day = Day
    BY <1>1 DEF Todays
  <1>2. CASE guard.day # Day
    <2>a. PICK g : g = [guard EXCEPT !.day = Day, !.daily = 0, !.clients = NoClients]
      OBVIOUS
    <2>b. PICK d : d = Day
      OBVIOUS
    <2>c. PICK hs : hs = handlers
      OBVIOUS
    <2>d. Todays = g
      BY <1>2, <2>a DEF Todays
    <2>1. guard \in Guards /\ guard.day < d /\ now \in Nat /\ guard.day \in Nat
      BY <1>2, <2>b DEF Counts, Day, Guards
    <2>2. d \in Nat /\ d * DayLength <= now /\ d = now \div DayLength
      BY <2>1, <2>b, DayOf DEF Day
    <2>3. NoWindow \in Windows /\ NoWindow.count = 0
      BY DEF NoWindow, Windows
    <2>4. /\ g \in Guards /\ g.day = d /\ g.daily = 0 /\ g.active = guard.active
          /\ \A a \in Addresses : g.clients[a] = NoWindow
      BY <2>a, <2>b, <2>1, <2>2, <2>3 DEF Guards, NoClients
    <2>5. (guard.day + 1) * DayLength <= d * DayLength /\ d * DayLength \in Nat
      BY <2>1, <2>2, DayAfter, DayEnds
    <2>6. \A r \in Came(hs) : hs[r].at \in Nat /\ hs[r].at < d * DayLength
      BY <2>1, <2>5, <2>c, DayEnds DEF Counts
    <2>7. OnDay(hs, d) = {} /\ \A a, x : x \in Nat /\ d * DayLength <= x =>
                                  Since(From(hs, a), hs, x) = {}
      BY <2>6, <2>5 DEF OnDay, Within, Since, From
    <2>8. \A a \in Addresses : WindowHolds(From(hs, a), hs, d * DayLength, g.clients[a], now)
      <3> TAKE a \in Addresses
      <3>1. Since(From(hs, a), hs, now) = {} /\ Since(From(hs, a), hs, d * DayLength) = {}
        BY <2>7, <2>1, <2>2, <2>5
      <3>2. ASSUME NEW x \in Nat, d * DayLength <= x
            PROVE  Cardinality(Since(From(hs, a), hs, x)) <= ClientLimit - 1
        BY <2>7, <3>2, CountNone
      <3> QED
        BY <3>1, <3>2, <2>3, <2>4 DEF WindowHolds, Idle
    <2>9. Cardinality(OnDay(hs, d)) = 0
      BY <2>7, CountNone
    <2>10. \A r \in Came(hs) : hs[r].at < (d + 1) * DayLength
      BY <2>6, <2>2, DayEnds
    <2>11. g.active = Cardinality(AtWork(hs)) /\ g.active <= ConcurrentLimit
      BY <2>4, <2>c DEF Counts
    <2>12. Counts(g, now, hs)
      BY <2>1, <2>2, <2>4, <2>6, <2>8, <2>9, <2>10, <2>11 DEF Counts
    <2> QED
      BY <2>12, <2>b, <2>c, <2>d, <2>4
  <1> QED
    BY <1>1, <1>2

\* After the sweep every window that is left is still open.
LEMMA SweptCounts ==
  ASSUME Counts(guard, now, handlers)
  PROVE  /\ Counts(Swept, now, handlers) /\ Swept.day = Day
         /\ \A a \in Addresses :
              Swept.clients[a].count > 0 => now < Swept.clients[a].start + WindowLength
  <1> USE GuardAssumption DEF GuardAssumption
  <1>a. PICK g : g = Todays
    OBVIOUS
  <1>b. PICK s : s = Swept
    OBVIOUS
  <1>c. PICK hs : hs = handlers
    OBVIOUS
  <1>1. Counts(g, now, hs) /\ g.day = Day
    BY <1>a, <1>c, TodaysCounts
  <1>2. /\ s.day = g.day /\ s.daily = g.daily /\ s.active = g.active
        /\ DOMAIN s = DOMAIN g
        /\ s.clients = [a \in Addresses |-> IF now - g.clients[a].start >= WindowLength
                                            THEN NoWindow ELSE g.clients[a]]
    <2>1. s = [g EXCEPT !.clients =
                 [a \in Addresses |-> IF now - @[a].start >= WindowLength
                                      THEN NoWindow ELSE @[a]]]
      BY <1>a, <1>b DEF Swept
    <2> QED
      BY <2>1, <1>1 DEF Counts, Guards
  <1>3. now \in Nat /\ g \in Guards
    BY <1>1 DEF Counts
  <1>4. /\ NoWindow \in Windows /\ NoWindow.count = 0
    BY DEF NoWindow, Windows
  <1>5. s \in Guards
    <2>1. \A a \in Addresses : g.clients[a] \in Windows
      BY <1>3, GuardFields
    <2>2. s.clients \in [Addresses -> Windows]
      BY <1>2, <1>4, <2>1
    <2>3. s = [g EXCEPT !.clients = s.clients]
      BY <1>a, <1>b, <1>2 DEF Swept
    <2> QED
      BY <2>2, <2>3, <1>3 DEF Guards
  <1>6. ASSUME NEW a \in Addresses
        PROVE  /\ WindowHolds(From(hs, a), hs, g.day * DayLength, s.clients[a], now)
               /\ s.clients[a].count > 0 => now < s.clients[a].start + WindowLength
    <2>1. WindowHolds(From(hs, a), hs, g.day * DayLength, g.clients[a], now)
      BY <1>1 DEF Counts
    <2>2. g.clients[a] \in Windows /\ g.clients[a].start \in Nat /\ g.clients[a].count \in Nat
      BY <1>3, GuardFields DEF Windows
    <2>3. CASE now - g.clients[a].start >= WindowLength
      <3>1. s.clients[a].count = 0
        BY <2>3, <1>2, <1>4
      <3>2. Idle(From(hs, a), hs, g.day * DayLength, now)
        <4>1. CASE g.clients[a].count = 0
          BY <4>1, <2>1 DEF WindowHolds
        <4>2. CASE g.clients[a].count > 0
          <5>1. Open(From(hs, a), hs, g.day * DayLength, g.clients[a], now)
            BY <4>2, <2>1 DEF WindowHolds
          <5>2. Timed(From(hs, a), hs)
            BY <1>1, CameTimed
          <5>3. g.day * DayLength \in Nat
            BY <1>3, GuardFields, DayEnds
          <5>4. g.clients[a].start + WindowLength <= now
            BY <2>2, <2>3, <1>3
          <5> QED
            BY <5>1, <5>2, <5>3, <5>4, <2>2, <1>3, OpenExpires
        <4> QED
          BY <4>1, <4>2, <2>2
      <3> QED
        BY <3>1, <3>2 DEF WindowHolds
    <2>4. CASE ~(now - g.clients[a].start >= WindowLength)
      <3>1. s.clients[a] = g.clients[a]
        BY <2>4, <1>2
      <3> QED
        BY <3>1, <2>1, <2>2, <2>4, <1>3
    <2> QED
      BY <2>3, <2>4
  <1>7. Counts(s, now, hs)
    BY <1>1, <1>2, <1>5, <1>6 DEF Counts
  <1> QED
    BY <1>a, <1>b, <1>c, <1>1, <1>2, <1>6, <1>7

\* Nobody comes: the ones that came stay what they are.
Unmoved(hs, ks) ==
  /\ Came(ks) = Came(hs)
  /\ \A r \in Came(hs) : ks[r].at = hs[r].at /\ ks[r].address = hs[r].address

LEMMA UnmovedSets ==
  ASSUME NEW hs, NEW ks, Unmoved(hs, ks)
  PROVE  /\ \A a : From(ks, a) = From(hs, a)
         /\ \A d : OnDay(ks, d) = OnDay(hs, d)
         /\ \A a, x : Since(From(ks, a), ks, x) = Since(From(hs, a), hs, x)
         /\ \A a, x, y : Within(From(ks, a), ks, x, y) = Within(From(hs, a), hs, x, y)
  <1>1. \A a : From(ks, a) = From(hs, a)
    BY DEF Unmoved, From
  <1>2. \A d : OnDay(ks, d) = OnDay(hs, d)
    BY DEF Unmoved, OnDay, Within
  <1>3. \A a, x : Since(From(ks, a), ks, x) = Since(From(hs, a), hs, x)
    BY <1>1 DEF Unmoved, Since, From
  <1>4. \A a, x, y : Within(From(ks, a), ks, x, y) = Within(From(hs, a), hs, x, y)
    BY <1>1 DEF Unmoved, Within, From
  <1> QED
    BY <1>1, <1>2, <1>3, <1>4

\* The counts stay true when nobody comes, whoever goes and however late it gets.
LEMMA UnmovedCounts ==
  ASSUME NEW g, NEW h \in Guards, NEW t, NEW u \in Nat, NEW hs, NEW ks,
         Counts(g, t, hs), Unmoved(hs, ks), t <= u,
         h.day = g.day, h.daily = g.daily, h.clients = g.clients,
         h.active = Cardinality(AtWork(ks)), h.active <= ConcurrentLimit
  PROVE  Counts(h, u, ks)
  <1> USE GuardAssumption DEF GuardAssumption
  <1>1. t \in Nat /\ g \in Guards /\ g.day \in Nat /\ g.day * DayLength \in Nat
    BY GuardFields, DayEnds DEF Counts
  <1>2. g.day <= u \div DayLength
    <2>1. g.day <= t \div DayLength
      BY DEF Counts
    <2>2. t \div DayLength <= u \div DayLength
      <3>1. /\ t \div DayLength \in Nat /\ u \div DayLength \in Nat
            /\ (t \div DayLength) * DayLength <= t
            /\ u < (u \div DayLength + 1) * DayLength
        BY <1>1, DayOf
      <3>2. ASSUME u \div DayLength < t \div DayLength PROVE FALSE
        <4>1. (u \div DayLength + 1) * DayLength <= (t \div DayLength) * DayLength
          BY <3>1, <3>2, DayAfter
        <4>2. /\ (u \div DayLength + 1) * DayLength \in Nat
              /\ (t \div DayLength) * DayLength \in Nat
          BY <3>1, DayEnds
        <4> QED
          BY <4>1, <4>2, <3>1, <1>1
      <3> QED
        BY <3>1, <3>2
    <2>3. t \div DayLength \in Nat /\ u \div DayLength \in Nat
      BY <1>1, DayOf
    <2> QED
      BY <2>1, <2>2, <2>3, <1>1
  <1>3. h.daily = Cardinality(OnDay(ks, h.day))
    BY UnmovedSets DEF Counts
  <1>4. ASSUME NEW a \in Addresses
        PROVE  WindowHolds(From(ks, a), ks, h.day * DayLength, h.clients[a], u)
    <2>1. WindowHolds(From(hs, a), hs, g.day * DayLength, g.clients[a], t)
      BY DEF Counts
    <2>2. Timed(From(hs, a), hs) /\ g.clients[a] \in Windows
      BY <1>1, CameTimed, GuardFields
    <2>3. WindowHolds(From(hs, a), hs, g.day * DayLength, g.clients[a], u)
      BY <2>1, <2>2, <1>1, TimePasses
    <2> QED
      BY <2>3, UnmovedSets DEF WindowHolds, Idle, Open
  <1>5. \A r \in Came(ks) : ks[r].at \in Nat /\ ks[r].at < (h.day + 1) * DayLength
    BY DEF Counts, Unmoved
  <1> QED
    BY <1>2, <1>3, <1>4, <1>5 DEF Counts

LEMMA UnmovedBounded ==
  ASSUME NEW hs, NEW ks, Unmoved(hs, ks), Bounded(hs)
  PROVE  Bounded(ks)
  BY UnmovedSets DEF Bounded, DayHolds

\* A request is granted to client a at time t.
Granted(g, h, t, hs, ks, r, a) ==
  /\ r \in Requests /\ r \notin Came(hs) /\ r \notin AtWork(hs) /\ a \in Addresses
  /\ Came(ks) = Came(hs) \cup {r} /\ AtWork(ks) = AtWork(hs) \cup {r}
  /\ ks[r].at = t /\ ks[r].address = a
  /\ \A q \in Came(hs) : ks[q].at = hs[q].at /\ ks[q].address = hs[q].address
  /\ g.clients[a].count < ClientLimit /\ g.daily < DailyLimit /\ g.active < ConcurrentLimit
  /\ h = [g EXCEPT !.clients[a] = [start |-> IF @.count = 0 THEN t ELSE @.start,
                                    count |-> @.count + 1],
                   !.daily = @ + 1, !.active = @ + 1]

\* The guard g was swept at time t.
Clean(g, t) ==
  /\ g.day = t \div DayLength
  /\ \A a \in Addresses : g.clients[a].count > 0 => t < g.clients[a].start + WindowLength

LEMMA GrantedGuard ==
  ASSUME NEW g \in Guards, NEW h, NEW t \in Nat, NEW hs, NEW ks, NEW r, NEW a,
         Granted(g, h, t, hs, ks, r, a)
  PROVE  /\ h \in Guards /\ h.day = g.day /\ h.daily = g.daily + 1 /\ h.active = g.active + 1
         /\ \A b \in Addresses \ {a} : h.clients[b] = g.clients[b]
         /\ g.clients[a].count = 0 => h.clients[a] = [start |-> t, count |-> 1]
         /\ g.clients[a].count # 0 =>
              h.clients[a] = [start |-> g.clients[a].start, count |-> g.clients[a].count + 1]
  <1> USE GuardAssumption DEF GuardAssumption
  <1>a. PICK w : w = [start |-> IF g.clients[a].count = 0 THEN t ELSE g.clients[a].start,
                      count |-> g.clients[a].count + 1]
    OBVIOUS
  <1>1. h = [g EXCEPT !.clients[a] = w, !.daily = @ + 1, !.active = @ + 1]
    BY <1>a DEF Granted
  <1>2. g.clients[a] \in Windows /\ a \in Addresses /\ g.clients[a].count < ClientLimit
    BY GuardFields DEF Granted
  <1>3. w \in Windows
    BY <1>a, <1>2 DEF Windows
  <1>4. /\ h \in Guards /\ h.day = g.day /\ h.daily = g.daily + 1 /\ h.active = g.active + 1
        /\ h.clients = [g.clients EXCEPT ![a] = w]
    <2>1. /\ DOMAIN g = {"day", "daily", "active", "clients"}
          /\ g.clients \in [Addresses -> Windows]
          /\ g.day \in Nat /\ g.daily \in Nat /\ g.active \in Nat
      BY DEF Guards
    <2>2. /\ h.day = g.day /\ h.daily = g.daily + 1 /\ h.active = g.active + 1
          /\ h.clients = [g.clients EXCEPT ![a] = w]
      BY <1>1, <2>1
    <2>3. h.clients \in [Addresses -> Windows]
      BY <2>1, <2>2, <1>3
    <2>4. h = [day |-> h.day, daily |-> h.daily, active |-> h.active, clients |-> h.clients]
      BY <1>1 DEF Guards
    <2> QED
      BY <2>1, <2>2, <2>3, <2>4 DEF Guards
  <1>5. h.clients[a] = w /\ \A b \in Addresses \ {a} : h.clients[b] = g.clients[b]
    BY <1>4, <1>2 DEF Guards
  <1> QED
    BY <1>4, <1>5, <1>a

\* A granted request is counted, and the bounds hold with it.
LEMMA GrantedCounts ==
  ASSUME NEW g, NEW h, NEW t, NEW hs, NEW ks, NEW r, NEW a,
         Counts(g, t, hs), Bounded(hs), Clean(g, t), Granted(g, h, t, hs, ks, r, a)
  PROVE  Counts(h, t, ks) /\ Bounded(ks)
  <1> USE GuardAssumption DEF GuardAssumption
  <1>1. /\ t \in Nat /\ g \in Guards /\ g.day \in Nat /\ g.daily \in Nat /\ g.active \in Nat
        /\ g.day * DayLength \in Nat /\ (g.day + 1) * DayLength \in Nat
        /\ (g.day + 1) * DayLength = g.day * DayLength + DayLength
    BY GuardFields, DayEnds DEF Counts
  <1>2. g.day * DayLength <= t /\ t < (g.day + 1) * DayLength
    BY <1>1, DayOf DEF Clean
  <1>3. /\ h \in Guards /\ h.day = g.day /\ h.daily = g.daily + 1 /\ h.active = g.active + 1
        /\ \A b \in Addresses \ {a} : h.clients[b] = g.clients[b]
        /\ g.clients[a].count = 0 => h.clients[a] = [start |-> t, count |-> 1]
        /\ g.clients[a].count # 0 =>
             h.clients[a] = [start |-> g.clients[a].start, count |-> g.clients[a].count + 1]
    BY <1>1, GrantedGuard
  <1>4. h.active = Cardinality(AtWork(ks)) /\ h.active <= ConcurrentLimit
    <2>1. Cardinality(AtWork(ks)) = Cardinality(AtWork(hs)) + 1
      BY CameTimed, CountOneMore DEF Granted
    <2>2. g.active = Cardinality(AtWork(hs)) /\ g.active < ConcurrentLimit
      BY DEF Counts, Granted
    <2> QED
      BY <2>1, <2>2, <1>1, <1>3
  <1>5. Joined(Came(hs), hs, Came(ks), ks, r, t) /\ Joined(From(hs, a), hs, From(ks, a), ks, r, t)
    BY DEF Joined, Granted, From
  <1>6. \A b \in Addresses \ {a} : From(ks, b) = From(hs, b) /\ From(hs, b) \subseteq Came(hs)
    BY DEF Granted, From
  <1>7. Timed(Came(hs), hs) /\ \A b : Timed(From(hs, b), hs)
    BY CameTimed
  <1>8. \A b \in Addresses \ {a} :
          /\ \A x : Since(From(ks, b), ks, x) = Since(From(hs, b), hs, x)
          /\ \A x, y : Within(From(ks, b), ks, x, y) = Within(From(hs, b), hs, x, y)
    <2> TAKE b \in Addresses \ {a}
    <2>1. From(ks, b) = From(hs, b) /\ \A q \in From(hs, b) : ks[q].at = hs[q].at
      BY <1>6 DEF Granted
    <2> QED
      BY <2>1 DEF Since, Within
  <1>9. \A q \in Came(ks) : ks[q].at \in Nat /\ ks[q].at < (h.day + 1) * DayLength
    BY <1>1, <1>2, <1>3 DEF Counts, Granted
  <1>10. /\ \A d \in Nat \ {g.day} : OnDay(ks, d) = OnDay(hs, d)
         /\ OnDay(ks, g.day) = OnDay(hs, g.day) \cup {r} /\ r \notin OnDay(hs, g.day)
    <2>1. ASSUME NEW d \in Nat
          PROVE  OnDay(ks, d) = IF t \in (d * DayLength)..((d + 1) * DayLength - 1)
                                THEN OnDay(hs, d) \cup {r} ELSE OnDay(hs, d)
      <3>1. d * DayLength \in Int /\ (d + 1) * DayLength - 1 \in Int
        BY DayEnds
      <3>2. /\ Timed(Came(hs), hs) /\ t \in Nat /\ Joined(Came(hs), hs, Came(ks), ks, r, t)
        BY <1>1, <1>5, <1>7
      <3>3. \A x, y \in Int : Within(Came(ks), ks, x, y) =
                               IF t \in x..y THEN Within(Came(hs), hs, x, y) \cup {r}
                               ELSE Within(Came(hs), hs, x, y)
        BY <3>2, JoinedTimed
      <3> QED
        BY <3>1, <3>3 DEF OnDay
    <2>2. ASSUME NEW d \in Nat \ {g.day}
          PROVE  t \notin (d * DayLength)..((d + 1) * DayLength - 1)
      <3>1. d * DayLength \in Nat /\ (d + 1) * DayLength \in Nat
        BY DayEnds
      <3> QED
        BY <3>1, <1>1, <1>2, DayUnique
    <2>3. r \notin OnDay(hs, g.day)
      BY DEF OnDay, Within, Granted
    <2>4. t \in (g.day * DayLength)..((g.day + 1) * DayLength - 1)
      BY <1>1, <1>2
    <2> QED
      BY <2>1, <2>2, <2>3, <2>4, <1>1
  <1>11. /\ h.daily = Cardinality(OnDay(ks, h.day))
         /\ \A d \in Nat : Cardinality(OnDay(ks, d)) <= DailyLimit
    <2>1. IsFiniteSet(OnDay(hs, g.day))
      BY <1>7, CountWithin DEF OnDay
    <2>2. Cardinality(OnDay(ks, g.day)) = Cardinality(OnDay(hs, g.day)) + 1
      BY <2>1, <1>10, CountOneMore
    <2>3. g.daily = Cardinality(OnDay(hs, g.day)) /\ g.daily < DailyLimit
      BY DEF Counts, Granted
    <2>4. Cardinality(OnDay(ks, g.day)) <= DailyLimit
      BY <2>2, <2>3, <1>1
    <2>5. \A d \in Nat \ {g.day} : Cardinality(OnDay(ks, d)) <= DailyLimit
      BY <1>10 DEF Bounded
    <2> QED
      BY <2>2, <2>3, <2>4, <2>5, <1>1, <1>3
  <1>12. a \in Addresses /\ g.clients[a] \in Windows /\ h.clients[a] \in Windows
    BY <1>1, <1>3, GuardFields DEF Granted
  <1>13. /\ Open(From(ks, a), ks, g.day * DayLength, h.clients[a], t)
         /\ t < h.clients[a].start + WindowLength /\ h.clients[a].count > 0
    <2>1. WindowHolds(From(hs, a), hs, g.day * DayLength, g.clients[a], t)
      BY <1>12 DEF Counts
    <2>2. CASE g.clients[a].count = 0
      <3>1. Idle(From(hs, a), hs, g.day * DayLength, t)
        BY <2>1, <2>2 DEF WindowHolds
      <3>2. Open(From(ks, a), ks, g.day * DayLength, [start |-> t, count |-> 1], t)
        BY <3>1, <1>1, <1>2, <1>5, <1>7, WindowOpens
      <3> QED
        BY <3>2, <2>2, <1>3, <1>1
    <2>3. CASE g.clients[a].count # 0
      <3>0. g.clients[a].count > 0 /\ g.clients[a].start \in Nat
        BY <2>3, <1>12 DEF Windows
      <3>1. /\ Open(From(hs, a), hs, g.day * DayLength, g.clients[a], t)
            /\ t < g.clients[a].start + WindowLength
        BY <2>1, <3>0, <1>12 DEF WindowHolds, Clean
      <3>2. Open(From(ks, a), ks, g.day * DayLength,
                 [start |-> g.clients[a].start, count |-> g.clients[a].count + 1], t)
        BY <3>1, <1>1, <1>5, <1>7, <1>12, WindowGrows
      <3>3. h.clients[a].start = g.clients[a].start /\ h.clients[a].count = g.clients[a].count + 1
        BY <2>3, <1>3, <1>12 DEF Windows
      <3> QED
        <4>1. Open(From(ks, a), ks, g.day * DayLength, h.clients[a], t)
          BY <3>2, <2>3, <1>3
        <4>2. g.clients[a].count \in Nat
          BY <1>12 DEF Windows
        <4> QED
          BY <4>1, <4>2, <3>0, <3>1, <3>3
    <2> QED
      BY <2>2, <2>3
  <1>14. ASSUME NEW b \in Addresses
         PROVE  WindowHolds(From(ks, b), ks, h.day * DayLength, h.clients[b], t)
    <2>1. CASE b = a
      <3>1. h.clients[a].count \in Nat /\ h.clients[a].count # 0
        BY <1>13, <1>12 DEF Windows
      <3> QED
        BY <2>1, <3>1, <1>3, <1>13 DEF WindowHolds
    <2>2. CASE b # a
      <3>1. WindowHolds(From(hs, b), hs, g.day * DayLength, g.clients[b], t)
        BY DEF Counts
      <3> QED
        BY <2>2, <3>1, <1>3, <1>8 DEF WindowHolds, Idle, Open
    <2> QED
      BY <2>1, <2>2
  <1>15. ASSUME NEW b \in Addresses, NEW e \in Nat
         PROVE  DayHolds(From(ks, b), ks, e)
    <2>1. DayHolds(From(hs, b), hs, e)
      BY DEF Bounded
    <2>2. CASE b = a
      BY <2>1, <2>2, <1>1, <1>2, <1>5, <1>7, <1>12, <1>13, DayGrows
    <2>3. CASE b # a
      BY <2>1, <2>3, <1>8 DEF DayHolds
    <2> QED
      BY <2>2, <2>3
  <1>16. Counts(h, t, ks)
    <2>1. h.day <= t \div DayLength
      BY <1>1, <1>3, DayOf DEF Clean
    <2> QED
      BY <2>1, <1>1, <1>3, <1>4, <1>9, <1>11, <1>14 DEF Counts
  <1>17. Bounded(ks)
    BY <1>11, <1>15 DEF Bounded
  <1> QED
    BY <1>16, <1>17

--------------------------------------------------------------------------------
(* Answers and reports.                                                     *)

\* What the observers found, from what each of them saw: a candidate was raised by
\* one of them, and where nothing blocks, all they raised is in it.
LEMMA FoundHolds ==
  ASSUME NEW rt, NEW h, h.primary \in Primaries,
         h.scout = Off \/ h.scout \in Scouts \/ h.scout \in Failures
  PROVE  /\ Found(rt, h).raised \in [Objects -> {"none", "missing", "vague", "moved"}]
         /\ \A o \in Objects : Found(rt, h).raised[o] = "missing" => RaisedBy(h, o)
         /\ Found(rt, h).whole = h.primary.whole
         /\ ~Found(rt, h).blocking =>
              /\ ~h.primary.blocking
              /\ h.scout # Off => h.scout.kind = "scout" /\ h.scout.usable /\ ~h.scout.hidden
              /\ \A o \in Objects : RaisedBy(h, o) => Found(rt, h).raised[o] # "none"
  <1> DEFINE P == h.primary
             S == h.scout
  <1>a. PICK g : g = IF rt.provider = "qwen" THEN GuardSaturated(P) ELSE P
    OBVIOUS
  <1>1. /\ g.raised = P.raised /\ g.whole = P.whole /\ g.size = P.size
        /\ g.blocking \in BOOLEAN /\ P.blocking \in BOOLEAN
        /\ ~g.blocking => ~P.blocking
        /\ DOMAIN g = DOMAIN P /\ P.raised \in [Objects -> {"none", "missing", "vague", "moved"}]
        /\ DOMAIN P = {"kind", "raised", "whole", "blocking", "size", "clash"}
    BY <1>a DEF GuardSaturated, Primaries
  <1>2. CASE S = Off
    <2>1. Found(rt, h) = g
      BY <1>2, <1>a DEF Found, Observed, Off
    <2>2. \A o : RaisedBy(h, o) <=> P.raised[o] # "none"
      BY <1>2 DEF RaisedBy, Off
    <2>3. ~Found(rt, h).blocking => ~P.blocking
      BY <2>1, <1>1
    <2>4. ~Found(rt, h).blocking =>
            \A o \in Objects : RaisedBy(h, o) => Found(rt, h).raised[o] # "none"
      BY <2>1, <2>2, <1>1
    <2>5. \A o \in Objects : Found(rt, h).raised[o] = "missing" => RaisedBy(h, o)
      BY <2>1, <2>2, <1>1
    <2> QED
      BY <2>1, <2>3, <2>4, <2>5, <1>1, <1>2
  <1>3. CASE S \in Failures
    <2>1. Found(rt, h) = MarkUnresolved(g)
      BY <1>3, <1>a DEF Found, Observed, Failures
    <2>2. \A o : RaisedBy(h, o) <=> P.raised[o] # "none"
      BY <1>3 DEF RaisedBy, Failures
    <2>3. /\ Found(rt, h).raised = g.raised /\ Found(rt, h).whole = g.whole
          /\ Found(rt, h).blocking
      BY <2>1, <1>1 DEF MarkUnresolved
    <2> QED
      BY <2>2, <2>3, <1>1
  <1>4. CASE S \in Scouts
    <2>1. Found(rt, h) = Merge(g, S)
      BY <1>4, <1>a DEF Found, Observed, Scouts
    <2>2. /\ S.kind = "scout" /\ S.found \subseteq Objects
          /\ S.usable \in BOOLEAN /\ S.hidden \in BOOLEAN /\ S.full \in BOOLEAN
      BY <1>4 DEF Scouts
    <2>3. \A o : RaisedBy(h, o) <=> (P.raised[o] # "none" \/ o \in S.found)
      BY <2>2 DEF RaisedBy
    <2>4. PICK kept : kept = {o \in S.found : g.raised[o] # "none" \/ g.size # "most"}
      OBVIOUS
    <2>5. Found(rt, h) = [g EXCEPT
            !.raised = [o \in Objects |-> IF o \in kept THEN "missing" ELSE @[o]],
            !.blocking = @ \/ ~S.usable \/ S.hidden \/ S.full \/ kept # S.found]
      BY <2>1, <2>4 DEF Merge
    <2>6. /\ Found(rt, h).raised =
               [o \in Objects |-> IF o \in kept THEN "missing" ELSE g.raised[o]]
          /\ Found(rt, h).whole = g.whole
      BY <2>5, <1>1
    <2>7. ~Found(rt, h).blocking => ~g.blocking /\ S.usable /\ ~S.hidden /\ kept = S.found
      BY <2>5, <1>1, Zenon
    <2>8. kept \subseteq S.found
      BY <2>4
    <2>9. \A o \in Objects :
            /\ Found(rt, h).raised[o] = IF o \in kept THEN "missing" ELSE P.raised[o]
            /\ P.raised[o] \in {"none", "missing", "vague", "moved"}
      BY <2>6, <1>1
    <2>10. Found(rt, h).raised \in [Objects -> {"none", "missing", "vague", "moved"}]
      BY <2>6, <1>1
    <2>11. \A o \in Objects : Found(rt, h).raised[o] = "missing" => RaisedBy(h, o)
      BY <2>3, <2>8, <2>9
    <2>12. ASSUME ~Found(rt, h).blocking
           PROVE  /\ ~P.blocking /\ S.usable /\ ~S.hidden
                  /\ \A o \in Objects : RaisedBy(h, o) => Found(rt, h).raised[o] # "none"
      <3>1. ~g.blocking /\ S.usable /\ ~S.hidden /\ kept = S.found
        BY <2>12, <2>7, Zenon
      <3>2. ~P.blocking
        BY <3>1, <1>1, Zenon
      <3>3. \A o \in Objects : RaisedBy(h, o) => Found(rt, h).raised[o] # "none"
        <4> TAKE o \in Objects
        <4>1. CASE o \in kept
          BY <4>1, <2>9
        <4>2. CASE o \notin kept
          BY <4>2, <3>1, <2>3, <2>9
        <4> QED
          BY <4>1, <4>2
      <3> QED
        BY <3>1, <3>2, <3>3, Zenon
    <2> QED
      BY <2>2, <2>6, <2>10, <2>11, <2>12, <1>1
  <1> QED
    BY <1>2, <1>3, <1>4

\* The item of an object, read back.
LEMMA ItemHolds ==
  ASSUME NEW an, NEW v, NEW o \in Objects,
         an.raised \in [Objects -> {"none", "missing", "vague", "moved"}],
         v \in [DOMAIN v -> Verdicts]
  PROVE  /\ Item(an, v, o) = "missing" =>
              an.raised[o] = "missing" /\ o \in DOMAIN v /\ v[o] = "missing"
         /\ Item(an, v, o) = "none" =>
              \/ an.raised[o] = "none"
              \/ an.raised[o] = "missing" /\ o \in DOMAIN v /\ v[o] = "same"
         /\ Item(an, v, o) = "misplaced" /\ an.raised[o] = "missing" =>
              o \in DOMAIN v /\ v[o] \in {"elsewhere", "unplaced"}
         /\ Item(an, v, o) \in {"none", "missing", "misplaced", "unresolved"}
  <1>1. an.raised[o] \in {"none", "missing", "vague", "moved"}
    OBVIOUS
  <1>2. CASE an.raised[o] # "missing"
    BY <1>1, <1>2 DEF Item
  <1>3. CASE an.raised[o] = "missing" /\ o \notin DOMAIN v
    BY <1>3 DEF Item
  <1>4. CASE an.raised[o] = "missing" /\ o \in DOMAIN v
    <2>1. v[o] \in Verdicts
      BY <1>4
    <2>2. Item(an, v, o) = [missing |-> "missing", same |-> "none", elsewhere |-> "misplaced",
                            unplaced |-> "misplaced", unsure |-> "unresolved",
                            incomparable |-> "unresolved"][v[o]]
      BY <1>4 DEF Item
    <2> QED
      BY <2>1, <2>2, <1>4 DEF Verdicts, Certain
  <1> QED
    BY <1>2, <1>3, <1>4

\* A clear report is one without a reservation.
LEMMA ClearHolds ==
  ASSUME NEW an, NEW v, NEW mode, Report(an, v, mode).status = "clear"
  PROVE  /\ an.whole /\ ~an.blocking
         /\ \A o \in Objects :
              /\ Item(an, v, o) # "unresolved"
              /\ mode # "inventory" => Item(an, v, o) \notin {"missing", "misplaced"}
  <1>a. PICK items : items = [o \in Objects |-> Item(an, v, o)]
    OBVIOUS
  <1>1. Status(an, items, mode) = "clear"
    BY <1>a DEF Report
  <1>2. /\ an.whole /\ ~an.blocking /\ "unresolved" \notin Range(items)
        /\ mode # "inventory" => {"missing", "misplaced"} \cap Range(items) = {}
    BY <1>1 DEF Status
  <1>3. \A o \in Objects : items[o] \in Range(items) /\ items[o] = Item(an, v, o)
    BY <1>a DEF Range
  <1> QED
    BY <1>2, <1>3

LEMMA ReportItems ==
  ASSUME NEW an, NEW v, NEW mode, NEW o \in Objects
  PROVE  Report(an, v, mode).items[o] = Item(an, v, o)
  BY DEF Report

\* What a verifier that decides alone, or last, has said.
LEMMA VerdictsHold ==
  ASSUME NEW rt, NEW h, ReportHolds(rt, h)
  PROVE  \E v : /\ v \in [DOMAIN v -> Verdicts] /\ ReportFrom(rt, h, v)
                /\ \/ v = Unverified
                   \/ FastDecides(Candidates(Found(rt, h)), h.fast) /\ v = h.fast.says
                      /\ h.plus = NoAnswer
                   \/ /\ h.plus.kind = "batch" /\ v = h.plus.says
                      /\ rt.provider = "qwen" =>
                           BatchHolds(Candidates(Found(rt, h)), h.plus, FALSE)
  <1>0. Unverified \in [DOMAIN Unverified -> Verdicts]
    BY DEF Unverified
  <1>1. CASE ReportFrom(rt, h, Unverified)
    BY <1>0, <1>1
  <1>2. CASE /\ BatchForm(h.fast) /\ FastDecides(Candidates(Found(rt, h)), h.fast)
             /\ h.plus = NoAnswer
             /\ ReportFrom(rt, h, h.fast.says)
    <2>1. h.fast.says \in [DOMAIN h.fast.says -> Verdicts]
      BY <1>2 DEF FastDecides, BatchHolds, BatchForm, Failures
    <2> QED
      BY <2>1, <1>2
  <1>3. CASE /\ BatchForm(h.plus)
             /\ ReportFrom(rt, h, Verified(rt.provider, Candidates(Found(rt, h)), h.plus))
    <2>1. CASE Verified(rt.provider, Candidates(Found(rt, h)), h.plus) = Unverified
      BY <2>1, <1>0, <1>3
    <2>2. CASE /\ h.plus.kind = "batch"
               /\ rt.provider = "qwen" => BatchHolds(Candidates(Found(rt, h)), h.plus, FALSE)
      <3>1. Verified(rt.provider, Candidates(Found(rt, h)), h.plus) = h.plus.says
        BY <2>2 DEF Verified
      <3>2. h.plus.says \in [DOMAIN h.plus.says -> Verdicts]
        BY <2>2, <1>3 DEF BatchForm, Failures
      <3> QED
        BY <3>1, <3>2, <2>2, <1>3
    <2> QED
      BY <2>1, <2>2 DEF Verified
  <1> QED
    BY <1>1, <1>2, <1>3 DEF ReportHolds

--------------------------------------------------------------------------------
(* One handler moves.                                                       *)

\* Only handler r is replaced.
LEMMA Updated ==
  ASSUME NEW hs, hs = [q \in Requests |-> hs[q]], NEW r \in Requests, NEW h, NEW ks,
         ks = [hs EXCEPT ![r] = h]
  PROVE  /\ ks = [q \in Requests |-> ks[q]] /\ ks[r] = h
         /\ \A q \in Requests \ {r} : ks[q] = hs[q]
  OBVIOUS

Forms(rt, hs) ==
  \A r \in Requests : HandlerForm(hs[r]) /\ (Reports(hs[r]) => ReportHolds(rt, hs[r]))

LEMMA UpdatedForms ==
  ASSUME NEW rt, NEW hs, NEW ks, NEW r \in Requests, NEW h, Forms(rt, hs), ks[r] = h,
         \A q \in Requests \ {r} : ks[q] = hs[q],
         HandlerForm(h), Reports(h) => ReportHolds(rt, h)
  PROVE  Forms(rt, ks)
  BY DEF Forms

\* A handler at work keeps its address and its time; it goes on working, or is done.
Follows(g, h) ==
  /\ g.pc \in {"body", "observing", "verifying"}
  /\ h.pc \in {"body", "observing", "verifying", "done"}
  /\ h.address = g.address /\ h.at = g.at

LEMMA FollowsUnmoved ==
  ASSUME NEW hs, NEW ks, NEW r \in Requests, Follows(hs[r], ks[r]),
         \A q \in Requests \ {r} : ks[q] = hs[q]
  PROVE  /\ Unmoved(hs, ks) /\ r \in AtWork(hs)
         /\ ks[r].pc = "done" => AtWork(ks) = AtWork(hs) \ {r}
         /\ ks[r].pc # "done" => AtWork(ks) = AtWork(hs)
  <1>1. Came(ks) = Came(hs)
    BY DEF Follows, Came
  <1>2. \A q \in Came(hs) : ks[q].at = hs[q].at /\ ks[q].address = hs[q].address
    BY DEF Follows, Came
  <1>3. r \in AtWork(hs)
    BY DEF Follows, AtWork
  <1>4. ks[r].pc = "done" => AtWork(ks) = AtWork(hs) \ {r}
    BY DEF Follows, AtWork
  <1>5. ks[r].pc # "done" => AtWork(ks) = AtWork(hs)
    BY DEF Follows, AtWork
  <1> QED
    BY <1>1, <1>2, <1>3, <1>4, <1>5 DEF Unmoved

\* A step of a handler that keeps its permit.
LEMMA GoesOn ==
  ASSUME RouteInv, NEW r \in Requests, NEW h, Become(r, h), Follows(handlers[r], h),
         h.pc # "done", HandlerForm(h), UNCHANGED <<now, guard, load, runtime>>
  PROVE  RouteInv'
  <1>a. PICK hs : hs = handlers
    OBVIOUS
  <1>b. PICK ks : ks = handlers'
    OBVIOUS
  <1>1. /\ ks = [q \in Requests |-> ks[q]] /\ ks[r] = h
        /\ \A q \in Requests \ {r} : ks[q] = hs[q]
    BY <1>a, <1>b, Updated DEF Become, RouteInv
  <1>f. Follows(hs[r], ks[r])
    BY <1>a, <1>1 DEF Follows
  <1>2. Unmoved(hs, ks) /\ AtWork(ks) = AtWork(hs)
    BY <1>f, <1>1, FollowsUnmoved
  <1>3. Counts(guard, now, hs) /\ Bounded(hs) /\ Forms(runtime, hs)
    BY <1>a DEF RouteInv, Forms
  <1>4. Counts(guard, now, ks)
    <2>1. /\ guard \in Guards /\ now \in Nat /\ now <= now
          /\ guard.active = Cardinality(AtWork(ks)) /\ guard.active <= ConcurrentLimit
      BY <1>2, <1>3 DEF Counts
    <2> QED
      BY <2>1, <1>2, <1>3, UnmovedCounts
  <1>5. Bounded(ks)
    BY <1>2, <1>3, UnmovedBounded
  <1>6. Forms(runtime, ks)
    BY <1>1, <1>3, UpdatedForms DEF Reports
  <1> QED
    BY <1>b, <1>1, <1>4, <1>5, <1>6 DEF RouteInv, Forms

\* A handler ends and gives its permit back.
LEMMA Ends ==
  ASSUME RouteInv, NEW r \in Requests, NEW h, Become(r, h), Release, Follows(handlers[r], h),
         h.pc = "done", HandlerForm(h), Reports(h) => ReportHolds(runtime, h),
         UNCHANGED <<now, load, runtime>>
  PROVE  RouteInv'
  <1> USE GuardAssumption DEF GuardAssumption
  <1>a. PICK hs : hs = handlers
    OBVIOUS
  <1>b. PICK ks : ks = handlers'
    OBVIOUS
  <1>c. PICK g : g = guard'
    OBVIOUS
  <1>1. /\ ks = [q \in Requests |-> ks[q]] /\ ks[r] = h
        /\ \A q \in Requests \ {r} : ks[q] = hs[q]
    BY <1>a, <1>b, Updated DEF Become, RouteInv
  <1>f. Follows(hs[r], ks[r])
    BY <1>a, <1>1 DEF Follows
  <1>e. ks[r].pc = "done"
    BY <1>1
  <1>2. Unmoved(hs, ks) /\ r \in AtWork(hs) /\ AtWork(ks) = AtWork(hs) \ {r}
    <2>1. Unmoved(hs, ks) /\ r \in AtWork(hs)
      BY <1>f, <1>1, FollowsUnmoved
    <2>2. \A q \in Requests \ {r} : ks[q] = hs[q]
      BY <1>1
    <2>3. AtWork(ks) = AtWork(hs) \ {r}
      BY <1>e, <1>f, <2>2 DEF Follows, AtWork
    <2> QED
      BY <2>1, <2>3
  <1>3. Counts(guard, now, hs) /\ Bounded(hs) /\ Forms(runtime, hs)
    BY <1>a DEF RouteInv, Forms
  <1>4. /\ guard \in Guards /\ now \in Nat /\ guard.active \in Nat
        /\ guard.active = Cardinality(AtWork(hs)) /\ guard.active <= ConcurrentLimit
        /\ IsFiniteSet(AtWork(hs))
    BY <1>3, GuardFields, CameTimed DEF Counts
  <1>5. Cardinality(AtWork(ks)) = guard.active - 1 /\ guard.active > 0
    <2>1. Cardinality(AtWork(hs) \ {r}) = Cardinality(AtWork(hs)) - 1
      BY <1>2, <1>4, FS_RemoveElement
    <2>2. Cardinality(AtWork(hs)) # 0
      BY <1>2, <1>4, FS_EmptySet
    <2> QED
      BY <2>1, <2>2, <1>2, <1>4
  <1>6. /\ g \in Guards /\ g.day = guard.day /\ g.daily = guard.daily
        /\ g.clients = guard.clients /\ g.active = guard.active - 1
    BY <1>c, <1>4, <1>5 DEF Release, Guards
  <1>7. Counts(g, now, ks)
    <2>1. g.active = Cardinality(AtWork(ks)) /\ g.active <= ConcurrentLimit /\ now <= now
      BY <1>4, <1>5, <1>6
    <2> QED
      BY <2>1, <1>2, <1>3, <1>4, <1>6, UnmovedCounts
  <1>8. Bounded(ks)
    BY <1>2, <1>3, UnmovedBounded
  <1>9. Forms(runtime, ks)
    BY <1>1, <1>3, UpdatedForms
  <1> QED
    BY <1>b, <1>c, <1>1, <1>7, <1>8, <1>9 DEF RouteInv, Forms

\* Time passes.
LEMMA TickHolds ==
  ASSUME RouteInv, Tick
  PROVE  RouteInv'
  <1>a. PICK hs : hs = handlers
    OBVIOUS
  <1>1. Counts(guard, now, hs) /\ guard \in Guards /\ now \in Nat
    BY <1>a DEF RouteInv, Counts
  <1>2. Unmoved(hs, hs)
    BY DEF Unmoved
  <1>3. now + 1 \in Nat /\ now <= now + 1
    BY <1>1
  <1>4. guard.active = Cardinality(AtWork(hs)) /\ guard.active <= ConcurrentLimit
    BY <1>1 DEF Counts
  <1>5. Counts(guard, now + 1, hs)
    BY <1>1, <1>2, <1>3, <1>4, UnmovedCounts
  <1> QED
    BY <1>a, <1>5 DEF RouteInv, Tick

\* What the guard finds when a request arrives.
LEMMA ArrivalSets ==
  ASSUME NEW hs, NEW ks, NEW r \in Requests, hs[r] = NotArrived,
         \A q \in Requests \ {r} : ks[q] = hs[q]
  PROVE  /\ r \notin Came(hs) /\ r \notin AtWork(hs)
         /\ ks[r].pc = "refused" => Unmoved(hs, ks) /\ AtWork(ks) = AtWork(hs)
         /\ ks[r].pc = "body" => /\ Came(ks) = Came(hs) \cup {r}
                                 /\ AtWork(ks) = AtWork(hs) \cup {r}
                                 /\ \A q \in Came(hs) : ks[q] = hs[q]
  <1>1. hs[r].pc = "idle"
    BY DEF NotArrived
  <1>2. r \notin Came(hs) /\ r \notin AtWork(hs)
    BY <1>1 DEF Came, AtWork
  <1>3. ASSUME ks[r].pc = "refused"
        PROVE  Unmoved(hs, ks) /\ AtWork(ks) = AtWork(hs)
    <2>1. Came(ks) = Came(hs) /\ AtWork(ks) = AtWork(hs)
      BY <1>1, <1>3 DEF Came, AtWork
    <2> QED
      BY <2>1, <1>2 DEF Unmoved, Came
  <1>4. ASSUME ks[r].pc = "body"
        PROVE  /\ Came(ks) = Came(hs) \cup {r} /\ AtWork(ks) = AtWork(hs) \cup {r}
               /\ \A q \in Came(hs) : ks[q] = hs[q]
    BY <1>1, <1>2, <1>4 DEF Came, AtWork
  <1> QED
    BY <1>2, <1>3, <1>4

LEMMA ArriveHolds ==
  ASSUME RouteInv, NEW r \in Requests, NEW a \in Addresses, NEW mode, Arrive(r, a, mode)
  PROVE  RouteInv'
  <1>a. PICK hs : hs = handlers
    OBVIOUS
  <1>b. PICK ks : ks = handlers'
    OBVIOUS
  <1>c. PICK g : g = guard'
    OBVIOUS
  <1>s. PICK s : s = Swept
    OBVIOUS
  <1>1. Counts(guard, now, hs) /\ Bounded(hs) /\ Forms(runtime, hs)
    BY <1>a DEF RouteInv, Forms
  <1>2. Counts(s, now, hs) /\ Clean(s, now)
    BY <1>1, <1>a, <1>s, SweptCounts DEF Clean, Day
  <1>3. now \in Nat /\ s \in Guards
    BY <1>2 DEF Counts
  <1>4. hs[r] = NotArrived
    BY <1>a DEF Arrive
  <1>5. CASE Acquire(a) /\ Become(r, Admitted(a, mode))
    <2>h. PICK h : h = Admitted(a, mode)
      OBVIOUS
    <2>1. /\ ks = [q \in Requests |-> ks[q]] /\ ks[r] = h
          /\ \A q \in Requests \ {r} : ks[q] = hs[q]
      BY <1>5, <1>a, <1>b, <2>h, Updated DEF Become, RouteInv
    <2>2. /\ h.pc = "body" /\ h.address = a /\ h.at = now /\ HandlerForm(h) /\ ~Reports(h)
      BY <2>h DEF Admitted, HandlerForm, Fields, Reports
    <2>3. Granted(s, g, now, hs, ks, r, a)
      <3>1. /\ s.clients[a].count < ClientLimit /\ s.daily < DailyLimit
            /\ s.active < ConcurrentLimit
        BY <1>5, <1>s DEF Acquire, PermitAllowed
      <3>2. g = [s EXCEPT !.clients[a] = [start |-> IF @.count = 0 THEN now ELSE @.start,
                                          count |-> @.count + 1],
                          !.daily = @ + 1, !.active = @ + 1]
        BY <1>5, <1>s, <1>c DEF Acquire
      <3>3. /\ r \notin Came(hs) /\ r \notin AtWork(hs)
            /\ Came(ks) = Came(hs) \cup {r} /\ AtWork(ks) = AtWork(hs) \cup {r}
            /\ \A q \in Came(hs) : ks[q] = hs[q]
        BY <1>4, <2>1, <2>2, ArrivalSets
      <3>4. \A q \in Came(hs) : ks[q].at = hs[q].at /\ ks[q].address = hs[q].address
        BY <3>3
      <3> QED
        BY <3>1, <3>2, <3>3, <3>4, <2>1, <2>2 DEF Granted
    <2>4. Counts(g, now, ks) /\ Bounded(ks)
      BY <1>1, <1>2, <2>3, GrantedCounts
    <2>5. Forms(runtime, ks)
      BY <1>1, <2>1, <2>2, UpdatedForms
    <2> QED
      BY <1>b, <1>c, <2>1, <2>4, <2>5 DEF RouteInv, Forms, Arrive
  <1>6. CASE Refuse(a) /\ Become(r, [pc |-> "refused"])
    <2>1. /\ ks = [q \in Requests |-> ks[q]] /\ ks[r] = [pc |-> "refused"]
          /\ \A q \in Requests \ {r} : ks[q] = hs[q]
      BY <1>6, <1>a, <1>b, Updated DEF Become, RouteInv
    <2>2. Unmoved(hs, ks) /\ AtWork(ks) = AtWork(hs)
      <3>1. ks[r].pc = "refused"
        BY <2>1
      <3> QED
        BY <3>1, <1>4, <2>1, ArrivalSets
    <2>3. g = s
      BY <1>6, <1>c, <1>s DEF Refuse
    <2>4. Counts(s, now, ks)
      <3>1. s.active = Cardinality(AtWork(ks)) /\ s.active <= ConcurrentLimit /\ now <= now
        BY <1>2, <1>3, <2>2 DEF Counts
      <3> QED
        BY <3>1, <1>2, <1>3, <2>2, UnmovedCounts
    <2>5. Bounded(ks)
      BY <1>1, <2>2, UnmovedBounded
    <2>6. Forms(runtime, ks)
      BY <1>1, <2>1, UpdatedForms DEF HandlerForm, Reports
    <2> QED
      BY <1>b, <1>c, <2>1, <2>3, <2>4, <2>5, <2>6 DEF RouteInv, Forms, Arrive
  <1> QED
    BY <1>5, <1>6 DEF Arrive

\* A handler with a permit has all its fields.
LEMMA AdmittedForm ==
  ASSUME NEW h, HandlerForm(h), h.pc \in {"body", "observing", "verifying"}
  PROVE  /\ DOMAIN h = Fields
         /\ h.primary = NoAnswer \/ h.primary \in Primaries \/ h.primary \in Failures
         /\ h.scout = NoAnswer \/ h.scout = Off \/ h.scout \in Scouts \/ h.scout \in Failures
         /\ h.pc = "verifying" => h.primary \in Primaries /\ h.scout # NoAnswer
         /\ h.plus = NoAnswer
  BY DEF HandlerForm, NotArrived

\* A handler that is done with this outcome.
LEMMA Finishes ==
  ASSUME RouteInv, NEW r \in Requests, NEW g, DOMAIN g = Fields, NEW outcome,
         Follows(handlers[r], g), Finish(r, g, outcome), UNCHANGED <<now, load, runtime>>,
         g.primary = NoAnswer \/ g.primary \in Primaries \/ g.primary \in Failures,
         g.scout = NoAnswer \/ g.scout = Off \/ g.scout \in Scouts \/ g.scout \in Failures,
         NEW h, h = [g EXCEPT !.pc = "done", !.outcome = outcome],
         outcome.kind = "report" => ReportHolds(runtime, h)
  PROVE  RouteInv'
  <1>1. /\ DOMAIN h = Fields /\ h.pc = "done" /\ h.outcome = outcome
        /\ h.address = g.address /\ h.at = g.at /\ h.primary = g.primary /\ h.scout = g.scout
    BY DEF Fields
  <1>2. Become(r, h) /\ Release
    BY DEF Finish
  <1> HIDE DEF Fields
  <1>3. Follows(handlers[r], h)
    BY <1>1 DEF Follows
  <1>4. HandlerForm(h)
    BY <1>1 DEF HandlerForm
  <1>5. Reports(h) => ReportHolds(runtime, h)
    BY <1>1 DEF Reports
  <1> QED
    BY <1>1, <1>2, <1>3, <1>4, <1>5, Ends

--------------------------------------------------------------------------------
(* The steps of a handler.                                                  *)

LEMMA HandlerIsFormed ==
  ASSUME RouteInv, NEW r \in Requests,
         handlers[r].pc \in {"body", "observing", "verifying"}
  PROVE  /\ HandlerForm(handlers[r]) /\ DOMAIN handlers[r] = Fields
         /\ handlers[r].plus = NoAnswer
  BY AdmittedForm DEF RouteInv

LEMMA BodyAcceptedHolds ==
  ASSUME RouteInv, NEW r \in Requests, BodyAccepted(r)
  PROVE  RouteInv'
  <1>g. PICK g : g = handlers[r]
    OBVIOUS
  <1>s. PICK s : s = IF runtime.scout /\ g.mode # "inventory" THEN NoAnswer ELSE Off
    OBVIOUS
  <1>h. PICK h : h = [g EXCEPT !.pc = "observing", !.scout = s]
    OBVIOUS
  <1>1. g.pc = "body" /\ Become(r, h) /\ UNCHANGED <<now, guard, load, runtime>>
    BY <1>g, <1>s, <1>h DEF BodyAccepted
  <1>2. DOMAIN g = Fields /\ HandlerForm(g) /\ g.plus = NoAnswer
    BY <1>1, <1>g, HandlerIsFormed
  <1>3. g.primary = NoAnswer \/ g.primary \in Primaries \/ g.primary \in Failures
    BY <1>1, <1>2, AdmittedForm
  <1>4. /\ DOMAIN h = Fields /\ h.pc = "observing" /\ h.scout = s /\ h.primary = g.primary
        /\ h.plus = g.plus /\ h.address = g.address /\ h.at = g.at
    BY <1>h, <1>2 DEF Fields
  <1>5. HandlerForm(h)
    BY <1>2, <1>3, <1>4, <1>s DEF HandlerForm
  <1>6. Follows(handlers[r], h)
    BY <1>1, <1>4, <1>g DEF Follows
  <1> QED
    BY <1>1, <1>4, <1>5, <1>6, GoesOn

LEMMA BodyRefusedHolds ==
  ASSUME RouteInv, NEW r \in Requests, BodyRefused(r)
  PROVE  RouteInv'
  <1>g. PICK g : g = handlers[r]
    OBVIOUS
  <1>h. PICK h : h = [g EXCEPT !.pc = "done", !.outcome = Failed]
    OBVIOUS
  <1>1. g.pc = "body" /\ Finish(r, g, Failed) /\ UNCHANGED <<now, load, runtime>>
    BY <1>g DEF BodyRefused
  <1>2. DOMAIN g = Fields /\ HandlerForm(g)
    BY <1>1, <1>g, HandlerIsFormed
  <1>3. /\ g.primary = NoAnswer \/ g.primary \in Primaries \/ g.primary \in Failures
        /\ g.scout = NoAnswer \/ g.scout = Off \/ g.scout \in Scouts \/ g.scout \in Failures
    BY <1>1, <1>2, AdmittedForm
  <1>4. Follows(handlers[r], g)
    BY <1>1, <1>g DEF Follows
  <1>5. Failed.kind # "report"
    BY DEF Failed
  <1> QED
    BY <1>h, <1>1, <1>2, <1>3, <1>4, <1>5, Finishes

LEMMA LoadAnswers ==
  ASSUME RouteInv
  PROVE  /\ load.requests \subseteq Requests /\ load.callers \subseteq Addresses
         /\ \A a \in load.primaries : a \in Primaries \/ a \in Failures
         /\ \A a \in load.scouts : a \in Scouts \/ a \in Failures
         /\ \A a \in load.batches : BatchForm(a)
  BY LoadAssumption DEF LoadAssumption, RouteInv, BatchForm

LEMMA PrimaryAnswersHolds ==
  ASSUME RouteInv, NEW r \in Requests, NEW a, a \in load.primaries, PrimaryAnswers(r, a)
  PROVE  RouteInv'
  <1>g. PICK g : g = handlers[r]
    OBVIOUS
  <1>h. PICK h : h = [g EXCEPT !.primary = a]
    OBVIOUS
  <1>1. g.pc = "observing" /\ Become(r, h) /\ UNCHANGED <<now, guard, load, runtime>>
    BY <1>g, <1>h DEF PrimaryAnswers
  <1>2. DOMAIN g = Fields /\ HandlerForm(g) /\ g.plus = NoAnswer
    BY <1>1, <1>g, HandlerIsFormed
  <1>3. g.scout = NoAnswer \/ g.scout = Off \/ g.scout \in Scouts \/ g.scout \in Failures
    BY <1>1, <1>2, AdmittedForm
  <1>4. /\ DOMAIN h = Fields /\ h.pc = "observing" /\ h.scout = g.scout /\ h.primary = a
        /\ h.plus = g.plus /\ h.address = g.address /\ h.at = g.at
    BY <1>h, <1>1, <1>2 DEF Fields
  <1>5. a \in Primaries \/ a \in Failures
    BY LoadAnswers
  <1>6. HandlerForm(h)
    BY <1>2, <1>3, <1>4, <1>5 DEF HandlerForm
  <1>7. Follows(handlers[r], h)
    BY <1>1, <1>4, <1>g DEF Follows
  <1> QED
    BY <1>1, <1>4, <1>6, <1>7, GoesOn

LEMMA ScoutAnswersHolds ==
  ASSUME RouteInv, NEW r \in Requests, NEW a, a \in load.scouts, ScoutAnswers(r, a)
  PROVE  RouteInv'
  <1>g. PICK g : g = handlers[r]
    OBVIOUS
  <1>h. PICK h : h = [g EXCEPT !.scout = a]
    OBVIOUS
  <1>1. g.pc = "observing" /\ Become(r, h) /\ UNCHANGED <<now, guard, load, runtime>>
    BY <1>g, <1>h DEF ScoutAnswers
  <1>2. DOMAIN g = Fields /\ HandlerForm(g) /\ g.plus = NoAnswer
    BY <1>1, <1>g, HandlerIsFormed
  <1>3. g.primary = NoAnswer \/ g.primary \in Primaries \/ g.primary \in Failures
    BY <1>1, <1>2, AdmittedForm
  <1>4. /\ DOMAIN h = Fields /\ h.pc = "observing" /\ h.scout = a /\ h.primary = g.primary
        /\ h.plus = g.plus /\ h.address = g.address /\ h.at = g.at
    BY <1>h, <1>1, <1>2 DEF Fields
  <1>5. a \in Scouts \/ a \in Failures
    BY LoadAnswers
  <1>6. HandlerForm(h)
    BY <1>2, <1>3, <1>4, <1>5 DEF HandlerForm
  <1>7. Follows(handlers[r], h)
    BY <1>1, <1>4, <1>g DEF Follows
  <1> QED
    BY <1>1, <1>4, <1>6, <1>7, GoesOn

\* A report made by a handler g whose observers answered is one in its record.
LEMMA ReportedHolds ==
  ASSUME NEW g, DOMAIN g = Fields, NEW v, NEW h,
         h.outcome = Reported(g, Analysis(g), v), \A f \in Fields \ {"pc", "outcome"} : h[f] = g[f]
  PROVE  /\ ReportFrom(runtime, h, v) /\ Found(runtime, h) = Found(runtime, g)
         /\ h.primary = g.primary /\ h.scout = g.scout /\ h.fast = g.fast /\ h.plus = g.plus
         /\ Found(runtime, g) = Analysis(g)
  <1>1. /\ h.mode = g.mode
        /\ h.primary = g.primary /\ h.scout = g.scout /\ h.fast = g.fast /\ h.plus = g.plus
    BY DEF Fields
  <1>2. Found(runtime, h) = Found(runtime, g) /\ Found(runtime, g) = Analysis(g)
    BY <1>1 DEF Found, Analysis
  <1>3. h.outcome.report = Report(Analysis(g), v, g.mode)
    BY DEF Reported
  <1> QED
    BY <1>1, <1>2, <1>3 DEF ReportFrom

LEMMA ObserveHolds ==
  ASSUME RouteInv, NEW r \in Requests, Observe(r)
  PROVE  RouteInv'
  <1>g. PICK g : g = handlers[r]
    OBVIOUS
  <1>1. /\ g.pc = "observing" /\ g.primary # NoAnswer /\ g.scout # NoAnswer
        /\ UNCHANGED <<now, load, runtime>>
    BY <1>g DEF Observe
  <1>2. DOMAIN g = Fields /\ HandlerForm(g) /\ g.plus = NoAnswer
    BY <1>1, <1>g, HandlerIsFormed
  <1>3. /\ g.primary \in Primaries \/ g.primary \in Failures
        /\ g.scout = Off \/ g.scout \in Scouts \/ g.scout \in Failures
    BY <1>1, <1>2, AdmittedForm
  <1>4. Follows(handlers[r], g)
    BY <1>1, <1>g DEF Follows
  <1>5. CASE g.primary.kind # "analysis"
    <2>1. Finish(r, g, Failed)
      BY <1>5, <1>g DEF Observe
    <2>h. PICK h : h = [g EXCEPT !.pc = "done", !.outcome = Failed]
      OBVIOUS
    <2>2. Failed.kind # "report"
      BY DEF Failed
    <2> QED
      BY <2>1, <2>h, <2>2, <1>1, <1>2, <1>3, <1>4, Finishes
  <1>6. CASE g.primary.kind = "analysis" /\ Become(r, [g EXCEPT !.pc = "verifying"])
               /\ UNCHANGED guard
    <2>h. PICK h : h = [g EXCEPT !.pc = "verifying"]
      OBVIOUS
    <2>1. /\ DOMAIN h = Fields /\ h.pc = "verifying" /\ h.scout = g.scout
          /\ h.primary = g.primary /\ h.plus = g.plus /\ h.address = g.address /\ h.at = g.at
      BY <2>h, <1>2 DEF Fields
    <2>2. g.primary \in Primaries
      BY <1>3, <1>6 DEF Failures
    <2>3. HandlerForm(h)
      BY <2>1, <2>2, <1>1, <1>2, <1>3 DEF HandlerForm
    <2>4. Follows(handlers[r], h)
      BY <2>1, <1>1, <1>g DEF Follows
    <2> QED
      BY <2>h, <2>1, <2>3, <2>4, <1>1, <1>6, GoesOn
  <1>7. CASE g.primary.kind = "analysis" /\ Finish(r, g, Reported(g, Analysis(g), Unverified))
    <2>o. PICK o : o = Reported(g, Analysis(g), Unverified)
      OBVIOUS
    <2>h. PICK h : h = [g EXCEPT !.pc = "done", !.outcome = o]
      OBVIOUS
    <2>1. ReportFrom(runtime, h, Unverified) /\ h.primary = g.primary /\ h.scout = g.scout
      <3>1. h.outcome = o /\ \A f \in Fields \ {"pc", "outcome"} : h[f] = g[f]
        BY <2>h, <1>2 DEF Fields
      <3> QED
        BY <3>1, <2>o, <1>2, ReportedHolds
    <2>2. g.primary \in Primaries
      BY <1>3, <1>7 DEF Failures
    <2>3. ReportHolds(runtime, h)
      BY <2>1, <2>2, <1>1 DEF ReportHolds
    <2> QED
      BY <2>o, <2>h, <2>3, <1>1, <1>2, <1>3, <1>4, <1>7, Finishes
  <1> QED
    BY <1>5, <1>6, <1>7, <1>g DEF Observe

LEMMA FastAnswersHolds ==
  ASSUME RouteInv, NEW r \in Requests, NEW a, a \in load.batches, FastAnswers(r, a)
  PROVE  RouteInv'
  <1>e. PICK e : e = handlers[r]
    OBVIOUS
  <1>g. PICK g : g = [e EXCEPT !.fast = a]
    OBVIOUS
  <1>1. /\ e.pc = "verifying" /\ UNCHANGED <<now, load, runtime>>
        /\ IF FastSuffices(g) THEN Finish(r, g, Reported(g, Analysis(g), a.says))
           ELSE Become(r, g) /\ UNCHANGED guard
    BY <1>e, <1>g DEF FastAnswers
  <1>2. DOMAIN e = Fields /\ HandlerForm(e) /\ e.plus = NoAnswer
    BY <1>1, <1>e, HandlerIsFormed
  <1>3. /\ e.primary \in Primaries
        /\ e.scout = Off \/ e.scout \in Scouts \/ e.scout \in Failures
        /\ e.scout # NoAnswer
    BY <1>1, <1>2, AdmittedForm
  <1>4. /\ DOMAIN g = Fields /\ g.pc = "verifying" /\ g.fast = a /\ g.scout = e.scout
        /\ g.primary = e.primary /\ g.plus = e.plus /\ g.address = e.address /\ g.at = e.at
    BY <1>g, <1>1, <1>2 DEF Fields
  <1>5. Follows(handlers[r], g)
    BY <1>1, <1>4, <1>e DEF Follows
  <1>6. CASE FastSuffices(g)
    <2>o. PICK o : o = Reported(g, Analysis(g), a.says)
      OBVIOUS
    <2>h. PICK h : h = [g EXCEPT !.pc = "done", !.outcome = o]
      OBVIOUS
    <2>1. /\ ReportFrom(runtime, h, a.says) /\ Found(runtime, h) = Found(runtime, g)
          /\ h.primary = g.primary /\ h.scout = g.scout /\ h.fast = g.fast /\ h.plus = g.plus
          /\ Found(runtime, g) = Analysis(g)
      <3>1. h.outcome = o /\ \A f \in Fields \ {"pc", "outcome"} : h[f] = g[f]
        BY <2>h, <1>4 DEF Fields
      <3> QED
        BY <3>1, <2>o, <1>4, ReportedHolds
    <2>2. FastDecides(Candidates(Found(runtime, h)), h.fast)
      BY <2>1, <1>6 DEF FastSuffices
    <2>3. BatchForm(a)
      BY LoadAnswers
    <2>4. ReportHolds(runtime, h)
      BY <2>1, <2>2, <2>3, <1>2, <1>3, <1>4 DEF ReportHolds
    <2>5. Finish(r, g, o)
      BY <2>o, <1>1, <1>6
    <2> QED
      BY <2>h, <2>4, <2>5, <1>1, <1>3, <1>4, <1>5, Finishes
  <1>7. CASE Become(r, g) /\ UNCHANGED guard
    <2>1. HandlerForm(g)
      BY <1>2, <1>3, <1>4 DEF HandlerForm
    <2> QED
      BY <2>1, <1>1, <1>4, <1>5, <1>7, GoesOn
  <1> QED
    BY <1>1, <1>6, <1>7

LEMMA PlusAnswersHolds ==
  ASSUME RouteInv, NEW r \in Requests, NEW a, a \in load.batches, PlusAnswers(r, a)
  PROVE  RouteInv'
  <1>e. PICK e : e = handlers[r]
    OBVIOUS
  <1>g. PICK g : g = [e EXCEPT !.plus = a]
    OBVIOUS
  <1>v. PICK v : v = Verified(runtime.provider, Candidates(Analysis(g)), a)
    OBVIOUS
  <1>1. /\ e.pc = "verifying" /\ UNCHANGED <<now, load, runtime>>
        /\ Finish(r, g, Failed) \/ Finish(r, g, Reported(g, Analysis(g), v))
    BY <1>e, <1>g, <1>v DEF PlusAnswers
  <1>2. DOMAIN e = Fields /\ HandlerForm(e)
    BY <1>1, <1>e, HandlerIsFormed
  <1>3. /\ e.primary \in Primaries
        /\ e.scout = Off \/ e.scout \in Scouts \/ e.scout \in Failures
        /\ e.scout # NoAnswer
    BY <1>1, <1>2, AdmittedForm
  <1>4. /\ DOMAIN g = Fields /\ g.pc = "verifying" /\ g.plus = a /\ g.scout = e.scout
        /\ g.primary = e.primary /\ g.address = e.address /\ g.at = e.at
    BY <1>g, <1>1, <1>2 DEF Fields
  <1>5. Follows(handlers[r], g)
    BY <1>1, <1>4, <1>e DEF Follows
  <1>6. CASE Finish(r, g, Failed)
    <2>h. PICK h : h = [g EXCEPT !.pc = "done", !.outcome = Failed]
      OBVIOUS
    <2>1. Failed.kind # "report"
      BY DEF Failed
    <2> QED
      BY <2>h, <2>1, <1>1, <1>3, <1>4, <1>5, <1>6, Finishes
  <1>7. CASE Finish(r, g, Reported(g, Analysis(g), v))
    <2>o. PICK o : o = Reported(g, Analysis(g), v)
      OBVIOUS
    <2>h. PICK h : h = [g EXCEPT !.pc = "done", !.outcome = o]
      OBVIOUS
    <2>1. /\ ReportFrom(runtime, h, v) /\ Found(runtime, h) = Found(runtime, g)
          /\ h.primary = g.primary /\ h.scout = g.scout /\ h.plus = g.plus
          /\ Found(runtime, g) = Analysis(g)
      <3>1. h.outcome = o /\ \A f \in Fields \ {"pc", "outcome"} : h[f] = g[f]
        BY <2>h, <1>4 DEF Fields
      <3> QED
        BY <3>1, <2>o, <1>4, ReportedHolds
    <2>2. BatchForm(a)
      BY LoadAnswers
    <2>3. v = Verified(runtime.provider, Candidates(Found(runtime, h)), h.plus)
      BY <2>1, <1>4, <1>v
    <2>4. ReportHolds(runtime, h)
      BY <2>1, <2>2, <2>3, <1>3, <1>4 DEF ReportHolds
    <2>5. Finish(r, g, o)
      BY <2>o, <1>7
    <2> QED
      BY <2>h, <2>4, <2>5, <1>1, <1>3, <1>4, <1>5, Finishes
  <1> QED
    BY <1>1, <1>6, <1>7

--------------------------------------------------------------------------------
(* The invariant.                                                           *)

LEMMA InitHolds == Init => RouteInv
  <1> SUFFICES ASSUME Init PROVE RouteInv
    OBVIOUS
  <1> USE GuardAssumption DEF GuardAssumption
  <1>h. PICK hs : hs = handlers
    OBVIOUS
  <1>1. load \in Loads /\ hs = [r \in Requests |-> NotArrived] /\ now = 0
    BY <1>h DEF Init, GuardInit
  <1>2. hs = [r \in Requests |-> hs[r]] /\ \A r \in Requests : hs[r] = NotArrived
    BY <1>1
  <1>3. Came(hs) = {} /\ AtWork(hs) = {} /\ \A a : From(hs, a) = {}
    BY <1>2 DEF Came, AtWork, From, NotArrived
  <1>4. \A r \in Requests : HandlerForm(hs[r]) /\ ~Reports(hs[r])
    BY <1>2 DEF HandlerForm, Reports, NotArrived
  <1>5. /\ \A d : OnDay(hs, d) = {}
        /\ \A a, x : Since(From(hs, a), hs, x) = {}
        /\ \A a, x, y : Within(From(hs, a), hs, x, y) = {}
    BY <1>3 DEF OnDay, Since, Within
  <1>6. Cardinality({}) = 0
    BY FS_EmptySet
  <1>7. NoWindow \in Windows /\ NoWindow.count = 0
    BY DEF NoWindow, Windows
  <1>8. guard \in Guards /\ guard = [day |-> 0, daily |-> 0, active |-> 0, clients |-> NoClients]
    BY <1>7 DEF Init, GuardInit, Guards, NoClients
  <1>9. \A a \in Addresses : guard.clients[a] = NoWindow
    BY <1>8 DEF NoClients
  <1>10. ASSUME NEW a \in Addresses
         PROVE  WindowHolds(From(hs, a), hs, guard.day * DayLength, guard.clients[a], now)
    <2>1. Idle(From(hs, a), hs, guard.day * DayLength, now)
      <3>1. \A x : Cardinality(Since(From(hs, a), hs, x)) = 0
        BY <1>5, <1>6
      <3>2. 0 <= ClientLimit - 1
        OBVIOUS
      <3> QED
        BY <1>5, <3>1, <3>2 DEF Idle
    <2> QED
      BY <2>1, <1>7, <1>9 DEF WindowHolds
  <1>11. guard.day <= now \div DayLength
    BY <1>1, <1>8, DayOf
  <1>12. Counts(guard, now, hs)
    <2>1. Cardinality(AtWork(hs)) = 0 /\ Cardinality(OnDay(hs, guard.day)) = 0
      BY <1>3, <1>5, <1>6
    <2>2. guard.active = 0 /\ guard.daily = 0 /\ 0 <= ConcurrentLimit /\ now \in Nat
      BY <1>1, <1>8
    <2> QED
      BY <2>1, <2>2, <1>3, <1>8, <1>10, <1>11 DEF Counts
  <1>13. Bounded(hs)
    <2>1. /\ \A d : Cardinality(OnDay(hs, d)) = 0
          /\ \A a, x, y : Cardinality(Within(From(hs, a), hs, x, y)) = 0
      BY <1>5, <1>6
    <2>2. 0 <= DailyLimit /\ 0 <= ClientLimit /\ 0 <= 2 * ClientLimit - 1
      OBVIOUS
    <2>3. \A a, d : DayHolds(From(hs, a), hs, d)
      BY <2>1, <2>2 DEF DayHolds
    <2> QED
      BY <2>1, <2>2, <2>3 DEF Bounded
  <1> QED
    BY <1>h, <1>1, <1>2, <1>4, <1>12, <1>13 DEF RouteInv

LEMMA NextHolds == RouteInv /\ [Next]_vars => RouteInv'
  <1> SUFFICES ASSUME RouteInv, [Next]_vars PROVE RouteInv'
    OBVIOUS
  <1>0. load.requests \subseteq Requests /\ load.callers \subseteq Addresses
    BY LoadAnswers
  <1>1. CASE \E r \in Requests, a \in load.callers, mode \in load.modes :
               NextRequest(r) /\ Arrive(r, a, mode)
    BY <1>0, <1>1, ArriveHolds
  <1>2. ASSUME NEW r \in load.requests, ReadBody(r) \/ Work(r) PROVE RouteInv'
    <2>0. r \in Requests
      BY <1>0
    <2>1. CASE ReadBody(r)
      BY <2>0, <2>1, BodyAcceptedHolds, BodyRefusedHolds DEF ReadBody
    <2>2. CASE Observe(r)
      BY <2>0, <2>2, ObserveHolds
    <2>3. ASSUME NEW a \in load.primaries, PrimaryAnswers(r, a) PROVE RouteInv'
      BY <2>0, <2>3, PrimaryAnswersHolds
    <2>4. ASSUME NEW a \in load.scouts, ScoutAnswers(r, a) PROVE RouteInv'
      BY <2>0, <2>4, ScoutAnswersHolds
    <2>5. ASSUME NEW a \in load.batches, FastAnswers(r, a) PROVE RouteInv'
      BY <2>0, <2>5, FastAnswersHolds
    <2>6. ASSUME NEW a \in load.batches, PlusAnswers(r, a) PROVE RouteInv'
      BY <2>0, <2>6, PlusAnswersHolds
    <2> QED
      BY <1>2, <2>1, <2>2, <2>3, <2>4, <2>5, <2>6 DEF Work
  <1>3. CASE Tick
    BY <1>3, TickHolds
  <1>4. CASE UNCHANGED vars
    BY <1>4 DEF RouteInv, vars
  <1> QED
    BY <1>1, <1>2, <1>3, <1>4 DEF Next

\* What the guard counts is what the handlers did, and every report is made of the
\* answers its handler kept.
THEOREM RouteInvariant == Spec => []RouteInv
  BY InitHolds, NextHolds, PTL DEF Spec

--------------------------------------------------------------------------------
(* The bounds on the requests.                                              *)

\* In a stretch of a window's length a client gets at most a limit after midnight, and
\* less than two before.
LEMMA StretchIsBounded ==
  ASSUME NEW A, NEW hs, Timed(A, hs), \A d \in Nat : DayHolds(A, hs, d), NEW x \in Nat
  PROVE  Cardinality(Within(A, hs, x, x + WindowLength - 1)) < 3 * ClientLimit
  <1> USE GuardAssumption DEF GuardAssumption
  <1>d. PICK d \in Nat : d * DayLength <= x /\ x < (d + 1) * DayLength
    BY DayOf
  <1>m. PICK m : m = (d + 1) * DayLength
    OBVIOUS
  <1>y. PICK y : y = x + WindowLength - 1
    OBVIOUS
  <1>1. /\ m \in Nat /\ y \in Nat /\ x < m /\ x <= y /\ y < x + WindowLength
        /\ d + 1 \in Nat
    BY <1>d, <1>m, <1>y, DayEnds
  <1>2. ASSUME NEW u \in Nat, NEW v \in Nat, d * DayLength <= u, v < m, v < u + WindowLength
        PROVE  Cardinality(Within(A, hs, u, v)) <= 2 * ClientLimit - 1
    BY <1>2, <1>m DEF DayHolds
  <1>3. CASE y < m
    <2>1. Cardinality(Within(A, hs, x, y)) <= 2 * ClientLimit - 1
      BY <1>1, <1>2, <1>3, <1>d
    <2>2. Cardinality(Within(A, hs, x, y)) \in Nat
      BY CountWithin
    <2> QED
      BY <2>1, <2>2, <1>y
  <1>4. CASE m <= y
    <2>n. PICK n : n = m + WindowLength - 1
      OBVIOUS
    <2>1. Within(A, hs, x, y) \subseteq Within(A, hs, x, m - 1) \cup Within(A, hs, m, n)
      BY <1>1, <2>n DEF Within, Timed
    <2>2. m - 1 \in Nat /\ m - 1 < m /\ m - 1 < x + WindowLength
      BY <1>1, <1>4
    <2>3. Cardinality(Within(A, hs, x, m - 1)) <= 2 * ClientLimit - 1
      BY <1>1, <1>2, <2>2, <1>d
    <2>4. Cardinality(Within(A, hs, m, n)) <= ClientLimit
      BY <1>1, <1>m, <2>n DEF DayHolds
    <2>5. Cardinality(Within(A, hs, x, y)) <=
            Cardinality(Within(A, hs, x, m - 1)) + Cardinality(Within(A, hs, m, n))
      BY <2>1, CountWithin, CountUnion
    <2>6. /\ Cardinality(Within(A, hs, x, y)) \in Nat
          /\ Cardinality(Within(A, hs, x, m - 1)) \in Nat
          /\ Cardinality(Within(A, hs, m, n)) \in Nat
      BY CountWithin
    <2> QED
      BY <2>3, <2>4, <2>5, <2>6, <1>y
  <1> QED
    BY <1>1, <1>3, <1>4

\* The invariant bounds the requests as the property says.
LEMMA InvBoundsRequests == RouteInv => RequestsAreBounded
  <1> SUFFICES ASSUME RouteInv PROVE RequestsAreBounded
    OBVIOUS
  <1>h. PICK hs : hs = handlers
    OBVIOUS
  <1>1. Counts(guard, now, hs) /\ Bounded(hs)
    BY <1>h DEF RouteInv
  <1>2. Holders = AtWork(hs)
    BY <1>h DEF Holders, Holding, AtWork
  <1>3. \A a, x, y : AdmittedBetween(a, x, y) = Within(From(hs, a), hs, x, y)
    BY <1>h DEF AdmittedBetween, Within, From, Came
  <1>4. guard.active = Cardinality(Holders) /\ guard.active <= ConcurrentLimit
    BY <1>1, <1>2 DEF Counts
  <1>5. ASSUME NEW d \in 0..(LastTime \div DayLength)
        PROVE  Cardinality(UNION {AdmittedBetween(a, d * DayLength, (d + 1) * DayLength - 1)
                                    : a \in Addresses}) <= DailyLimit
    <2>x. PICK x : x = d * DayLength
      OBVIOUS
    <2>y. PICK y : y = (d + 1) * DayLength - 1
      OBVIOUS
    <2>1. UNION {AdmittedBetween(a, x, y) : a \in Addresses} \subseteq Within(Came(hs), hs, x, y)
      BY <1>3 DEF Within, From
    <2>2. d \in Nat
      BY LoadAssumption, GuardAssumption DEF LoadAssumption, GuardAssumption
    <2>3. Cardinality(Within(Came(hs), hs, x, y)) <= DailyLimit
      BY <1>1, <2>2, <2>x, <2>y DEF Bounded, OnDay
    <2>4. IsFiniteSet(Within(Came(hs), hs, x, y))
      BY <1>1, CameTimed, CountWithin
    <2>5. PICK S : S = UNION {AdmittedBetween(a, x, y) : a \in Addresses}
      OBVIOUS
    <2>6. /\ Cardinality(S) <= Cardinality(Within(Came(hs), hs, x, y))
          /\ Cardinality(S) \in Nat /\ Cardinality(Within(Came(hs), hs, x, y)) \in Nat
      BY <2>1, <2>4, <2>5, CountLess
    <2>7. DailyLimit \in Nat
      BY GuardAssumption DEF GuardAssumption
    <2>8. Cardinality(S) <= DailyLimit
      BY <2>3, <2>6, <2>7
    <2> QED
      BY <2>5, <2>8, <2>x, <2>y
  <1>6. ASSUME NEW a \in Addresses, NEW x \in 0..LastTime
        PROVE  Cardinality(AdmittedBetween(a, x, x + WindowLength - 1)) < 3 * ClientLimit
    <2>1. Timed(From(hs, a), hs) /\ \A d \in Nat : DayHolds(From(hs, a), hs, d)
      BY <1>1, CameTimed DEF Bounded
    <2>2. x \in Nat
      BY LoadAssumption DEF LoadAssumption
    <2>3. Cardinality(Within(From(hs, a), hs, x, x + WindowLength - 1)) < 3 * ClientLimit
      BY <2>1, <2>2, StretchIsBounded
    <2> QED
      BY <2>3, <1>3
  <1> QED
    BY <1>4, <1>5, <1>6 DEF RequestsAreBounded

\* The guard's active count is the number of handlers at work and never above its
\* limit, no day admits more than the daily limit, and in no stretch of a window's
\* length does a client get three of its limits: for every number of clients and
\* requests, and every length of window and day.
THEOREM RequestsBounded == Spec => []RequestsAreBounded
  BY RouteInvariant, InvBoundsRequests, PTL

--------------------------------------------------------------------------------
(* The reports.                                                             *)

\* A report is built from a form of each answer and from some verifier's verdicts.
LEMMA DeliveredHolds ==
  ASSUME RouteInv, NEW r \in Requests, Delivered(r)
  PROVE  /\ ReportHolds(runtime, handlers[r]) /\ handlers[r].primary \in Primaries
         /\ \/ handlers[r].scout = Off \/ handlers[r].scout \in Scouts
            \/ handlers[r].scout \in Failures
         /\ Analysis(handlers[r]) = Found(runtime, handlers[r])
  <1>1. HandlerForm(handlers[r]) /\ ReportHolds(runtime, handlers[r])
    BY DEF RouteInv, Delivered, Reports
  <1>2. handlers[r].pc = "done"
    BY DEF Delivered
  <1>3. /\ handlers[r].scout # NoAnswer /\ handlers[r].primary \in Primaries
    BY <1>1 DEF ReportHolds
  <1>4. Analysis(handlers[r]) = Found(runtime, handlers[r])
    BY DEF Analysis, Found
  <1> QED
    BY <1>1, <1>2, <1>3, <1>4 DEF HandlerForm, NotArrived

LEMMA InvVerifiesMissing == RouteInv => MissingIsVerified
  <1> SUFFICES ASSUME RouteInv, NEW r \in Requests, Delivered(r), runtime.provider = "qwen",
                      NEW o \in Objects
               PROVE  LET h == handlers[r]
                          candidates == Candidates(Analysis(h))
                      IN /\ h.outcome.report.items[o] = "missing" =>
                              /\ RaisedBy(h, o)
                              /\ "missing" \in {Says(h.fast, candidates, o),
                                                Says(h.plus, candidates, o)}
                              /\ Says(h.plus, candidates, o) \in {"missing", "nothing"}
                         /\ o \in candidates /\ h.outcome.report.items[o] \in {"none", "misplaced"} =>
                              Says(h.plus, candidates, o) \in {"same", "elsewhere"}
    BY DEF MissingIsVerified
  <1>h. PICK h : h = handlers[r]
    OBVIOUS
  <1>f. PICK an : an = Found(runtime, h)
    OBVIOUS
  <1>c. PICK cs : cs = Candidates(an)
    OBVIOUS
  <1>1. /\ ReportHolds(runtime, h) /\ h.primary \in Primaries
        /\ h.scout = Off \/ h.scout \in Scouts \/ h.scout \in Failures
        /\ an = Analysis(h)
    BY <1>h, <1>f, DeliveredHolds
  <1>2. PICK v : /\ v \in [DOMAIN v -> Verdicts] /\ ReportFrom(runtime, h, v)
                 /\ \/ v = Unverified
                    \/ FastDecides(cs, h.fast) /\ v = h.fast.says /\ h.plus = NoAnswer
                    \/ /\ h.plus.kind = "batch" /\ v = h.plus.says
                       /\ BatchHolds(cs, h.plus, FALSE)
    BY <1>1, <1>f, <1>c, VerdictsHold
  <1>3. h.outcome.report.items[o] = Item(an, v, o)
    BY <1>2, <1>f, ReportItems DEF ReportFrom
  <1>4. /\ an.raised \in [Objects -> {"none", "missing", "vague", "moved"}]
        /\ an.raised[o] = "missing" => RaisedBy(h, o)
    BY <1>1, <1>f, FoundHolds
  <1>5. /\ Item(an, v, o) = "missing" =>
              an.raised[o] = "missing" /\ o \in DOMAIN v /\ v[o] = "missing"
        /\ Item(an, v, o) = "none" =>
              \/ an.raised[o] = "none"
              \/ an.raised[o] = "missing" /\ o \in DOMAIN v /\ v[o] = "same"
        /\ Item(an, v, o) = "misplaced" /\ an.raised[o] = "missing" =>
              o \in DOMAIN v /\ v[o] \in {"elsewhere", "unplaced"}
    BY <1>2, <1>4, ItemHolds
  <1>6. o \in cs <=> an.raised[o] = "missing"
    BY <1>c DEF Candidates
  <1>7. CASE v = Unverified
    <2>1. o \notin DOMAIN v
      BY <1>7 DEF Unverified
    <2>2. Item(an, v, o) # "missing" /\ (o \in cs => Item(an, v, o) \notin {"none", "misplaced"})
      BY <2>1, <1>5, <1>6
    <2> QED
      BY <2>2, <1>h, <1>1, <1>3, <1>c
  <1>8. CASE FastDecides(cs, h.fast) /\ v = h.fast.says /\ h.plus = NoAnswer
    <2>1. Says(h.plus, cs, o) = "nothing"
      BY <1>8 DEF Says, BatchHolds, NoAnswer
    <2>2. BatchHolds(cs, h.fast, FALSE) /\ \A c \in cs : v[c] = "missing"
      BY <1>8 DEF FastDecides, BatchHolds
    <2>3. Item(an, v, o) = "missing" => Says(h.fast, cs, o) = "missing" /\ RaisedBy(h, o)
      BY <2>2, <1>4, <1>5, <1>8 DEF Says
    <2>4. o \in cs => Item(an, v, o) \notin {"none", "misplaced"}
      BY <2>2, <1>5, <1>6
    <2> QED
      BY <2>1, <2>3, <2>4, <1>h, <1>1, <1>3, <1>c
  <1>9. CASE h.plus.kind = "batch" /\ v = h.plus.says /\ BatchHolds(cs, h.plus, FALSE)
    <2>1. o \in cs => v[o] # "unplaced"
      BY <1>9 DEF BatchHolds
    <2>2. Says(h.plus, cs, o) = v[o]
      BY <1>9 DEF Says
    <2>3. Item(an, v, o) = "missing" => v[o] = "missing" /\ RaisedBy(h, o)
      BY <1>4, <1>5
    <2>4. o \in cs /\ Item(an, v, o) \in {"none", "misplaced"} => v[o] \in {"same", "elsewhere"}
      BY <2>1, <1>5, <1>6
    <2> QED
      BY <2>2, <2>3, <2>4, <1>h, <1>1, <1>3, <1>c
  <1> QED
    BY <1>2, <1>7, <1>8, <1>9

LEMMA InvEarnsClear == RouteInv => ClearIsEarned
  <1> SUFFICES ASSUME RouteInv, NEW r \in Requests, Delivered(r),
                      handlers[r].outcome.report.status = "clear"
               PROVE  LET h == handlers[r]
                      IN /\ h.primary.whole /\ ~h.primary.blocking
                         /\ h.scout # Off => h.scout.kind = "scout" /\ h.scout.usable /\ ~h.scout.hidden
                         /\ \A o \in Objects : RaisedBy(h, o) =>
                              \/ h.plus.kind = "batch" /\ o \in DOMAIN h.plus.says
                                 /\ h.plus.says[o] = "same"
                              \/ h.mode = "inventory"
                                 /\ h.outcome.report.items[o] \in {"missing", "misplaced"}
    BY DEF ClearIsEarned
  <1>h. PICK h : h = handlers[r]
    OBVIOUS
  <1>f. PICK an : an = Found(runtime, h)
    OBVIOUS
  <1>1. /\ ReportHolds(runtime, h) /\ h.primary \in Primaries
        /\ h.scout = Off \/ h.scout \in Scouts \/ h.scout \in Failures
    BY <1>h, DeliveredHolds
  <1>2. PICK v : /\ v \in [DOMAIN v -> Verdicts] /\ ReportFrom(runtime, h, v)
                 /\ \/ v = Unverified
                    \/ FastDecides(Candidates(an), h.fast) /\ v = h.fast.says
                    \/ h.plus.kind = "batch" /\ v = h.plus.says
    BY <1>1, <1>f, VerdictsHold
  <1>3. Report(an, v, h.mode).status = "clear" /\ h.outcome.report = Report(an, v, h.mode)
    BY <1>2, <1>f, <1>h DEF ReportFrom
  <1>4. /\ an.whole /\ ~an.blocking
        /\ \A o \in Objects :
             /\ Item(an, v, o) # "unresolved"
             /\ h.mode # "inventory" => Item(an, v, o) \notin {"missing", "misplaced"}
    BY <1>3, ClearHolds
  <1>5. /\ an.raised \in [Objects -> {"none", "missing", "vague", "moved"}]
        /\ h.primary.whole /\ ~h.primary.blocking
        /\ h.scout # Off => h.scout.kind = "scout" /\ h.scout.usable /\ ~h.scout.hidden
        /\ \A o \in Objects : RaisedBy(h, o) => an.raised[o] # "none"
    BY <1>1, <1>4, <1>f, FoundHolds
  <1>6. ASSUME NEW o \in Objects, RaisedBy(h, o)
        PROVE  \/ h.plus.kind = "batch" /\ o \in DOMAIN h.plus.says /\ h.plus.says[o] = "same"
               \/ h.mode = "inventory"
                  /\ h.outcome.report.items[o] \in {"missing", "misplaced"}
    <2>1. h.outcome.report.items[o] = Item(an, v, o)
      BY <1>3, ReportItems
    <2>2. /\ Item(an, v, o) \in {"none", "missing", "misplaced", "unresolved"}
          /\ Item(an, v, o) = "none" =>
              \/ an.raised[o] = "none"
              \/ an.raised[o] = "missing" /\ o \in DOMAIN v /\ v[o] = "same"
      BY <1>2, <1>5, ItemHolds
    <2>3. an.raised[o] # "none" /\ Item(an, v, o) # "unresolved"
      BY <1>4, <1>5, <1>6
    <2>4. CASE Item(an, v, o) = "none"
      <3>1. an.raised[o] = "missing" /\ o \in DOMAIN v /\ v[o] = "same"
        BY <2>2, <2>3, <2>4
      <3>2. v # Unverified
        BY <3>1 DEF Unverified
      <3>3. ~(FastDecides(Candidates(an), h.fast) /\ v = h.fast.says)
        BY <3>1 DEF FastDecides, Candidates
      <3> QED
        BY <3>1, <3>2, <3>3, <1>2
    <2>5. CASE Item(an, v, o) \in {"missing", "misplaced"}
      BY <2>1, <2>5, <1>4
    <2> QED
      BY <2>2, <2>3, <2>4, <2>5
  <1> QED
    BY <1>5, <1>6, <1>h

\* For every set of objects and every answer in its form: with Qwen nothing is reported
\* missing, or passed over, that the verifiers did not settle for certain; and a clear
\* report means comparable photos, a usable scout where there is one, and a deciding
\* model that saw all that was raised in its place.
THEOREM ReportsEarned == Spec => []ReportsAreEarned
  <1>1. RouteInv => ReportsAreEarned
    BY InvVerifiesMissing, InvEarnsClear DEF ReportsAreEarned
  <1> QED
    BY <1>1, RouteInvariant, PTL
================================================================================
