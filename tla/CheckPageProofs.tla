---------------------------- MODULE CheckPageProofs ----------------------------
(***************************************************************************)
(* Theorems about CheckPage, for every number of tabs, areas, photos and   *)
(* records, and every order of the users' moves, the answers, the          *)
(* transactions, the cancellations and the reloads.                        *)
(***************************************************************************)
EXTENDS CheckPage, SequenceTheorems, TLAPS

--------------------------------------------------------------------------------
(* The inductive invariant.                                                 *)

Stages   == {"preparing", "sent", "withdrawn", "saving", "ensuring", "upgrading", "recording",
             "carrying"}
Versions == (1..2 * MaxPhotos) \cup {None}

\* What the database may hold.
StoreForm(st) ==
  /\ DOMAIN st = {"areas", "active", "base", "versions", "history"}
  /\ st.areas \subseteq Areas /\ st.active \in Areas \cup {None}
  /\ DOMAIN st.base = Areas
  /\ \A a \in Areas : PhotoOf(st, a) \in References
  /\ st.history \in [Areas -> Seq([photo : Photos, version : Versions])]
  /\ \A a \in Areas : st.base[a] # None => st.base[a].version \in Versions
  /\ \A a \in Areas : Len(st.history[a]) <= MaxHistory

\* What a page may be: away, or mounted with an area it lists.
Fields ==
  {"phase", "area", "listed", "reference", "busy", "latest", "held", "report", "intent",
   "opening", "opened", "selecting", "adding"}

Selection(s) ==
  DOMAIN s = {"area", "stored", "previous"} /\ s.area \in Areas /\ s.previous \in References
Opening(o)   == o.area \in o.listed /\ o.listed \subseteq Areas

MountedForm(q) ==
  /\ DOMAIN q = Fields
  /\ q.phase \in Viewfinder \cup {"loading", "analyzing", "result", "error"}
  /\ q.area \in q.listed /\ q.listed \subseteq Areas
  /\ q.reference \in References /\ q.report \in Photos \cup {None}
  /\ q.busy \in BOOLEAN
  /\ q.intent \in {None, "baseline", "current"}
  /\ q.opening = "reference" => Opening(q.opened)
  /\ q.selecting # None => Selection(q.selecting)
  /\ q.adding # None => q.adding \in Areas

PageForm(q) == q = Away \/ MountedForm(q)

\* What an operation may be.
Parts ==
  {"stage", "tab", "mounted", "purpose", "area", "reference", "aborted", "upgraded", "version",
   "fate"}

Working(c) == c.stage \notin {"idle", "done"}

WorkingForm(c) ==
  /\ DOMAIN c = Parts
  /\ c.stage \in Stages /\ c.tab \in Tabs /\ c.area \in Areas
  /\ c.mounted \in BOOLEAN /\ c.aborted \in BOOLEAN
  /\ c.version \in Versions
  /\ c.stage = "upgrading" => c.upgraded \in References
  /\ c.fate = "dropped" => c.aborted /\ c.stage \in {"preparing", "withdrawn", "saving"}

CheckForm(c) ==
  \/ c = Untaken \/ WorkingForm(c)
  \/ \E fate : c = Done(fate)

\* The operations that work for page p, and how its state shows them.
Live(ck, p) ==
  {n \in Photos : Working(ck[n]) /\ ck[n].tab = p /\ ck[n].mounted /\ ~ck[n].aborted}

WorkHolds(q, p, ck) ==
  /\ q.phase = "away" =>
       \A n \in Photos : Working(ck[n]) /\ ck[n].tab = p => ~ck[n].mounted
  /\ q.phase # "away" =>
       /\ q.busy => q.latest \in Photos /\ q.held = q.latest /\ Live(ck, p) = {q.latest}
       /\ ~q.busy => q.held = None /\ Live(ck, p) = {}
       /\ q.latest \in Photos => ck[q.latest].stage # "idle"
       /\ q.latest \in Photos /\ Working(ck[q.latest]) => q.latest \in Live(ck, p)

\* The camera: one start at most is not stale, no two have the same number, and only
\* the stream of a start that the page knows is open.
CameraHolds(cam, ups) ==
  /\ cam.open \subseteq {cam.stream}
  /\ \A s \in cam.asked :
       /\ s.id \in Nat /\ s.id <= ups
       /\ s.stale \in BOOLEAN
       /\ s.stale => s.id \notin cam.open
       /\ ~s.stale /\ s.stage = "asking" => cam.open = {}
  /\ \A s, t \in cam.asked : s.id = t.id \/ (~s.stale /\ ~t.stale) => s = t
  /\ DOMAIN cam = {"mode", "stream", "open", "asked"}
  /\ \A s \in cam.asked : DOMAIN s = {"id", "stage", "stale"}

\* Where photo n may have left a trace: in the database, on a page, or in the hands of
\* an operation that is about to put it back.
InStores(n, st) ==
  \/ \E a \in Areas : PhotoOf(st, a) = n
  \/ \E a \in Areas : \E i \in DOMAIN st.history[a] : st.history[a][i].photo = n

OnPage(n, q) ==
  /\ q.phase # "away"
  /\ \/ q.reference = n \/ q.report = n
     \/ q.selecting # None /\ q.selecting.previous = n

InHand(n, c) == c.stage = "upgrading" /\ c.upgraded = n

Named(id, st) == \E v \in st.versions : v.id = id

Traceless(n, st, pg, ck) ==
  /\ ~InStores(n, st) /\ ~Named(n, st) /\ ~Named(UpgradeOf(n), st)
  /\ \A p \in Tabs : ~OnPage(n, pg[p])
  /\ \A k \in Photos : ~InHand(n, ck[k])

\* An operation that has committed nothing, or never will.
Spotless(c) ==
  c.stage \in {"idle", "preparing", "sent", "withdrawn", "saving"} \/ c.fate = "dropped"

TraceHolds(n, st, pg, ck) ==
  /\ Spotless(ck[n]) => Traceless(n, st, pg, ck)
  /\ Working(ck[n]) => ~Named(n, st)
  /\ ck[n].stage \in {"ensuring", "upgrading"} => ~Named(UpgradeOf(n), st)

OneName(st) == \A v, w \in st.versions : v.id = w.id => v = w

StateHolds(st, pg, ck) ==
  /\ StoreForm(st) /\ OneName(st)
  /\ pg = [p \in Tabs |-> pg[p]] /\ ck = [n \in Photos |-> ck[n]]
  /\ \A p \in Tabs : PageForm(pg[p]) /\ WorkHolds(pg[p], p, ck)
  /\ \A n \in Photos : CheckForm(ck[n]) /\ TraceHolds(n, st, pg, ck)

CamerasHold(cams, ups) ==
  /\ cams = [p \in Tabs |-> cams[p]] /\ ups \in Nat
  /\ \A p \in Tabs : CameraHolds(cams[p], ups)

PageInv == StateHolds(stores, page, checks) /\ CamerasHold(camera, upsets)

--------------------------------------------------------------------------------
(* What the constants say.                                                  *)

LEMMA Numbers ==
  /\ None \notin Photos /\ None \notin Areas /\ None # 0
  /\ \A n \in Photos : /\ n \in Int /\ 0 < n /\ UpgradeOf(n) \in Int /\ UpgradeOf(n) \notin Photos
                       /\ n \in Versions /\ UpgradeOf(n) \in Versions
                       /\ n # None /\ UpgradeOf(n) # n
                       /\ n \in References
  /\ \A m, n \in Photos : UpgradeOf(m) # n /\ (UpgradeOf(m) = UpgradeOf(n) => m = n)
<1>1. MaxPhotos \in Nat /\ None \notin 0..MaxPhotos /\ None \notin Areas
  BY PageAssumption DEF PageAssumption
<1>2. ASSUME NEW n \in Photos
      PROVE  n \in 1..MaxPhotos /\ UpgradeOf(n) = MaxPhotos + n
  BY DEF Photos, UpgradeOf
<1>3. None \notin Photos /\ None \notin Areas /\ None # 0
  BY <1>1 DEF Photos
<1>4. \A n \in Photos : /\ n \in Int /\ 0 < n /\ UpgradeOf(n) \in Int
                        /\ UpgradeOf(n) \notin Photos
  BY <1>1, <1>2 DEF Photos
<1>5. \A n \in Photos : n \in Versions /\ UpgradeOf(n) \in Versions /\ UpgradeOf(n) # n
  BY <1>1, <1>2 DEF Versions
<1>6. \A n \in Photos : n # None /\ n \in References
  BY <1>3 DEF References
<1>7. \A m, n \in Photos : UpgradeOf(m) # n /\ (UpgradeOf(m) = UpgradeOf(n) => m = n)
  BY <1>1, <1>2
<1> QED  BY <1>3, <1>4, <1>5, <1>6, <1>7

--------------------------------------------------------------------------------
(* What the transactions do to the database.                                *)

\* A reference names a photo of its area, or an old one, and only its version is new.
LEMMA ReferenceWritten ==
  ASSUME NEW st, StoreForm(st), NEW a \in Areas, NEW photo \in References,
         NEW version \in Versions
  PROVE  LET st2 == WithReference(st, a, photo, version)
         IN  /\ StoreForm(st2)
             /\ \A k \in Photos : k # photo /\ ~InStores(k, st) => ~InStores(k, st2)
             /\ st2.versions = st.versions \cup {[id |-> version, area |-> a, photo |-> photo]}
<1> DEFINE st2 == WithReference(st, a, photo, version)
           new == [photo |-> photo, version |-> version]
<1>1. /\ DOMAIN st2 = DOMAIN st /\ st2.areas = st.areas /\ st2.active = st.active
      /\ st2.base = [st.base EXCEPT ![a] = new]
      /\ st2.versions = st.versions \cup {[id |-> version, area |-> a, photo |-> photo]}
      /\ st2.history = st.history
  BY DEF StoreForm, WithReference
<1>2. /\ DOMAIN st2.base = Areas /\ st2.base[a] = new
      /\ \A b \in Areas : b # a => st2.base[b] = st.base[b]
  BY <1>1 DEF StoreForm
<1> HIDE DEF st2
<1>3. new.photo = photo /\ new.version = version
  OBVIOUS
<1> HIDE DEF new
<1>4. /\ PhotoOf(st2, a) \in {photo, None}
      /\ \A b \in Areas : b # a => PhotoOf(st2, b) = PhotoOf(st, b)
  BY <1>2, <1>3 DEF PhotoOf
<1>5. \A b \in Areas : PhotoOf(st2, b) \in References
  BY <1>4 DEF StoreForm, References
<1>6. \A b \in Areas : st2.base[b] # None => st2.base[b].version \in Versions
  BY <1>2, <1>3 DEF StoreForm
<1>7. StoreForm(st2)
  BY <1>1, <1>2, <1>5, <1>6 DEF StoreForm
<1>8. ASSUME NEW k \in Photos, k # photo, ~InStores(k, st)  PROVE ~InStores(k, st2)
  BY <1>1, <1>4, <1>8, Numbers DEF InStores
<1> QED  BY <1>1, <1>7, <1>8 DEF st2

\* A record is added to the checks of its area, of which none is made up.
LEMMA CheckWritten ==
  ASSUME NEW st, StoreForm(st), NEW a \in Areas,
         NEW record \in [photo : Photos, version : Versions]
  PROVE  LET st2 == WithCheck(st, a, record)
         IN  /\ StoreForm(st2)
             /\ \A k \in Photos : k # record.photo /\ ~InStores(k, st) => ~InStores(k, st2)
             /\ st2.versions = st.versions
<1> DEFINE Records == [photo : Photos, version : Versions]
           st2 == WithCheck(st, a, record)
           old == st.history[a]
           all == Append(old, record)
           from == IF Len(all) > MaxHistory THEN Len(all) - MaxHistory + 1 ELSE 1
           kept == SubSeq(all, from, Len(all))
<1>1. /\ DOMAIN st2 = DOMAIN st /\ st2.areas = st.areas /\ st2.active = st.active
      /\ st2.base = st.base /\ st2.versions = st.versions
      /\ st2.history = [st.history EXCEPT ![a] = kept]
  BY DEF StoreForm, WithCheck
<1>2. st.history \in [Areas -> Seq(Records)] /\ MaxHistory \in Nat \ {0} /\ old \in Seq(Records)
  BY StoreAssumption DEF StoreForm, StoreAssumption
<1> HIDE DEF Records, st2
<1>3. record \in Records
  BY DEF Records
<1> HIDE DEF old
<1>4. /\ all \in Seq(Records) /\ Len(all) = Len(old) + 1 /\ Len(old) \in Nat
      /\ \A i \in 1..Len(old) : all[i] = old[i]
      /\ all[Len(old) + 1] = record
  BY <1>2, <1>3, AppendProperties, LenProperties
<1> HIDE DEF all
<1>5. from \in 1..Len(all) /\ Len(all) - from + 1 <= MaxHistory
  BY <1>2, <1>4
<1> HIDE DEF from
<1>6. Len(all) \in 0..Len(all) /\ from \in 1..(Len(all) + 1)
  BY <1>4, <1>5
<1>7. /\ kept \in Seq(Records) /\ Len(kept) = Len(all) - from + 1
      /\ \A i \in 1..(Len(all) - from + 1) : kept[i] = all[from + i - 1]
  BY <1>4, <1>5, <1>6, SubSeqProperties
<1> HIDE DEF kept
<1>8. \A i \in DOMAIN kept : \/ kept[i] = record
                             \/ \E j \in DOMAIN old : kept[i] = old[j]
  <2>1. DOMAIN kept = 1..Len(kept) /\ DOMAIN old = 1..Len(old)
    BY <1>2, <1>7, LenProperties
  <2> SUFFICES ASSUME NEW i \in DOMAIN kept
               PROVE  kept[i] = record \/ \E j \in DOMAIN old : kept[i] = old[j]
    OBVIOUS
  <2>2. /\ i \in 1..(Len(all) - from + 1) /\ kept[i] = all[from + i - 1]
        /\ from + i - 1 \in 1..(Len(old) + 1)
    BY <1>4, <1>5, <1>7, <2>1
  <2> QED  BY <1>4, <2>1, <2>2
<1>9. /\ st2.history \in [Areas -> Seq(Records)] /\ st2.history[a] = kept
      /\ \A b \in Areas : b # a => st2.history[b] = st.history[b]
  BY <1>1, <1>2, <1>7
<1>10. \A b \in Areas : Len(st2.history[b]) <= MaxHistory
  BY <1>5, <1>7, <1>9 DEF StoreForm
<1>11. \A b \in Areas : PhotoOf(st2, b) = PhotoOf(st, b)
  BY <1>1 DEF PhotoOf
<1>12. StoreForm(st2)
  BY <1>1, <1>9, <1>10, <1>11 DEF StoreForm, Records
<1>13. ASSUME NEW k \in Photos, k # record.photo, ~InStores(k, st)  PROVE ~InStores(k, st2)
  <2>1. \A b \in Areas : PhotoOf(st2, b) # k
    BY <1>11, <1>13 DEF InStores
  <2>2. ASSUME NEW b \in Areas, NEW i \in DOMAIN st2.history[b]
        PROVE  st2.history[b][i].photo # k
    <3>1. CASE b = a
      BY <1>8, <1>9, <1>13, <2>2, <3>1 DEF InStores, old
    <3>2. CASE b # a
      BY <1>9, <1>13, <2>2, <3>2 DEF InStores
    <3> QED  BY <3>1, <3>2
  <2> QED  BY <2>1, <2>2 DEF InStores
<1> QED  BY <1>1, <1>12, <1>13 DEF st2

\* The stores of a new browser hold nothing.
LEMMA EmptyForm ==
  /\ StoreForm(EmptyStores) /\ EmptyStores.versions = {}
  /\ \A k \in Photos : ~InStores(k, EmptyStores)
<1>1. DOMAIN EmptyStores = {"areas", "active", "base", "versions", "history"}
  BY DEF EmptyStores
<1>2. /\ EmptyStores.areas = {} /\ EmptyStores.active = None /\ EmptyStores.versions = {}
      /\ EmptyStores.base = [a \in Areas |-> None]
      /\ EmptyStores.history = [a \in Areas |-> <<>>]
  BY DEF EmptyStores
<1>3. \A a \in Areas : PhotoOf(EmptyStores, a) = None
  BY <1>2 DEF PhotoOf
<1>4. <<>> \in Seq([photo : Photos, version : Versions]) /\ Len(<<>>) = 0 /\ DOMAIN <<>> = {}
  OBVIOUS
<1>5. /\ EmptyStores.history \in [Areas -> Seq([photo : Photos, version : Versions])]
      /\ \A a \in Areas : /\ Len(EmptyStores.history[a]) <= MaxHistory
                          /\ DOMAIN EmptyStores.history[a] = {}
  BY <1>2, <1>4, StoreAssumption DEF StoreAssumption
<1>6. StoreForm(EmptyStores)
  BY <1>1, <1>2, <1>3, <1>5 DEF StoreForm, References
<1> QED  BY <1>2, <1>3, <1>5, <1>6, Numbers DEF InStores

\* The other transactions touch neither references nor records: a new area, the active
\* area, a workspace for a new browser.  The privacy page clears them all.
LEMMA AreasWritten ==
  ASSUME NEW st, StoreForm(st)
  PROVE  /\ StoreForm(EmptyStores) /\ EmptyStores.versions = {}
         /\ \A k \in Photos : ~InStores(k, EmptyStores)
         /\ \A a \in Areas :
              /\ StoreForm(WithArea(st, a)) /\ WithArea(st, a).versions = st.versions
              /\ \A k \in Photos : InStores(k, WithArea(st, a)) => InStores(k, st)
              /\ StoreForm(WithActive(st, a)) /\ WithActive(st, a).versions = st.versions
              /\ \A k \in Photos : InStores(k, WithActive(st, a)) => InStores(k, st)
         /\ \A opened \in Workspaces(st) :
              /\ StoreForm(opened) /\ opened.versions = st.versions
              /\ \A k \in Photos : InStores(k, opened) => InStores(k, st)
              /\ opened.active \in opened.areas
<1>1. ASSUME NEW st2, DOMAIN st2 = DOMAIN st, st2.areas \subseteq Areas,
             st2.active \in Areas \cup {None}, st2.base = st.base,
             st2.history = st.history, st2.versions = st.versions
      PROVE  /\ StoreForm(st2) /\ st2.versions = st.versions
             /\ \A k \in Photos : InStores(k, st2) => InStores(k, st)
  BY <1>1 DEF StoreForm, InStores, PhotoOf
<1>2. /\ StoreForm(EmptyStores) /\ EmptyStores.versions = {}
      /\ \A k \in Photos : ~InStores(k, EmptyStores)
  BY EmptyForm
<1>3. ASSUME NEW a \in Areas
      PROVE  /\ StoreForm(WithArea(st, a)) /\ WithArea(st, a).versions = st.versions
             /\ \A k \in Photos : InStores(k, WithArea(st, a)) => InStores(k, st)
  <2> DEFINE st2 == WithArea(st, a)
  <2>1. /\ DOMAIN st2 = DOMAIN st /\ st2.areas = st.areas \cup {a} /\ st2.active = a
        /\ st2.base = st.base /\ st2.history = st.history /\ st2.versions = st.versions
    BY DEF WithArea, StoreForm
  <2> HIDE DEF st2
  <2>2. st2.areas \subseteq Areas /\ st2.active \in Areas \cup {None}
    BY <2>1 DEF StoreForm
  <2>3. /\ StoreForm(st2) /\ st2.versions = st.versions
        /\ \A k \in Photos : InStores(k, st2) => InStores(k, st)
    BY <1>1, <2>1, <2>2
  <2> QED  BY <2>3 DEF st2
<1>4. ASSUME NEW a \in Areas
      PROVE  /\ StoreForm(WithActive(st, a)) /\ WithActive(st, a).versions = st.versions
             /\ \A k \in Photos : InStores(k, WithActive(st, a)) => InStores(k, st)
  <2> DEFINE st2 == WithActive(st, a)
  <2>1. /\ DOMAIN st2 = DOMAIN st /\ st2.areas = st.areas /\ st2.active = a
        /\ st2.base = st.base /\ st2.history = st.history /\ st2.versions = st.versions
    BY DEF WithActive, StoreForm
  <2> HIDE DEF st2
  <2>2. st2.areas \subseteq Areas /\ st2.active \in Areas \cup {None}
    BY <2>1 DEF StoreForm
  <2>3. /\ StoreForm(st2) /\ st2.versions = st.versions
        /\ \A k \in Photos : InStores(k, st2) => InStores(k, st)
    BY <1>1, <2>1, <2>2
  <2> QED  BY <2>3 DEF st2
<1>5. ASSUME NEW opened \in Workspaces(st)
      PROVE  /\ StoreForm(opened) /\ opened.versions = st.versions
             /\ \A k \in Photos : InStores(k, opened) => InStores(k, st)
             /\ opened.active \in opened.areas
  <2> DEFINE created == IF st.areas = {}
                        THEN [st EXCEPT !.areas = {Default}, !.active = Default] ELSE st
  <2>1. /\ DOMAIN created = DOMAIN st /\ created.areas \subseteq Areas
        /\ created.active \in Areas \cup {None} /\ created.base = st.base
        /\ created.history = st.history /\ created.versions = st.versions
    BY StoreAssumption DEF StoreForm, StoreAssumption
  <2>2. \/ opened = created /\ created.active \in created.areas
        \/ \E a \in created.areas : opened = [created EXCEPT !.active = a]
    BY DEF Workspaces
  <2> HIDE DEF created
  <2>3. DOMAIN created = {"areas", "active", "base", "versions", "history"}
    BY <2>1 DEF StoreForm
  <2>4. /\ DOMAIN opened = DOMAIN st /\ opened.areas \subseteq Areas
        /\ opened.active \in Areas \cup {None} /\ opened.base = st.base
        /\ opened.history = st.history /\ opened.versions = st.versions
        /\ opened.active \in opened.areas
    <3>1. CASE opened = created /\ created.active \in created.areas
      BY <2>1, <3>1
    <3>2. CASE \E a \in created.areas : opened = [created EXCEPT !.active = a]
      BY <2>1, <2>3, <3>2
    <3> QED  BY <2>2, <3>1, <3>2
  <2> QED  BY <1>1, <2>4
<1> QED  BY <1>2, <1>3, <1>4, <1>5

--------------------------------------------------------------------------------
(* What one move does to the whole state: each lemma is a kind of step.     *)

\* An operation whose committed part is no larger than it was keeps its promise, where
\* nothing of a spotless one is written.
LEMMA TraceKept ==
  ASSUME NEW n \in Photos, NEW st, NEW pg, NEW ck, NEW st2, NEW pg2, NEW ck2,
         TraceHolds(n, st, pg, ck),
         Spotless(ck2[n]) => Spotless(ck[n]),
         Working(ck2[n]) => Working(ck[n]) \/ Spotless(ck[n]),
         ck2[n].stage \in {"ensuring", "upgrading"} =>
           ck[n].stage \in {"ensuring", "upgrading"} \/ Spotless(ck[n]),
         st2.versions \subseteq st.versions,
         Spotless(ck2[n]) /\ InStores(n, st2) => InStores(n, st),
         Spotless(ck2[n]) => \A p \in Tabs : OnPage(n, pg2[p]) =>
                                               OnPage(n, pg[p]) \/ InStores(n, st),
         Spotless(ck2[n]) => \A k \in Photos : InHand(n, ck2[k]) =>
                                                 InHand(n, ck[k]) \/ InStores(n, st)
  PROVE  TraceHolds(n, st2, pg2, ck2)
<1>1. \A id : Named(id, st2) => Named(id, st)
  BY DEF Named
<1>2. Spotless(ck[n]) => Traceless(n, st, pg, ck)
  BY DEF TraceHolds
<1>3. Spotless(ck2[n]) => Traceless(n, st2, pg2, ck2)
  BY <1>1, <1>2 DEF Traceless
<1>4. Working(ck2[n]) => ~Named(n, st2)
  BY <1>1, <1>2 DEF TraceHolds, Traceless
<1>5. ck2[n].stage \in {"ensuring", "upgrading"} => ~Named(UpgradeOf(n), st2)
  BY <1>1, <1>2 DEF TraceHolds, Traceless
<1> QED  BY <1>3, <1>4, <1>5 DEF TraceHolds

\* A page whose lock, and whose operations, are as they were.
LEMMA WorkKept ==
  ASSUME NEW p \in Tabs, NEW q, NEW ck, NEW q2, NEW ck2, WorkHolds(q, p, ck),
         q2.phase # "away", q.phase # "away",
         q2.busy = q.busy, q2.latest = q.latest, q2.held = q.held,
         \A n \in Photos : Working(ck2[n]) => Working(ck[n]),
         \A n \in Photos : ck[n].stage # "idle" => ck2[n].stage # "idle",
         Live(ck2, p) = Live(ck, p)
  PROVE  WorkHolds(q2, p, ck2)
<1>1. q2.busy => q2.latest \in Photos /\ q2.held = q2.latest /\ Live(ck2, p) = {q2.latest}
  BY DEF WorkHolds
<1>2. ~q2.busy => q2.held = None /\ Live(ck2, p) = {}
  BY DEF WorkHolds
<1>3. q2.latest \in Photos /\ Working(ck2[q2.latest]) => q2.latest \in Live(ck2, p)
  BY DEF WorkHolds
<1>4. q2.latest \in Photos => ck2[q2.latest].stage # "idle"
  BY DEF WorkHolds
<1> QED  BY <1>1, <1>2, <1>3, <1>4 DEF WorkHolds

\* A mounted page has its form, and no other is away.
LEMMA Forms ==
  ASSUME NEW q, PageForm(q)
  PROVE  (q.phase # "away" => MountedForm(q)) /\ (MountedForm(q) => q.phase # "away")
BY DEF PageForm, Away, MountedForm, Viewfinder

\* The page changes, but neither its lock nor its operations.
LEMMA PageStep ==
  ASSUME NEW st, NEW pg, NEW ck, StateHolds(st, pg, ck),
         NEW p \in Tabs, NEW q, pg[p].phase # "away", MountedForm(q),
         q.busy = pg[p].busy, q.latest = pg[p].latest, q.held = pg[p].held,
         \A k \in Photos : Spotless(ck[k]) /\ OnPage(k, q) =>
                             OnPage(k, pg[p]) \/ InStores(k, st)
  PROVE  StateHolds(st, [pg EXCEPT ![p] = q], ck)
<1> DEFINE pg2 == [pg EXCEPT ![p] = q]
<1>1. /\ pg2 = [t \in Tabs |-> pg2[t]] /\ pg2[p] = q
      /\ \A t \in Tabs : t # p => pg2[t] = pg[t]
  BY DEF StateHolds
<1> HIDE DEF pg2
<1>2. q.phase # "away" /\ PageForm(q)
  BY Forms DEF PageForm
<1>3. WorkHolds(q, p, ck)
  BY <1>2, WorkKept DEF StateHolds
<1>4. \A t \in Tabs : PageForm(pg2[t]) /\ WorkHolds(pg2[t], t, ck)
  BY <1>1, <1>2, <1>3 DEF StateHolds
<1>5. ASSUME NEW n \in Photos  PROVE CheckForm(ck[n]) /\ TraceHolds(n, st, pg2, ck)
  <2>1. CheckForm(ck[n]) /\ TraceHolds(n, st, pg, ck)
    BY DEF StateHolds
  <2>2. Spotless(ck[n]) => \A t \in Tabs : OnPage(n, pg2[t]) =>
                                             OnPage(n, pg[t]) \/ InStores(n, st)
    BY <1>1
  <2> QED  BY <2>1, <2>2, TraceKept
<1> QED  BY <1>1, <1>4, <1>5 DEF StateHolds, pg2

\* A transaction that writes no photo and no version.
LEMMA StoreStep ==
  ASSUME NEW st, NEW pg, NEW ck, StateHolds(st, pg, ck),
         NEW st2, StoreForm(st2), st2.versions \subseteq st.versions,
         \A k \in Photos : InStores(k, st2) => InStores(k, st)
  PROVE  StateHolds(st2, pg, ck)
<1>1. OneName(st2)
  BY DEF StateHolds, OneName
<1>2. ASSUME NEW n \in Photos  PROVE TraceHolds(n, st2, pg, ck)
  <2>1. TraceHolds(n, st, pg, ck)
    BY DEF StateHolds
  <2> QED  BY <2>1, TraceKept
<1> QED  BY <1>1, <1>2 DEF StateHolds

\* A reference is written that no spotless operation took, under a version of its own.
LEMMA ReferenceStep ==
  ASSUME NEW st, NEW pg, NEW ck, StateHolds(st, pg, ck),
         NEW a \in Areas, NEW photo \in References, NEW version \in Versions,
         ~Named(version, st),
         \A k \in Photos : Spotless(ck[k]) => photo # k /\ version # k /\ version # UpgradeOf(k),
         \A k \in Photos : Working(ck[k]) => version # k,
         \A k \in Photos : ck[k].stage \in {"ensuring", "upgrading"} => version # UpgradeOf(k)
  PROVE  StateHolds(WithReference(st, a, photo, version), pg, ck)
<1> DEFINE st2 == WithReference(st, a, photo, version)
           new == [id |-> version, area |-> a, photo |-> photo]
<1>0. StoreForm(st)
  BY DEF StateHolds
<1>1. /\ StoreForm(st2)
      /\ \A k \in Photos : k # photo /\ ~InStores(k, st) => ~InStores(k, st2)
      /\ st2.versions = st.versions \cup {new}
  BY <1>0, ReferenceWritten
<1> HIDE DEF st2
<1>2. new.id = version
  OBVIOUS
<1> HIDE DEF new
<1>3. OneName(st2)
  BY <1>1, <1>2 DEF StateHolds, OneName, Named
<1>4. \A id : Named(id, st2) => Named(id, st) \/ id = version
  BY <1>1, <1>2 DEF Named
<1>5. ASSUME NEW n \in Photos  PROVE TraceHolds(n, st2, pg, ck)
  <2>1. TraceHolds(n, st, pg, ck)
    BY DEF StateHolds
  <2>2. Spotless(ck[n]) => Traceless(n, st2, pg, ck)
    BY <1>1, <1>4, <2>1 DEF TraceHolds, Traceless
  <2>3. Working(ck[n]) => ~Named(n, st2)
    BY <1>4, <2>1 DEF TraceHolds
  <2>4. ck[n].stage \in {"ensuring", "upgrading"} => ~Named(UpgradeOf(n), st2)
    BY <1>4, <2>1 DEF TraceHolds
  <2> QED  BY <2>2, <2>3, <2>4 DEF TraceHolds
<1> QED  BY <1>1, <1>3, <1>5 DEF StateHolds, st2

\* A check is recorded, of a photo that no spotless operation took.
LEMMA RecordStep ==
  ASSUME NEW st, NEW pg, NEW ck, StateHolds(st, pg, ck),
         NEW a \in Areas, NEW record \in [photo : Photos, version : Versions],
         ~Spotless(ck[record.photo])
  PROVE  StateHolds(WithCheck(st, a, record), pg, ck)
<1> DEFINE st2 == WithCheck(st, a, record)
<1>0. StoreForm(st)
  BY DEF StateHolds
<1>1. /\ StoreForm(st2)
      /\ \A k \in Photos : k # record.photo /\ ~InStores(k, st) => ~InStores(k, st2)
      /\ st2.versions = st.versions
  BY <1>0, CheckWritten
<1> HIDE DEF st2
<1>2. OneName(st2)
  BY <1>1 DEF StateHolds, OneName
<1>3. ASSUME NEW n \in Photos  PROVE TraceHolds(n, st2, pg, ck)
  <2>1. TraceHolds(n, st, pg, ck)
    BY DEF StateHolds
  <2>2. Spotless(ck[n]) /\ InStores(n, st2) => InStores(n, st)
    BY <1>1
  <2> QED  BY <1>1, <2>1, <2>2, TraceKept
<1> QED  BY <1>1, <1>2, <1>3 DEF StateHolds, st2

\* The stages an operation is in while it works, and their fates.
LEMMA CheckForms ==
  ASSUME NEW c, CheckForm(c)
  PROVE  /\ Working(c) => WorkingForm(c)
         /\ WorkingForm(c) => Working(c)
         /\ c.stage = "idle" => c = Untaken
         /\ Spotless(Untaken) /\ ~Working(Untaken)
         /\ \A fate : /\ Done(fate).stage = "done" /\ Done(fate).fate = fate
                      /\ ~Working(Done(fate)) /\ CheckForm(Done(fate))
                      /\ Spotless(Done(fate)) => fate = "dropped"
<1>1. \A fate : /\ Done(fate).stage = "done" /\ Done(fate).fate = fate
                /\ ~Working(Done(fate)) /\ CheckForm(Done(fate))
                /\ Spotless(Done(fate)) => fate = "dropped"
  BY DEF Done, Working, CheckForm, Spotless
<1>2. Spotless(Untaken) /\ ~Working(Untaken) /\ Untaken.stage = "idle"
  BY DEF Untaken, Spotless, Working
<1>3. WorkingForm(c) => Working(c) /\ c.stage # "idle"
  BY DEF WorkingForm, Working, Stages
<1>4. (Working(c) => WorkingForm(c)) /\ (c.stage = "idle" => c = Untaken)
  BY <1>1, <1>2, <1>3 DEF CheckForm
<1> QED  BY <1>1, <1>2, <1>3, <1>4

\* An operation goes to its next stage; it stays where it is, and as committed as it was
\* or more.
LEMMA OpStep ==
  ASSUME NEW st, NEW pg, NEW ck, StateHolds(st, pg, ck),
         NEW n \in Photos, Working(ck[n]), NEW c, WorkingForm(c),
         c.tab = ck[n].tab, c.mounted = ck[n].mounted, c.aborted = ck[n].aborted,
         Spotless(c) => Spotless(ck[n]),
         c.stage \in {"ensuring", "upgrading"} =>
           ck[n].stage \in {"ensuring", "upgrading"} \/ Spotless(ck[n]),
         \A k \in Photos : InHand(k, c) => InHand(k, ck[n]) \/ InStores(k, st)
  PROVE  StateHolds(st, pg, [ck EXCEPT ![n] = c])
<1> DEFINE ck2 == [ck EXCEPT ![n] = c]
<1>1. /\ ck2 = [k \in Photos |-> ck2[k]] /\ ck2[n] = c
      /\ \A k \in Photos : k # n => ck2[k] = ck[k]
  BY DEF StateHolds
<1> HIDE DEF ck2
<1>2. CheckForm(c) /\ Working(c)
  BY CheckForms DEF CheckForm
<1>3. \A p \in Tabs : Live(ck2, p) = Live(ck, p)
  BY <1>1, <1>2 DEF Live
<1>4. \A k \in Photos : /\ Working(ck2[k]) => Working(ck[k])
                        /\ ck[k].stage # "idle" => ck2[k].stage # "idle"
                        /\ Working(ck2[k]) => /\ ck2[k].tab = ck[k].tab
                                            /\ ck2[k].mounted = ck[k].mounted
  BY <1>1, <1>2 DEF Working
<1>5. ASSUME NEW p \in Tabs  PROVE WorkHolds(pg[p], p, ck2)
  <2>1. WorkHolds(pg[p], p, ck)
    BY DEF StateHolds
  <2>2. CASE pg[p].phase = "away"
    BY <1>4, <2>1, <2>2 DEF WorkHolds
  <2>3. CASE pg[p].phase # "away"
    BY <1>3, <1>4, <2>1, <2>3, WorkKept
  <2> QED  BY <2>2, <2>3
<1>6. ASSUME NEW k \in Photos  PROVE CheckForm(ck2[k]) /\ TraceHolds(k, st, pg, ck2)
  <2>1. CheckForm(ck[k]) /\ TraceHolds(k, st, pg, ck)
    BY DEF StateHolds
  <2>2. \A j \in Photos : InHand(k, ck2[j]) => InHand(k, ck[j]) \/ InStores(k, st)
    BY <1>1
  <2>3. Spotless(ck2[k]) => Spotless(ck[k])
    BY <1>1
  <2>4. ck2[k].stage \in {"ensuring", "upgrading"} =>
           ck[k].stage \in {"ensuring", "upgrading"} \/ Spotless(ck[k])
    BY <1>1
  <2>5. TraceHolds(k, st, pg, ck2)
    BY <1>4, <2>1, <2>2, <2>3, <2>4, TraceKept
  <2> QED  BY <1>1, <1>2, <2>1, <2>5
<1> QED  BY <1>1, <1>5, <1>6 DEF StateHolds, ck2

\* A mounted operation works for a page that is there.
LEMMA Locked ==
  ASSUME NEW st, NEW pg, NEW ck, StateHolds(st, pg, ck), NEW n \in Photos, Working(ck[n])
  PROVE  /\ WorkingForm(ck[n]) /\ ck[n].tab \in Tabs
         /\ ck[n].mounted => pg[ck[n].tab].phase # "away" /\ MountedForm(pg[ck[n].tab])
<1>1. CheckForm(ck[n])
  BY DEF StateHolds
<1>2. WorkingForm(ck[n])
  BY <1>1, CheckForms
<1>3. ck[n].tab \in Tabs
  BY <1>2 DEF WorkingForm
<1>4. PageForm(pg[ck[n].tab]) /\ WorkHolds(pg[ck[n].tab], ck[n].tab, ck)
  BY <1>3 DEF StateHolds
<1>5. ck[n].mounted => pg[ck[n].tab].phase # "away"
  BY <1>4 DEF WorkHolds
<1> QED  BY <1>2, <1>3, <1>4, <1>5, Forms

\* The end of an operation unlocks the page exactly when no operation works for it any
\* more: a late end, under a successor, leaves the page as it is.
LEMMA EndStep ==
  ASSUME NEW st, NEW pg, NEW ck, StateHolds(st, pg, ck),
         NEW n \in Photos, Working(ck[n]), NEW p, p = ck[n].tab
  PROVE  StateHolds(st, IF ck[n].mounted THEN [pg EXCEPT ![p] = Finished(pg[p], n)] ELSE pg,
                    [ck EXCEPT ![n] = Done(ck[n].fate)])
<1> DEFINE c == Done(ck[n].fate)
           ck2 == [ck EXCEPT ![n] = c]
           q == Finished(pg[p], n)
           pg2 == IF ck[n].mounted THEN [pg EXCEPT ![p] = q] ELSE pg
<1>1. /\ ck2 = [k \in Photos |-> ck2[k]] /\ ck2[n] = c
      /\ \A k \in Photos : k # n => ck2[k] = ck[k]
  BY DEF StateHolds
<1>2. /\ c.fate = ck[n].fate /\ ~Working(c) /\ CheckForm(c) /\ c.stage = "done"
      /\ Spotless(c) => Spotless(ck[n])
  <2>1. CheckForm(ck[n])
    BY DEF StateHolds
  <2>2. Spotless(c) => c.fate = "dropped"
    BY <2>1, CheckForms
  <2> QED  BY <2>1, <2>2, CheckForms DEF Spotless
<1> HIDE DEF c, ck2
<1>3. /\ p \in Tabs /\ WorkingForm(ck[n])
      /\ ck[n].mounted => pg[p].phase # "away" /\ MountedForm(pg[p])
  BY Locked
<1>4. \A t \in Tabs : Live(ck2, t) = Live(ck, t) \ {n}
  BY <1>1, <1>2 DEF Live
<1>5. \A k \in Photos : /\ Working(ck2[k]) => Working(ck[k]) /\ k # n
                        /\ k # n => ck2[k] = ck[k]
                        /\ ck[k].stage # "idle" => ck2[k].stage # "idle"
  BY <1>1, <1>2
<1>6. /\ pg2 = [t \in Tabs |-> pg2[t]] /\ (ck[n].mounted => pg2[p] = q)
      /\ \A t \in Tabs : t # p \/ ~ck[n].mounted => pg2[t] = pg[t]
  BY <1>3 DEF StateHolds
<1> HIDE DEF pg2
<1>7. ASSUME ck[n].mounted
      PROVE  /\ MountedForm(q) /\ q.phase = pg[p].phase /\ q.latest = pg[p].latest
             /\ q.reference = pg[p].reference /\ q.report = pg[p].report
             /\ q.selecting = pg[p].selecting
             /\ pg[p].latest # n => q = pg[p]
             /\ pg[p].latest = n => ~q.busy /\ q.held = IF pg[p].held = n THEN None ELSE pg[p].held
  BY <1>3, <1>7 DEF Finished, MountedForm, Fields
<1> HIDE DEF q
<1>8. ASSUME NEW t \in Tabs  PROVE PageForm(pg2[t]) /\ WorkHolds(pg2[t], t, ck2)
  <2>1. PageForm(pg[t]) /\ WorkHolds(pg[t], t, ck)
    BY DEF StateHolds
  <2>2. CASE pg[t].phase = "away"
    <3>1. pg2[t] = pg[t]
      BY <1>3, <1>6, <2>2
    <3> QED  BY <1>5, <2>1, <2>2, <3>1 DEF WorkHolds
  <2>3. CASE pg[t].phase # "away" /\ t = p /\ ck[n].mounted /\ pg[p].latest = n
    <3>1. pg2[t] = q /\ q.phase # "away" /\ ~q.busy /\ q.latest = n /\ PageForm(q)
      BY <1>6, <1>7, <2>3 DEF PageForm
    <3>2. n \in Live(ck, p) /\ pg[p].busy \in BOOLEAN
      BY <1>3, <2>1, <2>3 DEF WorkHolds, MountedForm
    <3>3. pg[p].busy /\ pg[p].held = n /\ Live(ck, p) = {n}
      BY <2>1, <2>3, <3>2 DEF WorkHolds
    <3>4. Live(ck2, p) = {} /\ q.held = None
      BY <1>3, <1>4, <1>7, <2>3, <3>3
    <3>5. ~Working(ck2[n]) /\ ck2[n].stage # "idle"
      BY <1>1, <1>2
    <3>6. WorkHolds(q, p, ck2)
      BY <3>1, <3>4, <3>5 DEF WorkHolds
    <3> QED  BY <2>3, <3>1, <3>6
  <2>4. CASE pg[t].phase # "away" /\ ~(t = p /\ ck[n].mounted /\ pg[p].latest = n)
    <3>1. pg2[t] = pg[t]
      BY <1>6, <1>7, <2>4
    <3>2. n \notin Live(ck, t)
      <4> SUFFICES ASSUME n \in Live(ck, t)  PROVE FALSE
        OBVIOUS
      <4>1. t = p /\ ck[n].mounted
        BY DEF Live
      <4>2. pg[t].busy \in BOOLEAN
        BY <1>3, <4>1 DEF MountedForm
      <4>3. pg[t].latest = n
        BY <2>1, <2>4, <4>2 DEF WorkHolds
      <4> QED  BY <2>4, <4>1, <4>3
    <3>3. Live(ck2, t) = Live(ck, t)
      BY <1>4, <3>2
    <3> QED  BY <1>5, <2>1, <2>4, <3>1, <3>3, WorkKept
  <2> QED  BY <2>2, <2>3, <2>4
<1>9. ASSUME NEW k \in Photos  PROVE CheckForm(ck2[k]) /\ TraceHolds(k, st, pg2, ck2)
  <2>1. CheckForm(ck[k]) /\ TraceHolds(k, st, pg, ck)
    BY DEF StateHolds
  <2>2. CheckForm(ck2[k])
    BY <1>1, <1>2, <2>1
  <2>3. \A j \in Photos : InHand(k, ck2[j]) => InHand(k, ck[j])
    BY <1>1, <1>2 DEF InHand
  <2>4. Spotless(ck2[k]) => Spotless(ck[k])
    BY <1>1, <1>2
  <2>5. ck2[k].stage \in {"ensuring", "upgrading"} => ck[k].stage \in {"ensuring", "upgrading"}
    BY <1>1, <1>2
  <2>6. \A t \in Tabs : OnPage(k, pg2[t]) => OnPage(k, pg[t])
    BY <1>6, <1>7 DEF OnPage
  <2>7. TraceHolds(k, st, pg2, ck2)
    BY <1>5, <2>1, <2>3, <2>4, <2>5, <2>6, TraceKept
  <2> QED  BY <2>2, <2>7
<1> QED  BY <1>1, <1>6, <1>8, <1>9 DEF StateHolds, pg2, ck2, c, q

\* A photo operation begins on a page that is free.
LEMMA BeginStep ==
  ASSUME NEW st, NEW pg, NEW ck, StateHolds(st, pg, ck),
         NEW p \in Tabs, NEW q, NEW n \in Photos, NEW c,
         pg[p].phase # "away", ~pg[p].busy, ck[n].stage = "idle",
         WorkingForm(c), c.stage = "preparing", c.tab = p, c.mounted, ~c.aborted,
         MountedForm(q), q.busy, q.latest = n, q.held = n,
         \A k \in Photos : OnPage(k, q) => OnPage(k, pg[p])
  PROVE  StateHolds(st, [pg EXCEPT ![p] = q], [ck EXCEPT ![n] = c])
<1> DEFINE ck2 == [ck EXCEPT ![n] = c]
           pg2 == [pg EXCEPT ![p] = q]
<1>1. /\ ck2 = [k \in Photos |-> ck2[k]] /\ ck2[n] = c
      /\ \A k \in Photos : k # n => ck2[k] = ck[k]
      /\ pg2 = [t \in Tabs |-> pg2[t]] /\ pg2[p] = q
      /\ \A t \in Tabs : t # p => pg2[t] = pg[t]
  BY DEF StateHolds
<1> HIDE DEF ck2, pg2
<1>2. CheckForm(c) /\ Working(c) /\ PageForm(q) /\ q.phase # "away"
  BY CheckForms, Forms DEF CheckForm, PageForm
<1>3. CheckForm(ck[n]) /\ Spotless(ck[n]) /\ ~Working(ck[n])
  BY DEF StateHolds, Spotless, Working
<1>4. \A t \in Tabs : t # p => Live(ck2, t) = Live(ck, t)
  BY <1>1, <1>3 DEF Live
<1>5. Live(ck2, p) = Live(ck, p) \cup {n}
  BY <1>1, <1>2 DEF Live
<1>6. WorkHolds(q, p, ck2)
  <2>1. Live(ck, p) = {}
    BY DEF StateHolds, WorkHolds
  <2> QED  BY <1>1, <1>2, <1>5, <2>1 DEF WorkHolds
<1>7. ASSUME NEW t \in Tabs  PROVE PageForm(pg2[t]) /\ WorkHolds(pg2[t], t, ck2)
  <2>1. PageForm(pg[t]) /\ WorkHolds(pg[t], t, ck)
    BY DEF StateHolds
  <2>2. CASE t = p
    BY <1>1, <1>2, <1>6, <2>2
  <2>3. CASE t # p
    <3>1. pg2[t] = pg[t] /\ Live(ck2, t) = Live(ck, t)
      BY <1>1, <1>4, <2>3
    <3>2. pg[t].phase = "away" =>
            \A k \in Photos : Working(ck2[k]) /\ ck2[k].tab = t => ~ck2[k].mounted
      BY <1>1, <2>1, <2>3 DEF WorkHolds
    <3>3. pg[t].phase # "away" =>
            /\ pg[t].busy => pg[t].latest \in Photos /\ pg[t].held = pg[t].latest
                             /\ Live(ck2, t) = {pg[t].latest}
            /\ ~pg[t].busy => pg[t].held = None /\ Live(ck2, t) = {}
      BY <2>1, <3>1 DEF WorkHolds
    <3>4. pg[t].phase # "away" /\ pg[t].latest \in Photos =>
            pg[t].latest # n /\ ck2[pg[t].latest].stage # "idle"
      BY <1>1, <2>1 DEF WorkHolds
    <3>5. ASSUME pg[t].phase # "away", pg[t].latest \in Photos, Working(ck2[pg[t].latest])
          PROVE  pg[t].latest \in Live(ck2, t)
      BY <1>1, <2>1, <3>1, <3>5, <3>4 DEF WorkHolds
    <3> QED  BY <2>1, <3>1, <3>2, <3>3, <3>4, <3>5 DEF WorkHolds
  <2> QED  BY <2>2, <2>3
<1>8. ASSUME NEW k \in Photos  PROVE CheckForm(ck2[k]) /\ TraceHolds(k, st, pg2, ck2)
  <2>1. CheckForm(ck[k]) /\ TraceHolds(k, st, pg, ck)
    BY DEF StateHolds
  <2>2. CheckForm(ck2[k])
    BY <1>1, <1>2, <2>1
  <2>3. \A j \in Photos : InHand(k, ck2[j]) => InHand(k, ck[j])
    BY <1>1 DEF InHand
  <2>4. Spotless(ck2[k]) => Spotless(ck[k])
    BY <1>1, <1>3
  <2>5. ck2[k].stage \in {"ensuring", "upgrading"} => ck[k].stage \in {"ensuring", "upgrading"}
    BY <1>1
  <2>6. \A t \in Tabs : OnPage(k, pg2[t]) => OnPage(k, pg[t])
    BY <1>1
  <2>7. Working(ck2[k]) => Working(ck[k]) \/ Spotless(ck[k])
    BY <1>1, <1>3
  <2>8. TraceHolds(k, st, pg2, ck2)
    BY <2>1, <2>3, <2>4, <2>5, <2>6, <2>7, TraceKept
  <2> QED  BY <2>2, <2>8
<1> QED  BY <1>1, <1>7, <1>8 DEF StateHolds, pg2, ck2

\* The user abandons what the page works for: its operations are aborted, and taken off
\* the page when the page is gone.
Abandoned(c, n, p, held, gone) ==
  IF ~(Working(c) /\ c.tab = p /\ c.mounted) THEN c
  ELSE [c EXCEPT !.aborted = @ \/ held = n, !.stage = IF @ = "sent" THEN "withdrawn" ELSE @,
                 !.mounted = ~gone,
                 !.fate = IF held = n /\ c.stage \in Early THEN "dropped" ELSE @]

LEMMA AbandonedForm ==
  ASSUME NEW c, CheckForm(c), NEW n, NEW p, NEW held, NEW gone \in BOOLEAN,
         NEW d, d = Abandoned(c, n, p, held, gone)
  PROVE  /\ CheckForm(d) /\ (Working(d) <=> Working(c))
         /\ c.stage # "idle" => d.stage # "idle"
         /\ Working(c) => WorkingForm(d) /\ d.tab = c.tab
         /\ Working(c) /\ c.tab # p => d = c
         /\ Working(c) /\ c.tab = p => d.mounted = (c.mounted /\ ~gone)
         /\ Working(c) /\ c.tab = p /\ gone => ~d.mounted
         /\ Working(c) /\ c.tab = p /\ c.mounted => d.aborted = (c.aborted \/ held = n)
         /\ \A k : InHand(k, d) => InHand(k, c)
         /\ Spotless(d) => Spotless(c)
         /\ d.stage \in {"ensuring", "upgrading"} => c.stage \in {"ensuring", "upgrading"}
<1>1. CASE ~(Working(c) /\ c.tab = p /\ c.mounted)
  <2>1. d = c
    BY <1>1 DEF Abandoned
  <2>2. Working(c) => WorkingForm(c) /\ c.mounted \in BOOLEAN
    BY CheckForms DEF WorkingForm
  <2>3. Working(c) /\ c.tab = p /\ gone => ~d.mounted
    BY <1>1, <2>1
  <2> QED  BY <1>1, <2>1, <2>2, <2>3
<1>2. CASE Working(c) /\ c.tab = p /\ c.mounted
  <2>1. WorkingForm(c)
    BY <1>2, CheckForms
  <2>2. d = [c EXCEPT !.aborted = @ \/ held = n, !.stage = IF @ = "sent" THEN "withdrawn" ELSE @,
                      !.mounted = ~gone,
                      !.fate = IF held = n /\ c.stage \in Early THEN "dropped" ELSE @]
    BY <1>2 DEF Abandoned
  <2>3. /\ DOMAIN d = DOMAIN c /\ d.tab = c.tab /\ d.area = c.area /\ d.version = c.version
        /\ d.upgraded = c.upgraded /\ d.mounted = ~gone
        /\ d.aborted = (c.aborted \/ held = n)
        /\ d.stage = IF c.stage = "sent" THEN "withdrawn" ELSE c.stage
        /\ d.fate = IF held = n /\ c.stage \in Early THEN "dropped" ELSE c.fate
    BY <2>1, <2>2 DEF WorkingForm, Parts
  <2>4. d.stage \in Stages /\ (d.stage = "upgrading" => d.upgraded \in References)
    BY <2>1, <2>3 DEF WorkingForm, Stages
  <2>5. d.fate = "dropped" => d.aborted /\ d.stage \in {"preparing", "withdrawn", "saving"}
    BY <2>1, <2>3 DEF WorkingForm, Early
  <2>6. d.mounted \in BOOLEAN /\ d.aborted \in BOOLEAN
    BY <2>1, <2>3 DEF WorkingForm
  <2>7. WorkingForm(d)
    BY <2>1, <2>3, <2>4, <2>5, <2>6 DEF WorkingForm
  <2>8. CheckForm(d) /\ Working(d)
    BY <2>7, CheckForms DEF CheckForm
  <2>9. Spotless(d) => Spotless(c)
    BY <2>1, <2>3 DEF Spotless, Early, WorkingForm, Stages
  <2>10. \A k : InHand(k, d) => InHand(k, c)
    BY <2>3 DEF InHand
  <2>11. d.stage \in {"ensuring", "upgrading"} => c.stage \in {"ensuring", "upgrading"}
    BY <2>3
  <2>12. d.mounted = (c.mounted /\ ~gone)
    BY <1>2, <2>3
  <2>13. d.stage # "idle"
    BY <2>8 DEF Working
  <2> QED  BY <1>2, <2>3, <2>7, <2>8, <2>9, <2>10, <2>11, <2>12, <2>13
<1> QED  BY <1>1, <1>2

\* What is left is a page that is free, or away, and operations that no page waits for.
LEMMA AbandonStep ==
  ASSUME NEW st, NEW pg, NEW ck, StateHolds(st, pg, ck),
         NEW p \in Tabs, NEW q, NEW gone \in BOOLEAN, NEW ck2, pg[p].phase # "away",
         ck2 = [k \in Photos |-> Abandoned(ck[k], k, p, pg[p].held, gone)],
         gone => q = Away,
         ~gone => MountedForm(q) /\ ~q.busy /\ q.latest = None /\ q.held = None,
         \A k \in Photos : OnPage(k, q) => OnPage(k, pg[p])
  PROVE  StateHolds(st, [pg EXCEPT ![p] = q], ck2)
<1> DEFINE pg2 == [pg EXCEPT ![p] = q]
<1>1. /\ pg2 = [t \in Tabs |-> pg2[t]] /\ pg2[p] = q
      /\ \A t \in Tabs : t # p => pg2[t] = pg[t]
  BY DEF StateHolds
<1> HIDE DEF pg2
<1>2. ck2 = [k \in Photos |-> ck2[k]]
  OBVIOUS
<1>3. ASSUME NEW k \in Photos
      PROVE  /\ CheckForm(ck2[k]) /\ (Working(ck2[k]) <=> Working(ck[k]))
             /\ ck[k].stage # "idle" => ck2[k].stage # "idle"
             /\ Working(ck[k]) => WorkingForm(ck2[k]) /\ WorkingForm(ck[k])
             /\ Working(ck[k]) => ck2[k].tab = ck[k].tab
             /\ Working(ck[k]) /\ ck[k].tab # p => ck2[k] = ck[k]
             /\ Working(ck[k]) /\ ck[k].tab = p => ck2[k].mounted = (ck[k].mounted /\ ~gone)
             /\ Working(ck[k]) /\ ck[k].tab = p /\ gone => ~ck2[k].mounted
             /\ Working(ck[k]) /\ ck[k].tab = p /\ ck[k].mounted =>
                  ck2[k].aborted = (ck[k].aborted \/ pg[p].held = k)
             /\ \A j : InHand(j, ck2[k]) => InHand(j, ck[k])
             /\ Spotless(ck2[k]) => Spotless(ck[k])
             /\ ck2[k].stage \in {"ensuring", "upgrading"} =>
                  ck[k].stage \in {"ensuring", "upgrading"}
  <2>1. CheckForm(ck[k]) /\ ck2[k] = Abandoned(ck[k], k, p, pg[p].held, gone)
    BY DEF StateHolds
  <2>3. Working(ck[k]) => WorkingForm(ck[k])
    BY <2>1, CheckForms
  <2> QED  BY <2>1, <2>3, AbandonedForm
<1>4. \A t \in Tabs : t # p => Live(ck2, t) = Live(ck, t)
  BY <1>3 DEF Live
<1>5. Live(ck2, p) = {}
  <2>1. PageForm(pg[p]) /\ WorkHolds(pg[p], p, ck)
    BY DEF StateHolds
  <2>2. MountedForm(pg[p]) /\ pg[p].busy \in BOOLEAN
    BY <2>1, Forms DEF MountedForm
  <2>3. Live(ck, p) \subseteq {pg[p].held}
    BY <2>1, <2>2 DEF WorkHolds
  <2> SUFFICES ASSUME NEW k \in Live(ck2, p)  PROVE FALSE
    OBVIOUS
  <2>4. k \in Photos /\ Working(ck[k]) /\ ck[k].tab = p /\ ck2[k].mounted /\ ~ck2[k].aborted
    BY <1>3 DEF Live
  <2>5. ck[k].mounted /\ ck[k].mounted \in BOOLEAN /\ ck[k].aborted \in BOOLEAN
    BY <1>3, <2>4 DEF WorkingForm
  <2>6. ~ck[k].aborted /\ pg[p].held # k
    BY <1>3, <2>4, <2>5
  <2> QED  BY <2>3, <2>4, <2>5, <2>6 DEF Live
<1>6. PageForm(q) /\ WorkHolds(q, p, ck2)
  <2>1. CASE gone
    <3>1. q = Away /\ q.phase = "away"
      BY <2>1 DEF Away
    <3>2. \A k \in Photos : Working(ck2[k]) /\ ck2[k].tab = p => ~ck2[k].mounted
      <4> SUFFICES ASSUME NEW k \in Photos, Working(ck2[k]), ck2[k].tab = p
                   PROVE  ~ck2[k].mounted
        OBVIOUS
      <4>1. Working(ck[k]) /\ ck[k].tab = p
        BY <1>3
      <4> QED  BY <1>3, <2>1, <4>1
    <3> QED  BY <3>1, <3>2 DEF PageForm, WorkHolds
  <2>2. CASE ~gone
    <3>1. PageForm(q) /\ q.phase # "away" /\ q.latest \notin Photos
      BY <2>2, Forms, Numbers DEF PageForm
    <3> QED  BY <1>5, <2>2, <3>1 DEF WorkHolds
  <2> QED  BY <2>1, <2>2
<1>7. ASSUME NEW t \in Tabs  PROVE PageForm(pg2[t]) /\ WorkHolds(pg2[t], t, ck2)
  <2>1. PageForm(pg[t]) /\ WorkHolds(pg[t], t, ck)
    BY DEF StateHolds
  <2>2. CASE t = p
    BY <1>1, <1>6, <2>2
  <2>3. CASE t # p
    <3>1. pg2[t] = pg[t] /\ Live(ck2, t) = Live(ck, t)
      BY <1>1, <1>4, <2>3
    <3>2. CASE pg[t].phase = "away"
      BY <1>3, <2>1, <2>3, <3>1, <3>2 DEF WorkHolds
    <3>3. CASE pg[t].phase # "away"
      BY <1>3, <2>1, <3>1, <3>3, WorkKept
    <3> QED  BY <3>2, <3>3
  <2> QED  BY <2>2, <2>3
<1>8. ASSUME NEW k \in Photos  PROVE CheckForm(ck2[k]) /\ TraceHolds(k, st, pg2, ck2)
  <2>1. TraceHolds(k, st, pg, ck)
    BY DEF StateHolds
  <2>2. \A j \in Photos : InHand(k, ck2[j]) => InHand(k, ck[j])
    BY <1>3
  <2>3. \A t \in Tabs : OnPage(k, pg2[t]) => OnPage(k, pg[t])
    BY <1>1
  <2>4. TraceHolds(k, st, pg2, ck2)
    BY <1>3, <2>1, <2>2, <2>3, TraceKept
  <2> QED  BY <1>3, <2>4
<1> QED  BY <1>1, <1>2, <1>7, <1>8 DEF StateHolds, pg2

\* The tab is reloaded: what it had not committed ends.
LEMMA ReloadStep ==
  ASSUME NEW st, NEW pg, NEW ck, StateHolds(st, pg, ck), NEW p \in Tabs, NEW ck2,
         ck2 = [k \in Photos |->
                  IF Working(ck[k]) /\ ck[k].tab = p
                  THEN Done(IF ck[k].stage \in Early THEN "dropped" ELSE ck[k].fate)
                  ELSE ck[k]]
  PROVE  StateHolds(st, [pg EXCEPT ![p] = Away], ck2)
<1> DEFINE pg2 == [pg EXCEPT ![p] = Away]
<1>1. /\ pg2 = [t \in Tabs |-> pg2[t]] /\ pg2[p] = Away
      /\ \A t \in Tabs : t # p => pg2[t] = pg[t]
  BY DEF StateHolds
<1> HIDE DEF pg2
<1>2. ck2 = [k \in Photos |-> ck2[k]] /\ Away.phase = "away" /\ PageForm(Away)
  BY DEF Away, PageForm
<1>3. ASSUME NEW k \in Photos
      PROVE  /\ CheckForm(ck2[k])
             /\ Working(ck2[k]) => ck2[k] = ck[k] /\ ck[k].tab # p
             /\ Working(ck[k]) /\ ck[k].tab # p => ck2[k] = ck[k]
             /\ ck[k].stage # "idle" => ck2[k].stage # "idle"
             /\ \A j : InHand(j, ck2[k]) => InHand(j, ck[k])
             /\ Spotless(ck2[k]) => Spotless(ck[k])
             /\ ck2[k].stage \in {"ensuring", "upgrading"} =>
                  ck[k].stage \in {"ensuring", "upgrading"}
  <2>1. CheckForm(ck[k])
    BY DEF StateHolds
  <2>2. CASE Working(ck[k]) /\ ck[k].tab = p
    <3> DEFINE fate == IF ck[k].stage \in Early THEN "dropped" ELSE ck[k].fate
    <3>1. ck2[k] = Done(fate)
      BY <2>2
    <3>2. fate = "dropped" => Spotless(ck[k])
      BY DEF Early, Spotless
    <3> HIDE DEF fate
    <3>3. /\ ck2[k].stage = "done" /\ ~Working(ck2[k]) /\ CheckForm(ck2[k])
          /\ Spotless(ck2[k]) => fate = "dropped"
      BY <2>1, <3>1, CheckForms
    <3> QED  BY <2>2, <3>2, <3>3 DEF InHand
  <2>3. CASE ~(Working(ck[k]) /\ ck[k].tab = p)
    BY <2>1, <2>3
  <2> QED  BY <2>2, <2>3
<1>4. \A t \in Tabs : t # p => Live(ck2, t) = Live(ck, t)
  BY <1>3 DEF Live
<1>5. ASSUME NEW t \in Tabs  PROVE PageForm(pg2[t]) /\ WorkHolds(pg2[t], t, ck2)
  <2>1. PageForm(pg[t]) /\ WorkHolds(pg[t], t, ck)
    BY DEF StateHolds
  <2>2. CASE t = p
    BY <1>1, <1>2, <1>3, <2>2 DEF WorkHolds
  <2>3. CASE t # p
    <3>1. pg2[t] = pg[t] /\ Live(ck2, t) = Live(ck, t)
      BY <1>1, <1>4, <2>3
    <3>2. CASE pg[t].phase = "away"
      BY <1>3, <2>1, <2>3, <3>1, <3>2 DEF WorkHolds
    <3>3. CASE pg[t].phase # "away"
      BY <1>3, <2>1, <3>1, <3>3, WorkKept
    <3> QED  BY <3>2, <3>3
  <2> QED  BY <2>2, <2>3
<1>6. ASSUME NEW k \in Photos  PROVE CheckForm(ck2[k]) /\ TraceHolds(k, st, pg2, ck2)
  <2>1. TraceHolds(k, st, pg, ck)
    BY DEF StateHolds
  <2>2. \A j \in Photos : InHand(k, ck2[j]) => InHand(k, ck[j])
    BY <1>3
  <2>3. \A t \in Tabs : OnPage(k, pg2[t]) => OnPage(k, pg[t])
    BY <1>1, <1>2 DEF OnPage
  <2>4. TraceHolds(k, st, pg2, ck2)
    BY <1>3, <2>1, <2>2, <2>3, TraceKept
  <2> QED  BY <1>3, <2>4
<1> QED  BY <1>1, <1>2, <1>5, <1>6 DEF StateHolds, pg2

\* The page is opened: no operation of the tab has outlived the last one as mounted.
LEMMA MountStep ==
  ASSUME NEW st, NEW pg, NEW ck, StateHolds(st, pg, ck), NEW p \in Tabs, pg[p].phase = "away"
  PROVE  StateHolds(st, [pg EXCEPT ![p] = Mounted], ck)
<1> DEFINE pg2 == [pg EXCEPT ![p] = Mounted]
<1>1. /\ pg2 = [t \in Tabs |-> pg2[t]] /\ pg2[p] = Mounted
      /\ \A t \in Tabs : t # p => pg2[t] = pg[t]
  BY DEF StateHolds
<1> HIDE DEF pg2
<1>2. MountedForm(Mounted)
  BY StoreAssumption DEF Mounted, MountedForm, Fields, StoreAssumption, References
<1>3. /\ PageForm(Mounted) /\ Mounted.phase # "away" /\ ~Mounted.busy
      /\ Mounted.latest \notin Photos /\ Mounted.held = None
      /\ \A k \in Photos : ~OnPage(k, Mounted)
  BY <1>2, Numbers DEF Mounted, PageForm, OnPage
<1>4. Live(ck, p) = {}
  BY DEF Live, StateHolds, WorkHolds
<1>5. WorkHolds(Mounted, p, ck)
  BY <1>3, <1>4 DEF WorkHolds
<1>6. \A t \in Tabs : PageForm(pg2[t]) /\ WorkHolds(pg2[t], t, ck)
  BY <1>1, <1>3, <1>5 DEF StateHolds
<1>7. ASSUME NEW k \in Photos  PROVE CheckForm(ck[k]) /\ TraceHolds(k, st, pg2, ck)
  <2>1. CheckForm(ck[k]) /\ TraceHolds(k, st, pg, ck)
    BY DEF StateHolds
  <2>2. \A t \in Tabs : OnPage(k, pg2[t]) => OnPage(k, pg[t])
    BY <1>1, <1>3
  <2> QED  BY <2>1, <2>2, TraceKept
<1> QED  BY <1>1, <1>6, <1>7 DEF StateHolds, pg2

--------------------------------------------------------------------------------
(* The actions on a page.                                                   *)

\* A page that keeps its lock and shows no photo it did not show or the database has.
Redrawn(q, q2, st) ==
  /\ MountedForm(q2)
  /\ q2.busy = q.busy /\ q2.latest = q.latest /\ q2.held = q.held
  /\ \A k \in Photos : OnPage(k, q2) => OnPage(k, q) \/ InStores(k, st)

LEMMA Redraw ==
  ASSUME StateHolds(stores, page, checks), NEW p \in Tabs, Here(p),
         Redrawn(page[p], page'[p], stores), page' = [page EXCEPT ![p] = page'[p]],
         UNCHANGED <<stores, checks>>
  PROVE  StateHolds(stores', page', checks')
<1>1. PICK q : q = page'[p]
  OBVIOUS
<1>2. page' = [page EXCEPT ![p] = q] /\ Redrawn(page[p], q, stores) /\ page[p].phase # "away"
  BY <1>1 DEF Here
<1>3. StateHolds(stores, [page EXCEPT ![p] = q], checks)
  BY <1>2, PageStep DEF Redrawn
<1> QED  BY <1>2, <1>3

\* A transaction that writes no photo and no version, and a redrawn page.
LEMMA RedrawStored ==
  ASSUME StateHolds(stores, page, checks), NEW p \in Tabs, Here(p),
         Redrawn(page[p], page'[p], stores), page' = [page EXCEPT ![p] = page'[p]],
         UNCHANGED checks,
         StoreForm(stores'), stores'.versions = stores.versions,
         \A k \in Photos : InStores(k, stores') => InStores(k, stores)
  PROVE  StateHolds(stores', page', checks')
<1>1. PICK q, st : q = page'[p] /\ st = stores'
  OBVIOUS
<1>2. /\ page' = [page EXCEPT ![p] = q] /\ Redrawn(page[p], q, stores) /\ page[p].phase # "away"
      /\ StoreForm(st) /\ st.versions \subseteq stores.versions
      /\ \A k \in Photos : InStores(k, st) => InStores(k, stores)
  BY <1>1 DEF Here
<1>3. PICK pg : pg = [page EXCEPT ![p] = q]
  OBVIOUS
<1>4. StateHolds(stores, pg, checks)
  BY <1>2, <1>3, PageStep DEF Redrawn
<1>5. StateHolds(st, pg, checks)
  BY <1>2, <1>4, StoreStep
<1> QED  BY <1>1, <1>2, <1>3, <1>5

\* The fields that the user's moves change.
LEMMA RedrawnFields ==
  ASSUME NEW st, NEW q, MountedForm(q), NEW q2, DOMAIN q2 = Fields,
         q2.phase \in Viewfinder \cup {"loading", "analyzing", "result", "error"},
         q2.area \in q2.listed, q2.listed \subseteq Areas,
         q2.reference \in References, q2.report \in {None, q.report},
         q2.busy = q.busy, q2.latest = q.latest, q2.held = q.held,
         q2.intent \in {None, "baseline", "current"},
         q2.opening = "reference" => Opening(q2.opened),
         q2.selecting # None => Selection(q2.selecting),
         q2.adding # None => q2.adding \in Areas,
         \A k \in Photos : q2.reference = k \/ (q2.selecting # None /\ q2.selecting.previous = k)
                           => OnPage(k, q) \/ InStores(k, st)
  PROVE  Redrawn(q, q2, st)
<1>1. MountedForm(q2)
  BY DEF MountedForm, References
<1>2. \A k \in Photos : OnPage(k, q2) => OnPage(k, q) \/ InStores(k, st)
  <2>1. q.phase # "away" /\ None \notin Photos
    BY Forms, Numbers DEF PageForm
  <2> QED  BY <2>1 DEF OnPage
<1> QED  BY <1>1, <1>2 DEF Redrawn

LEMMA Resting ==
  ASSUME NEW reference
  PROVE  Rest(reference) \in Viewfinder
BY DEF Rest, Viewfinder

LEMMA MountedHere ==
  ASSUME StateHolds(stores, page, checks), NEW p \in Tabs, Here(p)
  PROVE  /\ MountedForm(page[p]) /\ page = [t \in Tabs |-> page[t]]
         /\ \A k \in Photos : /\ page[p].reference = k => OnPage(k, page[p])
                              /\ page[p].selecting # None /\ page[p].selecting.previous = k
                                   => OnPage(k, page[p])
<1>1. PageForm(page[p]) /\ page = [t \in Tabs |-> page[t]]
  BY DEF StateHolds
<1> QED  BY <1>1, Forms DEF Here, OnPage

\* The moves of the user that only redraw the page.
LEMMA UserRedraws ==
  ASSUME StateHolds(stores, page, checks), NEW p \in Tabs,
         \/ OpenPicker(p) \/ Retake(p) \/ BeginReplacement(p) \/ CancelReplacement(p)
         \/ \E a \in Areas : SelectArea(p, a) \/ AddArea(p, a)
         \/ Translate(p)
  PROVE  StateHolds(stores', page', checks')
<1> USE DEF Fields
<1>1. CASE OpenPicker(p)
  <2>1. Here(p) /\ UNCHANGED <<stores, checks>>
    BY <1>1 DEF OpenPicker, SetPage, Here
  <2>2. MountedForm(page[p]) /\ page = [t \in Tabs |-> page[t]]
    BY <2>1, MountedHere
  <2> DEFINE q == [page[p] EXCEPT !.intent = PurposeOf(p)]
  <2>3. page' = [page EXCEPT ![p] = q]
    BY <1>1 DEF OpenPicker, SetPage
  <2>4. page'[p] = q
    BY <2>2, <2>3
  <2>5. PurposeOf(p) \in {"baseline", "current"}
    BY DEF PurposeOf
  <2>6. /\ DOMAIN q = Fields
        /\ q.phase = page[p].phase /\ q.area = page[p].area /\ q.listed = page[p].listed
        /\ q.reference = page[p].reference /\ q.busy = page[p].busy
        /\ q.latest = page[p].latest
        /\ q.held = page[p].held /\ q.report = page[p].report /\ q.intent = PurposeOf(p)
        /\ q.opening = page[p].opening /\ q.opened = page[p].opened
        /\ q.selecting = page[p].selecting
        /\ q.adding = page[p].adding
    BY <2>2 DEF MountedForm
  <2>7. MountedForm(page[p]) /\ \A k \in Photos :
           q.reference = k \/ (q.selecting # None /\ q.selecting.previous = k) => OnPage(k, page[p])
    BY <2>1, <2>2, <2>6, MountedHere
  <2> HIDE DEF q
  <2>8. Redrawn(page[p], q, stores)
    BY <2>6, <2>7, <2>5, RedrawnFields DEF MountedForm, Viewfinder
  <2> QED  BY <2>1, <2>3, <2>4, <2>8, Redraw
<1>2. CASE Retake(p)
  <2>1. Here(p) /\ UNCHANGED <<stores, checks>>
    BY <1>2 DEF Retake, SetPage, Here
  <2>2. MountedForm(page[p]) /\ page = [t \in Tabs |-> page[t]]
    BY <2>1, MountedHere
  <2> DEFINE q == [page[p] EXCEPT !.intent = None, !.report = None,
                                  !.phase = Rest(page[p].reference)]
  <2>3. page' = [page EXCEPT ![p] = q]
    BY <1>2 DEF Retake, SetPage
  <2>4. page'[p] = q
    BY <2>2, <2>3
  <2>5. /\ DOMAIN q = Fields
        /\ q.phase = Rest(page[p].reference) /\ q.area = page[p].area
        /\ q.listed = page[p].listed
        /\ q.reference = page[p].reference /\ q.busy = page[p].busy
        /\ q.latest = page[p].latest
        /\ q.held = page[p].held /\ q.report = None /\ q.intent = None
        /\ q.opening = page[p].opening /\ q.opened = page[p].opened
        /\ q.selecting = page[p].selecting
        /\ q.adding = page[p].adding
    BY <2>2 DEF MountedForm
  <2>6. MountedForm(page[p]) /\ \A k \in Photos :
           q.reference = k \/ (q.selecting # None /\ q.selecting.previous = k) => OnPage(k, page[p])
    BY <2>1, <2>2, <2>5, MountedHere
  <2> HIDE DEF q
  <2>7. Redrawn(page[p], q, stores)
    BY <2>5, <2>6, Resting, RedrawnFields DEF MountedForm, Viewfinder
  <2> QED  BY <2>1, <2>3, <2>4, <2>7, Redraw
<1>3. CASE BeginReplacement(p)
  <2>1. Here(p) /\ UNCHANGED <<stores, checks>>
    BY <1>3 DEF BeginReplacement, SetPage, Here
  <2>2. MountedForm(page[p]) /\ page = [t \in Tabs |-> page[t]]
    BY <2>1, MountedHere
  <2> DEFINE q == [page[p] EXCEPT !.intent = None, !.report = None, !.phase = "baseline"]
  <2>3. page' = [page EXCEPT ![p] = q]
    BY <1>3 DEF BeginReplacement, SetPage
  <2>4. page'[p] = q
    BY <2>2, <2>3
  <2>5. /\ DOMAIN q = Fields
        /\ q.phase = "baseline" /\ q.area = page[p].area /\ q.listed = page[p].listed
        /\ q.reference = page[p].reference /\ q.busy = page[p].busy
        /\ q.latest = page[p].latest
        /\ q.held = page[p].held /\ q.report = None /\ q.intent = None
        /\ q.opening = page[p].opening /\ q.opened = page[p].opened
        /\ q.selecting = page[p].selecting
        /\ q.adding = page[p].adding
    BY <2>2 DEF MountedForm
  <2>6. MountedForm(page[p]) /\ \A k \in Photos :
           q.reference = k \/ (q.selecting # None /\ q.selecting.previous = k) => OnPage(k, page[p])
    BY <2>1, <2>2, <2>5, MountedHere
  <2> HIDE DEF q
  <2>7. Redrawn(page[p], q, stores)
    BY <2>5, <2>6, RedrawnFields DEF MountedForm, Viewfinder
  <2> QED  BY <2>1, <2>3, <2>4, <2>7, Redraw
<1>4. CASE CancelReplacement(p)
  <2>1. Here(p) /\ UNCHANGED <<stores, checks>>
    BY <1>4 DEF CancelReplacement, SetPage, Here
  <2>2. MountedForm(page[p]) /\ page = [t \in Tabs |-> page[t]]
    BY <2>1, MountedHere
  <2> DEFINE q == [page[p] EXCEPT !.intent = None, !.report = None, !.phase = "camera"]
  <2>3. page' = [page EXCEPT ![p] = q]
    BY <1>4 DEF CancelReplacement, SetPage
  <2>4. page'[p] = q
    BY <2>2, <2>3
  <2>5. /\ DOMAIN q = Fields
        /\ q.phase = "camera" /\ q.area = page[p].area /\ q.listed = page[p].listed
        /\ q.reference = page[p].reference /\ q.busy = page[p].busy
        /\ q.latest = page[p].latest
        /\ q.held = page[p].held /\ q.report = None /\ q.intent = None
        /\ q.opening = page[p].opening /\ q.opened = page[p].opened
        /\ q.selecting = page[p].selecting
        /\ q.adding = page[p].adding
    BY <2>2 DEF MountedForm
  <2>6. MountedForm(page[p]) /\ \A k \in Photos :
           q.reference = k \/ (q.selecting # None /\ q.selecting.previous = k) => OnPage(k, page[p])
    BY <2>1, <2>2, <2>5, MountedHere
  <2> HIDE DEF q
  <2>7. Redrawn(page[p], q, stores)
    BY <2>5, <2>6, RedrawnFields DEF MountedForm, Viewfinder
  <2> QED  BY <2>1, <2>3, <2>4, <2>7, Redraw
<1>5. ASSUME NEW a \in Areas, SelectArea(p, a)  PROVE StateHolds(stores', page', checks')
  <2>1. Here(p) /\ UNCHANGED <<stores, checks>>
    BY <1>5 DEF SelectArea, Loading, Here
  <2>2. MountedForm(page[p]) /\ page = [t \in Tabs |-> page[t]]
    BY <2>1, MountedHere
  <2> DEFINE s == [area |-> a, stored |-> FALSE, previous |-> page[p].reference]
             q == [[page[p] EXCEPT !.selecting = s]
                     EXCEPT !.intent = None, !.report = None, !.phase = "loading"]
  <2>3. page' = [page EXCEPT ![p] = q]
    BY <1>5 DEF SelectArea, Loading
  <2>4. page'[p] = q
    BY <2>2, <2>3
  <2>5. Selection(s) /\ s.previous = page[p].reference
    BY <2>2 DEF Selection, MountedForm
  <2> HIDE DEF s
  <2>6. /\ DOMAIN q = Fields
        /\ q.phase = "loading" /\ q.area = page[p].area /\ q.listed = page[p].listed
        /\ q.reference = page[p].reference /\ q.busy = page[p].busy
        /\ q.latest = page[p].latest
        /\ q.held = page[p].held /\ q.report = None /\ q.intent = None
        /\ q.opening = page[p].opening /\ q.opened = page[p].opened /\ q.selecting = s
        /\ q.adding = page[p].adding
    BY <2>2 DEF MountedForm
  <2>7. MountedForm(page[p]) /\ \A k \in Photos :
           q.reference = k \/ (q.selecting # None /\ q.selecting.previous = k) => OnPage(k, page[p])
    BY <2>1, <2>2, <2>5, <2>6, MountedHere
  <2> HIDE DEF q
  <2>8. Redrawn(page[p], q, stores)
    BY <2>6, <2>7, <2>5, RedrawnFields DEF MountedForm, Viewfinder
  <2> QED  BY <2>1, <2>3, <2>4, <2>8, Redraw
<1>6. ASSUME NEW a \in Areas, AddArea(p, a)  PROVE StateHolds(stores', page', checks')
  <2>1. Here(p) /\ UNCHANGED <<stores, checks>>
    BY <1>6 DEF AddArea, Loading, Here
  <2>2. MountedForm(page[p]) /\ page = [t \in Tabs |-> page[t]]
    BY <2>1, MountedHere
  <2> DEFINE q == [[page[p] EXCEPT !.adding = a]
                     EXCEPT !.intent = None, !.report = None, !.phase = "loading"]
  <2>3. page' = [page EXCEPT ![p] = q]
    BY <1>6 DEF AddArea, Loading
  <2>4. page'[p] = q
    BY <2>2, <2>3
  <2>5. /\ DOMAIN q = Fields
        /\ q.phase = "loading" /\ q.area = page[p].area /\ q.listed = page[p].listed
        /\ q.reference = page[p].reference /\ q.busy = page[p].busy
        /\ q.latest = page[p].latest
        /\ q.held = page[p].held /\ q.report = None /\ q.intent = None
        /\ q.opening = page[p].opening /\ q.opened = page[p].opened
        /\ q.selecting = page[p].selecting
        /\ q.adding = a
    BY <2>2 DEF MountedForm
  <2>6. MountedForm(page[p]) /\ \A k \in Photos :
           q.reference = k \/ (q.selecting # None /\ q.selecting.previous = k) => OnPage(k, page[p])
    BY <2>1, <2>2, <2>5, MountedHere
  <2> HIDE DEF q
  <2>7. Redrawn(page[p], q, stores)
    BY <2>5, <2>6, RedrawnFields DEF MountedForm, Viewfinder
  <2> QED  BY <2>1, <2>3, <2>4, <2>7, Redraw
<1>7. CASE Translate(p)
  <2>1. Here(p) /\ UNCHANGED <<stores, checks>>
    BY <1>7 DEF Translate
  <2>2. MountedForm(page[p]) /\ page = [t \in Tabs |-> page[t]]
    BY <2>1, MountedHere
  <2> DEFINE q == [page[p] EXCEPT !.opening = "workspace", !.opened = None]
  <2>3. page' = [page EXCEPT ![p] = q]
    BY <1>7, <2>2 DEF Translate
  <2>4. page'[p] = q
    BY <2>2, <2>3
  <2>5. /\ DOMAIN q = Fields
        /\ q.phase = page[p].phase /\ q.area = page[p].area /\ q.listed = page[p].listed
        /\ q.reference = page[p].reference /\ q.busy = page[p].busy
        /\ q.latest = page[p].latest
        /\ q.held = page[p].held /\ q.report = page[p].report /\ q.intent = page[p].intent
        /\ q.opening = "workspace" /\ q.opened = None /\ q.selecting = page[p].selecting
        /\ q.adding = page[p].adding
    BY <2>2 DEF MountedForm
  <2>6. MountedForm(page[p]) /\ \A k \in Photos :
           q.reference = k \/ (q.selecting # None /\ q.selecting.previous = k) => OnPage(k, page[p])
    BY <2>1, <2>2, <2>5, MountedHere
  <2> HIDE DEF q
  <2>7. Redrawn(page[p], q, stores)
    BY <2>5, <2>6, RedrawnFields DEF MountedForm, Viewfinder
  <2> QED  BY <2>1, <2>3, <2>4, <2>7, Redraw
<1> QED  BY <1>1, <1>2, <1>3, <1>4, <1>5, <1>6, <1>7

\* A photo that the database gives for an area is in the database.
LEMMA Looked ==
  ASSUME NEW st, StoreForm(st), NEW a \in Areas
  PROVE  /\ PhotoOf(st, a) \in References
         /\ \A k \in Photos : PhotoOf(st, a) = k => InStores(k, st)
BY DEF StoreForm, InStores

\* What the page loads: the workspace, an area, an added area.
LEMMA LoadMoves ==
  ASSUME StateHolds(stores, page, checks), NEW p \in Tabs, Load(p)
  PROVE  StateHolds(stores', page', checks')
<1> USE DEF Fields
<1>1. CASE OpenWorkspace(p)
  <2>1. Here(p) /\ UNCHANGED checks
    BY <1>1 DEF OpenWorkspace
  <2>2. MountedForm(page[p]) /\ page = [t \in Tabs |-> page[t]] /\ StoreForm(stores)
    BY <2>1, MountedHere DEF StateHolds
  <2>3. PICK opened \in Workspaces(stores) :
          /\ stores' = opened
          /\ page' = [page EXCEPT ![p].opening = "reference",
                                  ![p].opened = [area |-> opened.active, listed |-> opened.areas]]
    BY <1>1 DEF OpenWorkspace
  <2> DEFINE o == [area |-> opened.active, listed |-> opened.areas]
             q == [page[p] EXCEPT !.opening = "reference", !.opened = o]
  <2>4. /\ StoreForm(stores') /\ stores'.versions = stores.versions
        /\ \A k \in Photos : InStores(k, stores') => InStores(k, stores)
        /\ opened.active \in opened.areas /\ opened.areas \subseteq Areas
    BY <2>2, <2>3, AreasWritten DEF StoreForm
  <2>5. page' = [page EXCEPT ![p] = q]
    BY <2>2, <2>3
  <2>6. page'[p] = q
    BY <2>2, <2>5
  <2>7. Opening(o)
    BY <2>4 DEF Opening
  <2> HIDE DEF o
  <2>8. /\ DOMAIN q = Fields
        /\ q.phase = page[p].phase /\ q.area = page[p].area /\ q.listed = page[p].listed
        /\ q.reference = page[p].reference /\ q.busy = page[p].busy
        /\ q.latest = page[p].latest
        /\ q.held = page[p].held /\ q.report = page[p].report /\ q.intent = page[p].intent
        /\ q.opening = "reference" /\ q.opened = o /\ q.selecting = page[p].selecting
        /\ q.adding = page[p].adding
    BY <2>2 DEF MountedForm
  <2> HIDE DEF q
  <2>9. \A k \in Photos :
           q.reference = k \/ (q.selecting # None /\ q.selecting.previous = k)
             => OnPage(k, page[p]) \/ InStores(k, stores)
    BY <2>1, <2>2, <2>8, MountedHere
  <2>10. Redrawn(page[p], q, stores)
    BY <2>2, <2>7, <2>8, <2>9, RedrawnFields DEF MountedForm
  <2> QED  BY <2>1, <2>4, <2>5, <2>6, <2>10, RedrawStored
<1>2. CASE ShowWorkspace(p)
  <2>1. Here(p) /\ UNCHANGED <<stores, checks>>
    BY <1>2 DEF ShowWorkspace, SetPage
  <2>2. MountedForm(page[p]) /\ page = [t \in Tabs |-> page[t]] /\ StoreForm(stores)
    BY <2>1, MountedHere DEF StateHolds
  <2>3. page[p].opened.area \in page[p].opened.listed /\ page[p].opened.listed \subseteq Areas
    BY <1>2, <2>2 DEF ShowWorkspace, MountedForm, Opening
  <2>4. /\ PhotoOf(stores, page[p].opened.area) \in References
        /\ \A k \in Photos : PhotoOf(stores, page[p].opened.area) = k => InStores(k, stores)
    BY <2>2, <2>3, Looked
  <2> DEFINE q == [Showing(page[p], page[p].opened.area, PhotoOf(stores, page[p].opened.area))
                  EXCEPT !.listed = page[p].opened.listed, !.opening = "done", !.opened = None]
  <2>5. page' = [page EXCEPT ![p] = q]
    BY <1>2, <2>2 DEF ShowWorkspace, SetPage, Showing
  <2>6. page'[p] = q
    BY <2>2, <2>5
  <2>7. /\ DOMAIN q = Fields
        /\ q.phase = Rest(PhotoOf(stores, page[p].opened.area))
        /\ q.area = page[p].opened.area /\ q.listed = page[p].opened.listed
        /\ q.reference = PhotoOf(stores, page[p].opened.area) /\ q.busy = page[p].busy
        /\ q.latest = page[p].latest
        /\ q.held = page[p].held /\ q.report = page[p].report /\ q.intent = page[p].intent
        /\ q.opening = "done" /\ q.opened = None /\ q.selecting = page[p].selecting
        /\ q.adding = page[p].adding
    BY <2>2 DEF MountedForm, Showing
  <2> HIDE DEF q
  <2>8. \A k \in Photos :
           q.reference = k \/ (q.selecting # None /\ q.selecting.previous = k)
             => OnPage(k, page[p]) \/ InStores(k, stores)
    BY <2>1, <2>2, <2>3, <2>4, <2>7, MountedHere
  <2>9. Redrawn(page[p], q, stores)
    BY <2>2, <2>3, <2>4, <2>7, <2>8, Resting, RedrawnFields DEF MountedForm, Viewfinder
  <2> QED  BY <2>1, <2>5, <2>6, <2>9, Redraw
<1>3. CASE OpeningFails(p)
  <2>1. Here(p) /\ UNCHANGED <<stores, checks>>
    BY <1>3 DEF OpeningFails, SetPage
  <2>2. MountedForm(page[p]) /\ page = [t \in Tabs |-> page[t]] /\ StoreForm(stores)
    BY <2>1, MountedHere DEF StateHolds
  <2> DEFINE q == [page[p] EXCEPT !.phase = "baseline", !.opening = "done", !.opened = None]
  <2>3. page' = [page EXCEPT ![p] = q]
    BY <1>3, <2>2 DEF OpeningFails, SetPage
  <2>4. page'[p] = q
    BY <2>2, <2>3
  <2>5. /\ DOMAIN q = Fields
        /\ q.phase = "baseline" /\ q.area = page[p].area /\ q.listed = page[p].listed
        /\ q.reference = page[p].reference /\ q.busy = page[p].busy
        /\ q.latest = page[p].latest
        /\ q.held = page[p].held /\ q.report = page[p].report /\ q.intent = page[p].intent
        /\ q.opening = "done" /\ q.opened = None /\ q.selecting = page[p].selecting
        /\ q.adding = page[p].adding
    BY <2>2 DEF MountedForm
  <2> HIDE DEF q
  <2>6. \A k \in Photos :
           q.reference = k \/ (q.selecting # None /\ q.selecting.previous = k)
             => OnPage(k, page[p]) \/ InStores(k, stores)
    BY <2>1, <2>2, <2>5, MountedHere
  <2>7. Redrawn(page[p], q, stores)
    BY <2>2, <2>5, <2>6, Resting, RedrawnFields DEF MountedForm, Viewfinder
  <2> QED  BY <2>1, <2>3, <2>4, <2>7, Redraw
<1>4. CASE StoreSelection(p)
  <2>1. Here(p) /\ UNCHANGED checks
    BY <1>4 DEF StoreSelection, SetPage
  <2>2. MountedForm(page[p]) /\ page = [t \in Tabs |-> page[t]] /\ StoreForm(stores)
    BY <2>1, MountedHere DEF StateHolds
  <2>3. page[p].selecting # None /\ Selection(page[p].selecting)
    BY <1>4, <2>2 DEF StoreSelection, MountedForm
  <2> DEFINE q == [page[p] EXCEPT !.selecting = [page[p].selecting EXCEPT !.stored = TRUE]]
  <2>4. page' = [page EXCEPT ![p] = q]
    BY <1>4, <2>2 DEF StoreSelection, SetPage
  <2>5. page'[p] = q
    BY <2>2, <2>4
  <2>6. /\ DOMAIN q = Fields
        /\ q.phase = page[p].phase /\ q.area = page[p].area /\ q.listed = page[p].listed
        /\ q.reference = page[p].reference /\ q.busy = page[p].busy
        /\ q.latest = page[p].latest
        /\ q.held = page[p].held /\ q.report = page[p].report /\ q.intent = page[p].intent
        /\ q.opening = page[p].opening /\ q.opened = page[p].opened
        /\ q.selecting = [page[p].selecting EXCEPT !.stored = TRUE]
        /\ q.adding = page[p].adding
    BY <2>2 DEF MountedForm
  <2> HIDE DEF q
  <2>7. \A k \in Photos :
           q.reference = k \/ (q.selecting # None /\ q.selecting.previous = k)
             => OnPage(k, page[p]) \/ InStores(k, stores)
    BY <2>1, <2>2, <2>3, <2>6, MountedHere
  <2>8. Selection([page[p].selecting EXCEPT !.stored = TRUE])
    BY <2>3 DEF Selection
  <2>9. Redrawn(page[p], q, stores)
    BY <2>2, <2>3, <2>6, <2>7, <2>8, RedrawnFields DEF MountedForm, Viewfinder
  <2>10. /\ StoreForm(stores') /\ stores'.versions = stores.versions
        /\ \A k \in Photos : InStores(k, stores') => InStores(k, stores)
    BY <1>4, <2>2, <2>3, AreasWritten DEF StoreSelection, Selection
  <2> QED  BY <2>1, <2>4, <2>5, <2>9, <2>10, RedrawStored
<1>5. CASE ShowSelection(p)
  <2>1. Here(p) /\ UNCHANGED <<stores, checks>>
    BY <1>5 DEF ShowSelection, SetPage
  <2>2. MountedForm(page[p]) /\ page = [t \in Tabs |-> page[t]] /\ StoreForm(stores)
    BY <2>1, MountedHere DEF StateHolds
  <2>3. page[p].selecting.area \in Areas
    BY <1>5, <2>2 DEF ShowSelection, MountedForm, Selection
  <2>4. /\ PhotoOf(stores, page[p].selecting.area) \in References
        /\ \A k \in Photos : PhotoOf(stores, page[p].selecting.area) = k => InStores(k, stores)
    BY <2>2, <2>3, Looked
  <2> DEFINE q == [Showing(page[p], page[p].selecting.area, PhotoOf(stores, page[p].selecting.area))
                  EXCEPT !.selecting = None]
  <2>5. page' = [page EXCEPT ![p] = q]
    BY <1>5, <2>2 DEF ShowSelection, SetPage, Showing
  <2>6. page'[p] = q
    BY <2>2, <2>5
  <2>7. /\ DOMAIN q = Fields
        /\ q.phase = Rest(PhotoOf(stores, page[p].selecting.area))
        /\ q.area = page[p].selecting.area
        /\ q.listed = page[p].listed \cup {page[p].selecting.area}
        /\ q.reference = PhotoOf(stores, page[p].selecting.area) /\ q.busy = page[p].busy
        /\ q.latest = page[p].latest
        /\ q.held = page[p].held /\ q.report = page[p].report /\ q.intent = page[p].intent
        /\ q.opening = page[p].opening /\ q.opened = page[p].opened /\ q.selecting = None
        /\ q.adding = page[p].adding
    BY <2>2 DEF MountedForm, Showing
  <2> HIDE DEF q
  <2>8. \A k \in Photos :
           q.reference = k \/ (q.selecting # None /\ q.selecting.previous = k)
             => OnPage(k, page[p]) \/ InStores(k, stores)
    BY <2>1, <2>2, <2>3, <2>4, <2>7, MountedHere
  <2>9. Redrawn(page[p], q, stores)
    BY <2>2, <2>3, <2>4, <2>7, <2>8, Resting, RedrawnFields DEF MountedForm, Viewfinder
  <2> QED  BY <2>1, <2>5, <2>6, <2>9, Redraw
<1>6. CASE SelectionFails(p)
  <2>1. Here(p) /\ UNCHANGED <<stores, checks>>
    BY <1>6 DEF SelectionFails, SetPage
  <2>2. MountedForm(page[p]) /\ page = [t \in Tabs |-> page[t]] /\ StoreForm(stores)
    BY <2>1, MountedHere DEF StateHolds
  <2>3. page[p].selecting # None /\ page[p].selecting.previous \in References
    BY <1>6, <2>2 DEF SelectionFails, MountedForm, Selection
  <2> DEFINE q == [page[p] EXCEPT !.reference = page[p].selecting.previous, !.selecting = None,
                              !.phase = Rest(page[p].selecting.previous)]
  <2>4. page' = [page EXCEPT ![p] = q]
    BY <1>6, <2>2 DEF SelectionFails, SetPage
  <2>5. page'[p] = q
    BY <2>2, <2>4
  <2>6. /\ DOMAIN q = Fields
        /\ q.phase = Rest(page[p].selecting.previous) /\ q.area = page[p].area
        /\ q.listed = page[p].listed
        /\ q.reference = page[p].selecting.previous /\ q.busy = page[p].busy
        /\ q.latest = page[p].latest
        /\ q.held = page[p].held /\ q.report = page[p].report /\ q.intent = page[p].intent
        /\ q.opening = page[p].opening /\ q.opened = page[p].opened /\ q.selecting = None
        /\ q.adding = page[p].adding
    BY <2>2 DEF MountedForm
  <2> HIDE DEF q
  <2>7. \A k \in Photos :
           q.reference = k \/ (q.selecting # None /\ q.selecting.previous = k)
             => OnPage(k, page[p]) \/ InStores(k, stores)
    BY <2>1, <2>2, <2>3, <2>6, MountedHere
  <2>8. Redrawn(page[p], q, stores)
    BY <2>2, <2>3, <2>6, <2>7, Resting, RedrawnFields DEF MountedForm, Viewfinder
  <2> QED  BY <2>1, <2>4, <2>5, <2>8, Redraw
<1>7. CASE AreaAdded(p)
  <2>1. Here(p) /\ UNCHANGED checks
    BY <1>7 DEF AreaAdded, SetPage
  <2>2. MountedForm(page[p]) /\ page = [t \in Tabs |-> page[t]] /\ StoreForm(stores)
    BY <2>1, MountedHere DEF StateHolds
  <2>3. page[p].adding \in Areas /\ None \in References /\ None \notin Photos
    BY <1>7, <2>2, Numbers DEF AreaAdded, MountedForm, References
  <2> DEFINE q == [Showing(page[p], page[p].adding, None) EXCEPT !.adding = None]
  <2>4. page' = [page EXCEPT ![p] = q]
    BY <1>7, <2>2 DEF AreaAdded, SetPage, Showing
  <2>5. page'[p] = q
    BY <2>2, <2>4
  <2>6. /\ DOMAIN q = Fields
        /\ q.phase = Rest(None) /\ q.area = page[p].adding
        /\ q.listed = page[p].listed \cup {page[p].adding}
        /\ q.reference = None /\ q.busy = page[p].busy /\ q.latest = page[p].latest
        /\ q.held = page[p].held /\ q.report = page[p].report /\ q.intent = page[p].intent
        /\ q.opening = page[p].opening /\ q.opened = page[p].opened
        /\ q.selecting = page[p].selecting
        /\ q.adding = None
    BY <2>2 DEF MountedForm, Showing
  <2> HIDE DEF q
  <2>7. \A k \in Photos :
           q.reference = k \/ (q.selecting # None /\ q.selecting.previous = k)
             => OnPage(k, page[p]) \/ InStores(k, stores)
    BY <2>1, <2>2, <2>3, <2>6, MountedHere
  <2>8. Redrawn(page[p], q, stores)
    BY <2>2, <2>3, <2>6, <2>7, Resting, RedrawnFields DEF MountedForm, Viewfinder
  <2>9. /\ StoreForm(stores') /\ stores'.versions = stores.versions
        /\ \A k \in Photos : InStores(k, stores') => InStores(k, stores)
    BY <1>7, <2>2, <2>3, AreasWritten DEF AreaAdded
  <2> QED  BY <2>1, <2>4, <2>5, <2>8, <2>9, RedrawStored
<1>8. CASE AdditionFails(p)
  <2>1. Here(p) /\ UNCHANGED <<stores, checks>>
    BY <1>8 DEF AdditionFails, SetPage
  <2>2. MountedForm(page[p]) /\ page = [t \in Tabs |-> page[t]] /\ StoreForm(stores)
    BY <2>1, MountedHere DEF StateHolds
  <2> DEFINE q == [page[p] EXCEPT !.adding = None, !.phase = Rest(page[p].reference)]
  <2>3. page' = [page EXCEPT ![p] = q]
    BY <1>8, <2>2 DEF AdditionFails, SetPage
  <2>4. page'[p] = q
    BY <2>2, <2>3
  <2>5. /\ DOMAIN q = Fields
        /\ q.phase = Rest(page[p].reference) /\ q.area = page[p].area
        /\ q.listed = page[p].listed
        /\ q.reference = page[p].reference /\ q.busy = page[p].busy
        /\ q.latest = page[p].latest
        /\ q.held = page[p].held /\ q.report = page[p].report /\ q.intent = page[p].intent
        /\ q.opening = page[p].opening /\ q.opened = page[p].opened
        /\ q.selecting = page[p].selecting
        /\ q.adding = None
    BY <2>2 DEF MountedForm
  <2> HIDE DEF q
  <2>6. \A k \in Photos :
           q.reference = k \/ (q.selecting # None /\ q.selecting.previous = k)
             => OnPage(k, page[p]) \/ InStores(k, stores)
    BY <2>1, <2>2, <2>5, MountedHere
  <2>7. Redrawn(page[p], q, stores)
    BY <2>2, <2>5, <2>6, Resting, RedrawnFields DEF MountedForm, Viewfinder
  <2> QED  BY <2>1, <2>3, <2>4, <2>7, Redraw
<1> QED  BY <1>1, <1>2, <1>3, <1>4, <1>5, <1>6, <1>7, <1>8 DEF Load

--------------------------------------------------------------------------------
(* The actions of an operation.                                             *)

\* The end of an operation that also redraws its page: it may show the operation's own
\* photo once that is no secret.
LEMMA EndRedrawn ==
  ASSUME NEW st, NEW pg, NEW ck, StateHolds(st, pg, ck),
         NEW n \in Photos, Working(ck[n]), NEW p, p = ck[n].tab, NEW q,
         ck[n].mounted =>
           /\ MountedForm(q)
           /\ q.busy = pg[p].busy /\ q.latest = pg[p].latest /\ q.held = pg[p].held
           /\ \A k \in Photos : Spotless(ck[k]) /\ OnPage(k, q) =>
                                  OnPage(k, pg[p]) \/ InStores(k, st)
  PROVE  StateHolds(st, IF ck[n].mounted THEN [pg EXCEPT ![p] = Finished(q, n)] ELSE pg,
                    [ck EXCEPT ![n] = Done(ck[n].fate)])
<1>1. p \in Tabs /\ (ck[n].mounted => pg[p].phase # "away") /\ pg = [t \in Tabs |-> pg[t]]
  BY Locked DEF StateHolds
<1>2. CASE ~ck[n].mounted
  BY <1>2, EndStep
<1>3. CASE ck[n].mounted
  <2>1. PICK pg1 : pg1 = [pg EXCEPT ![p] = q]
    OBVIOUS
  <2>2. StateHolds(st, pg1, ck)
    BY <1>1, <1>3, <2>1, PageStep
  <2>3. StateHolds(st, [pg1 EXCEPT ![p] = Finished(pg1[p], n)], [ck EXCEPT ![n] = Done(ck[n].fate)])
    BY <1>3, <2>2, EndStep
  <2>4. pg1[p] = q
    BY <1>1, <2>1
  <2>5. [pg1 EXCEPT ![p] = Finished(q, n)] = [pg EXCEPT ![p] = Finished(q, n)]
    BY <1>1, <2>1
  <2> QED  BY <1>3, <2>3, <2>4, <2>5
<1> QED  BY <1>2, <1>3

LEMMA EndShown ==
  ASSUME NEW st, NEW pg, NEW ck, StateHolds(st, pg, ck),
         NEW n \in Photos, Working(ck[n]), ~Spotless(ck[n]), NEW p, p = ck[n].tab, NEW q,
         ck[n].mounted =>
           /\ MountedForm(q)
           /\ q.busy = pg[p].busy /\ q.latest = pg[p].latest /\ q.held = pg[p].held
           /\ \A k \in Photos : OnPage(k, q) => OnPage(k, pg[p]) \/ k = n
  PROVE  StateHolds(st, IF ck[n].mounted THEN [pg EXCEPT ![p] = Finished(q, n)] ELSE pg,
                    [ck EXCEPT ![n] = Done(ck[n].fate)])
<1>1. ck[n].mounted =>
           /\ MountedForm(q)
           /\ q.busy = pg[p].busy /\ q.latest = pg[p].latest /\ q.held = pg[p].held
           /\ \A k \in Photos : Spotless(ck[k]) /\ OnPage(k, q) =>
                                  OnPage(k, pg[p]) \/ InStores(k, st)
  OBVIOUS
<1> QED  BY <1>1, EndRedrawn

\* What the action says of the state where an operation ends.
LEMMA EndQuietly ==
  ASSUME StateHolds(stores, page, checks), NEW n \in Photos, Working(checks[n]),
         End(n, Quietly), UNCHANGED stores
  PROVE  StateHolds(stores', page', checks')
<1>1. PICK p : p = checks[n].tab
  OBVIOUS
<1>2. /\ checks' = [checks EXCEPT ![n] = Done(checks[n].fate)]
      /\ page' = IF checks[n].mounted
                 THEN [page EXCEPT ![p] = Finished(page[p], n)] ELSE page
  BY <1>1, Locked DEF End, Quietly, StateHolds
<1>3. StateHolds(stores, IF checks[n].mounted
                         THEN [page EXCEPT ![p] = Finished(page[p], n)] ELSE page,
                 [checks EXCEPT ![n] = Done(checks[n].fate)])
  BY <1>1, EndStep
<1> QED  BY <1>2, <1>3

\* A page that shows an error, or the result of operation n with this reference.
LEMMA Results ==
  ASSUME NEW q, MountedForm(q), NEW n \in Photos
  PROVE  /\ MountedForm(Refused(q)) /\ MountedForm(Concluded(n, q))
         /\ MountedForm(Concluded(n, [q EXCEPT !.reference = n]))
         /\ MountedForm([q EXCEPT !.reference = n, !.phase = "camera"])
         /\ \A r \in {Refused(q), Concluded(n, q), Concluded(n, [q EXCEPT !.reference = n]),
                      [q EXCEPT !.reference = n, !.phase = "camera"]} :
              /\ r.busy = q.busy /\ r.latest = q.latest /\ r.held = q.held
              /\ \A k \in Photos : OnPage(k, r) => OnPage(k, q) \/ k = n
         /\ \A k \in Photos : OnPage(k, Refused(q)) => OnPage(k, q)
<1>1. q.phase # "away" /\ n \in References
  BY Forms, Numbers DEF PageForm
<1>2. ASSUME NEW r, NEW reference \in {q.reference, n}, NEW report \in {q.report, n},
             NEW phase \in {"error", "result", "camera"},
             r = [q EXCEPT !.reference = reference, !.report = report, !.phase = phase]
      PROVE  /\ MountedForm(r)
             /\ r.busy = q.busy /\ r.latest = q.latest /\ r.held = q.held
             /\ \A k \in Photos : OnPage(k, r) => OnPage(k, q) \/ k = n
             /\ reference = q.reference /\ report = q.report =>
                  \A k \in Photos : OnPage(k, r) => OnPage(k, q)
  <2>1. /\ DOMAIN r = Fields
        /\ r.phase = phase /\ r.area = q.area /\ r.listed = q.listed
        /\ r.reference = reference /\ r.busy = q.busy /\ r.latest = q.latest
        /\ r.held = q.held /\ r.report = report /\ r.intent = q.intent
        /\ r.opening = q.opening /\ r.opened = q.opened /\ r.selecting = q.selecting
        /\ r.adding = q.adding
    BY <1>2 DEF MountedForm, Fields
  <2>2. MountedForm(r)
    BY <1>1, <2>1 DEF MountedForm, Viewfinder
  <2> QED  BY <1>1, <2>1, <2>2 DEF OnPage
<1>3. /\ Refused(q) = [q EXCEPT !.reference = q.reference, !.report = q.report, !.phase = "error"]
      /\ Concluded(n, q) = [q EXCEPT !.reference = q.reference, !.report = n, !.phase = "result"]
      /\ Concluded(n, [q EXCEPT !.reference = n]) =
           [q EXCEPT !.reference = n, !.report = n, !.phase = "result"]
      /\ [q EXCEPT !.reference = n, !.phase = "camera"] =
           [q EXCEPT !.reference = n, !.report = q.report, !.phase = "camera"]
  BY DEF MountedForm, Fields, Refused, Concluded
<1> DEFINE e == Refused(q)
           c == Concluded(n, q)
           d == Concluded(n, [q EXCEPT !.reference = n])
           s == [q EXCEPT !.reference = n, !.phase = "camera"]
<1> HIDE DEF e, c, d, s
<1>4. /\ MountedForm(e) /\ e.busy = q.busy /\ e.latest = q.latest /\ e.held = q.held
      /\ \A k \in Photos : OnPage(k, e) => OnPage(k, q)
  BY <1>2, <1>3 DEF e
<1>5. /\ MountedForm(c) /\ c.busy = q.busy /\ c.latest = q.latest /\ c.held = q.held
      /\ \A k \in Photos : OnPage(k, c) => OnPage(k, q) \/ k = n
  BY <1>2, <1>3 DEF c
<1>6. /\ MountedForm(d) /\ d.busy = q.busy /\ d.latest = q.latest /\ d.held = q.held
      /\ \A k \in Photos : OnPage(k, d) => OnPage(k, q) \/ k = n
  BY <1>2, <1>3 DEF d
<1>7. /\ MountedForm(s) /\ s.busy = q.busy /\ s.latest = q.latest /\ s.held = q.held
      /\ \A k \in Photos : OnPage(k, s) => OnPage(k, q) \/ k = n
  BY <1>2, <1>3 DEF s
<1>8. /\ MountedForm(e) /\ MountedForm(c) /\ MountedForm(d) /\ MountedForm(s)
      /\ \A r \in {e, c, d, s} :
              /\ r.busy = q.busy /\ r.latest = q.latest /\ r.held = q.held
              /\ \A k \in Photos : OnPage(k, r) => OnPage(k, q) \/ k = n
      /\ \A k \in Photos : OnPage(k, e) => OnPage(k, q)
  BY <1>4, <1>5, <1>6, <1>7
<1> QED  BY <1>8 DEF e, c, d, s

\* A page that refuses its check.
LEMMA EndRefused ==
  ASSUME StateHolds(stores, page, checks), NEW n \in Photos, Working(checks[n]),
         End(n, Refused), UNCHANGED stores
  PROVE  StateHolds(stores', page', checks')
<1>1. PICK p : p = checks[n].tab
  OBVIOUS
<1>2. /\ checks' = [checks EXCEPT ![n] = Done(checks[n].fate)]
      /\ page' = IF checks[n].mounted
                 THEN [page EXCEPT ![p] = Finished(Refused(page[p]), n)] ELSE page
  BY <1>1, Locked DEF End, StateHolds
<1>3. PICK q : q = Refused(page[p])
  OBVIOUS
<1>4. checks[n].mounted => MountedForm(page[p])
  BY <1>1, Locked
<1>5. checks[n].mounted =>
           /\ MountedForm(q)
           /\ q.busy = page[p].busy /\ q.latest = page[p].latest /\ q.held = page[p].held
           /\ \A k \in Photos : OnPage(k, q) => OnPage(k, page[p])
  BY <1>3, <1>4, Results
<1>6. StateHolds(stores, IF checks[n].mounted
                         THEN [page EXCEPT ![p] = Finished(q, n)] ELSE page,
                 [checks EXCEPT ![n] = Done(checks[n].fate)])
  BY <1>1, <1>5, EndRedrawn
<1> QED  BY <1>2, <1>3, <1>6

\* An operation that was not dropped goes on.
LEMMA GoStep ==
  ASSUME NEW st, NEW pg, NEW ck, StateHolds(st, pg, ck),
         NEW n \in Photos, Working(ck[n]), ck[n].fate # "dropped",
         NEW s \in Stages \ {"upgrading"},
         s \in {"preparing", "sent", "withdrawn", "saving", "ensuring"} => Spotless(ck[n])
  PROVE  StateHolds(st, pg, [ck EXCEPT ![n] = [ck[n] EXCEPT !.stage = s]])
<1> DEFINE c == [ck[n] EXCEPT !.stage = s]
<1>1. WorkingForm(ck[n])
  BY Locked
<1>2. /\ DOMAIN c = Parts /\ c.stage = s /\ c.tab = ck[n].tab /\ c.area = ck[n].area
      /\ c.mounted = ck[n].mounted /\ c.aborted = ck[n].aborted /\ c.version = ck[n].version
      /\ c.fate = ck[n].fate
  BY <1>1 DEF WorkingForm, Parts
<1> HIDE DEF c
<1>3. WorkingForm(c)
  BY <1>1, <1>2 DEF WorkingForm, Stages
<1>4. Spotless(c) => Spotless(ck[n])
  BY <1>2 DEF Spotless, Stages
<1>5. \A k : ~InHand(k, c)
  BY <1>2 DEF InHand
<1>6. StateHolds(st, pg, [ck EXCEPT ![n] = c])
  BY <1>2, <1>3, <1>4, <1>5, OpStep
<1> QED  BY <1>6 DEF c

\* What the stages of a working operation say.
LEMMA StageFacts ==
  ASSUME NEW st, NEW pg, NEW ck, StateHolds(st, pg, ck), NEW n \in Photos,
         ck[n].stage \in Stages
  PROVE  /\ Working(ck[n]) /\ WorkingForm(ck[n]) /\ ~Named(n, st)
         /\ ck[n].stage \in {"sent", "ensuring", "upgrading", "recording", "carrying"}
              => ck[n].fate # "dropped"
         /\ ck[n].stage \in {"ensuring", "upgrading", "recording", "carrying"}
              => ~Spotless(ck[n])
         /\ ~ck[n].aborted => ck[n].fate # "dropped"
         /\ ck[n].stage \in {"preparing", "sent", "saving"} => Spotless(ck[n])
         /\ ck[n].stage \in {"ensuring", "upgrading"} => ~Named(UpgradeOf(n), st)
         /\ ck = [k \in Photos |-> ck[k]] /\ pg = [t \in Tabs |-> pg[t]]
<1>1. Working(ck[n])
  BY DEF Working, Stages
<1>2. WorkingForm(ck[n])
  BY <1>1, Locked
<1>3. TraceHolds(n, st, pg, ck) /\ ck = [k \in Photos |-> ck[k]] /\ pg = [t \in Tabs |-> pg[t]]
  BY DEF StateHolds
<1>4. /\ ck[n].stage \in {"sent", "ensuring", "upgrading", "recording", "carrying"}
              => ck[n].fate # "dropped"
      /\ ~ck[n].aborted => ck[n].fate # "dropped"
  BY <1>2 DEF WorkingForm
<1> QED  BY <1>1, <1>2, <1>3, <1>4 DEF TraceHolds, Spotless

\* An operation that is active was not aborted.
LEMMA ActiveFacts ==
  ASSUME StateHolds(stores, page, checks), NEW n \in Photos, Working(checks[n]), Active(n)
  PROVE  ~checks[n].aborted /\ Here(checks[n].tab)
<1>1. PICK p \in Tabs : p = checks[n].tab
  BY Locked
<1>2. WorkHolds(page[p], p, checks) /\ page[p].phase # "away" /\ page[p].latest = n
  BY <1>1 DEF StateHolds, Active, Here
<1>3. n \in Live(checks, p)
  BY <1>2 DEF WorkHolds
<1> QED  BY <1>1, <1>2, <1>3 DEF Live, Here

\* The photo is ready, or not.
LEMMA Preparing ==
  ASSUME StateHolds(stores, page, checks), NEW n \in Photos, Prepared(n) \/ PrepareFails(n)
  PROVE  StateHolds(stores', page', checks')
<1>1. checks[n].stage = "preparing" /\ UNCHANGED stores
  BY DEF Prepared, PrepareFails
<1>2. /\ Working(checks[n]) /\ (~checks[n].aborted => checks[n].fate # "dropped")
      /\ Spotless(checks[n])
      /\ checks = [k \in Photos |-> checks[k]] /\ page = [t \in Tabs |-> page[t]]
  BY <1>1, StageFacts DEF Stages
<1>3. CASE End(n, Quietly)
  BY <1>1, <1>2, <1>3, EndQuietly
<1>4. CASE End(n, Refused)
  BY <1>1, <1>2, <1>4, EndRefused
<1>5. CASE /\ Prepared(n) /\ Active(n)
           /\ Go(n, IF checks[n].purpose = "baseline" THEN "saving" ELSE "sent")
           /\ page' = IF checks[n].purpose = "baseline" THEN page
                      ELSE [page EXCEPT ![checks[n].tab].phase = "analyzing",
                                        ![checks[n].tab].report = None]
  <2>1. PICK s \in {"saving", "sent"} :
          s = IF checks[n].purpose = "baseline" THEN "saving" ELSE "sent"
    OBVIOUS
  <2>2. PICK c : c = [checks[n] EXCEPT !.stage = s]
    OBVIOUS
  <2>3. checks' = [checks EXCEPT ![n] = c]
    BY <1>2, <1>5, <2>1, <2>2 DEF Go
  <2>4. ~checks[n].aborted /\ Here(checks[n].tab)
    BY <1>2, <1>5, ActiveFacts
  <2>5. PICK ck : ck = [checks EXCEPT ![n] = c]
    OBVIOUS
  <2>6. StateHolds(stores, page, ck)
    BY <1>2, <2>1, <2>2, <2>4, <2>5, GoStep DEF Stages
  <2>7. CASE page' = page
    BY <1>1, <2>3, <2>5, <2>6, <2>7
  <2>8. CASE page' = [page EXCEPT ![checks[n].tab].phase = "analyzing",
                                  ![checks[n].tab].report = None]
    <3>1. PICK p \in Tabs : p = checks[n].tab
      BY <1>2, Locked
    <3>2. MountedForm(page[p]) /\ page[p].phase # "away"
      BY <2>4, <3>1, MountedHere DEF Here
    <3>3. PICK q : q = [page[p] EXCEPT !.phase = "analyzing", !.report = None]
      OBVIOUS
    <3>4. page' = [page EXCEPT ![p] = q]
      BY <1>2, <2>8, <3>1, <3>3
    <3>5. /\ DOMAIN q = Fields
          /\ q.phase = "analyzing" /\ q.area = page[p].area /\ q.listed = page[p].listed
          /\ q.reference = page[p].reference /\ q.busy = page[p].busy
          /\ q.latest = page[p].latest /\ q.held = page[p].held /\ q.report = None
          /\ q.intent = page[p].intent /\ q.opening = page[p].opening
          /\ q.opened = page[p].opened /\ q.selecting = page[p].selecting
          /\ q.adding = page[p].adding
      BY <3>2, <3>3 DEF MountedForm, Fields
    <3>6. MountedForm(q)
      BY <3>2, <3>5 DEF MountedForm
    <3>7. \A k \in Photos : OnPage(k, q) => OnPage(k, page[p])
      BY <3>2, <3>5, Numbers DEF OnPage
    <3>8. StateHolds(stores, [page EXCEPT ![p] = q], ck)
      BY <2>6, <3>2, <3>5, <3>6, <3>7, PageStep
    <3> QED  BY <1>1, <2>3, <2>5, <3>4, <3>8
  <2> QED  BY <1>5, <2>7, <2>8
<1> QED  BY <1>3, <1>4, <1>5 DEF Prepared, PrepareFails

\* The reference is saved, or not.
LEMMA Saving ==
  ASSUME StateHolds(stores, page, checks), NEW n \in Photos, SaveReference(n) \/ SaveFails(n)
  PROVE  StateHolds(stores', page', checks')
<1>1. checks[n].stage = "saving"
  BY DEF SaveReference, SaveFails
<1>2. /\ Working(checks[n]) /\ (~checks[n].aborted => checks[n].fate # "dropped")
      /\ WorkingForm(checks[n]) /\ ~Named(n, stores)
      /\ checks = [k \in Photos |-> checks[k]] /\ page = [t \in Tabs |-> page[t]]
  BY <1>1, StageFacts DEF Stages
<1>3. CASE SaveFails(n)
  BY <1>2, <1>3, EndQuietly DEF SaveFails
<1>4. CASE SaveReference(n)
  <2>1. PICK p, a, q, c, d :
          /\ p = checks[n].tab /\ a = checks[n].area
          /\ q = IF Active(n) THEN [page[p] EXCEPT !.reference = n, !.phase = "camera"]
                 ELSE page[p]
          /\ c = [checks[n] EXCEPT !.stage = "carrying"] /\ d = Done(checks[n].fate)
    OBVIOUS
  <2>2. p \in Tabs /\ a \in Areas /\ checks[n].fate # "dropped"
    BY <1>2, <1>4, <2>1 DEF WorkingForm, SaveReference
  <2>3. /\ checks' = [checks EXCEPT ![n] = d]
        /\ page' = IF checks[n].mounted THEN [page EXCEPT ![p] = Finished(q, n)] ELSE page
        /\ stores' = WithReference(stores, a, n, n)
    BY <1>4, <2>1 DEF SaveReference, End
  \* Its photo is no secret from here on.
  <2>4. PICK ck : ck = [checks EXCEPT ![n] = c]
    OBVIOUS
  <2>5. StateHolds(stores, page, ck)
    BY <1>2, <2>1, <2>2, <2>4, GoStep DEF Stages
  <2>6. /\ ck[n] = c /\ c.stage = "carrying" /\ c.fate = checks[n].fate
        /\ c.mounted = checks[n].mounted /\ c.tab = p
    BY <1>2, <2>1, <2>4 DEF WorkingForm, Parts
  <2>7. Working(ck[n]) /\ ~Spotless(ck[n])
    BY <2>2, <2>6 DEF Working, Spotless
  <2>8. checks[n].mounted =>
           /\ MountedForm(q)
           /\ q.busy = page[p].busy /\ q.latest = page[p].latest /\ q.held = page[p].held
           /\ \A k \in Photos : OnPage(k, q) => OnPage(k, page[p]) \/ k = n
    <3>1. CASE checks[n].mounted
      <4>1. MountedForm(page[p])
        BY <1>2, <2>1, <3>1, Locked
      <4> QED  BY <2>1, <4>1, Results
    <3> QED  BY <3>1
  <2>9. PICK pg2, ck2 :
          /\ pg2 = IF checks[n].mounted THEN [page EXCEPT ![p] = Finished(q, n)] ELSE page
          /\ ck2 = [checks EXCEPT ![n] = d]
    OBVIOUS
  <2>10. ck2 = [ck EXCEPT ![n] = Done(ck[n].fate)]
    BY <1>2, <2>1, <2>4, <2>6, <2>9
  <2>11. StateHolds(stores, pg2, ck2)
    <3>1. /\ ck[n].tab = p /\ ck[n].mounted = checks[n].mounted
      BY <2>6
    <3>2. ck[n].mounted =>
            /\ MountedForm(q)
            /\ q.busy = page[p].busy /\ q.latest = page[p].latest /\ q.held = page[p].held
            /\ \A k \in Photos : OnPage(k, q) => OnPage(k, page[p]) \/ k = n
      BY <2>8, <3>1
    <3>3. StateHolds(stores, IF ck[n].mounted
                             THEN [page EXCEPT ![p] = Finished(q, n)] ELSE page,
                     [ck EXCEPT ![n] = Done(ck[n].fate)])
      BY <2>5, <2>7, <3>1, <3>2, EndShown
    <3> QED  BY <2>9, <2>10, <3>1, <3>3
  <2>12. ck2[n] = d /\ d.stage = "done" /\ d.fate # "dropped"
    BY <1>2, <2>1, <2>2, <2>9 DEF Done
  <2>13. ~Spotless(ck2[n]) /\ ~Working(ck2[n]) /\ ck2[n].stage = "done"
    BY <2>12 DEF Spotless, Working
  <2>14. StateHolds(WithReference(stores, a, n, n), pg2, ck2)
    <3>1. n \in References /\ n \in Versions /\ \A k \in Photos : n # UpgradeOf(k)
      BY Numbers
    <3> QED  BY <1>2, <2>2, <2>11, <2>13, <3>1, ReferenceStep
  <2> QED  BY <2>3, <2>9, <2>14
<1> QED  BY <1>3, <1>4

\* The answer comes, or fails.
LEMMA Answering ==
  ASSUME StateHolds(stores, page, checks), NEW n \in Photos, Answer(n) \/ AnswerFails(n)
  PROVE  StateHolds(stores', page', checks')
<1>1. checks[n].stage \in {"sent", "withdrawn"} /\ UNCHANGED stores
  BY DEF Answer, AnswerFails
<1>2. /\ Working(checks[n]) /\ (checks[n].stage = "sent" => checks[n].fate # "dropped")
      /\ (checks[n].stage = "sent" => Spotless(checks[n]))
      /\ checks = [k \in Photos |-> checks[k]]
  BY <1>1, StageFacts DEF Stages
<1>3. CASE End(n, Quietly)
  BY <1>1, <1>2, <1>3, EndQuietly
<1>4. CASE End(n, Refused)
  BY <1>1, <1>2, <1>4, EndRefused
<1>5. CASE checks[n].stage = "sent" /\ Go(n, "ensuring") /\ UNCHANGED page
  <2>1. checks' = [checks EXCEPT ![n] = [checks[n] EXCEPT !.stage = "ensuring"]]
    BY <1>2, <1>5 DEF Go
  <2>2. StateHolds(stores, page, [checks EXCEPT ![n] = [checks[n] EXCEPT !.stage = "ensuring"]])
    BY <1>2, <1>5, GoStep DEF Stages
  <2> QED  BY <1>1, <1>5, <2>1, <2>2
<1> QED  BY <1>3, <1>4, <1>5 DEF Answer, AnswerFails

\* The version is read: what is in the operation's hand now is in the database.
LEMMA Ensuring ==
  ASSUME StateHolds(stores, page, checks), NEW n \in Photos, EnsureVersion(n)
  PROVE  StateHolds(stores', page', checks')
<1>1. checks[n].stage = "ensuring" /\ UNCHANGED <<stores, page>>
  BY DEF EnsureVersion
<1>2. /\ Working(checks[n]) /\ WorkingForm(checks[n]) /\ checks[n].fate # "dropped"
      /\ ~Spotless(checks[n]) /\ checks = [k \in Photos |-> checks[k]]
  BY <1>1, StageFacts DEF Stages
<1>3. PICK a \in Areas : a = checks[n].area
  BY <1>2 DEF WorkingForm
<1>4. PICK found : found = stores.base[a]
  OBVIOUS
<1>5. PICK c :
        /\ checks' = [checks EXCEPT ![n] = c]
        /\ c = IF found = None THEN [checks[n] EXCEPT !.stage = "recording"]
               ELSE IF found.version # None
               THEN [checks[n] EXCEPT !.stage = "recording", !.version = found.version]
               ELSE [checks[n] EXCEPT !.stage = "upgrading", !.upgraded = found.photo]
  BY <1>2, <1>3, <1>4 DEF EnsureVersion
<1>6. /\ StoreForm(stores)
      /\ found # None => /\ found.version \in Versions /\ found.photo \in References
                         /\ \A k \in Photos : found.photo = k => InStores(k, stores)
  BY <1>4 DEF StateHolds, StoreForm, PhotoOf, InStores
<1>7. /\ DOMAIN c = Parts /\ c.tab = checks[n].tab /\ c.area = checks[n].area
      /\ c.mounted = checks[n].mounted /\ c.aborted = checks[n].aborted
      /\ c.fate = checks[n].fate /\ c.version \in Versions
      /\ c.stage \in {"recording", "upgrading"}
      /\ c.stage = "upgrading" => found # None /\ c.upgraded = found.photo
  <2>1. CASE found = None
    BY <1>2, <1>5, <2>1 DEF WorkingForm, Parts
  <2>2. CASE found # None /\ found.version # None
    BY <1>2, <1>5, <1>6, <2>2 DEF WorkingForm, Parts
  <2>3. CASE found # None /\ found.version = None
    BY <1>2, <1>5, <2>3 DEF WorkingForm, Parts
  <2> QED  BY <2>1, <2>2, <2>3
<1>8. WorkingForm(c)
  BY <1>2, <1>6, <1>7 DEF WorkingForm, Stages
<1>9. ~Spotless(c)
  BY <1>2, <1>7 DEF Spotless
<1>10. \A k \in Photos : InHand(k, c) => InStores(k, stores)
  BY <1>6, <1>7 DEF InHand
<1>11. StateHolds(stores, page, [checks EXCEPT ![n] = c])
  BY <1>1, <1>2, <1>7, <1>8, <1>9, <1>10, OpStep
<1> QED  BY <1>1, <1>5, <1>11

\* An old reference is put back with a version: nobody dropped its photo in between.
LEMMA Upgrading ==
  ASSUME StateHolds(stores, page, checks), NEW n \in Photos, Upgrade(n)
  PROVE  StateHolds(stores', page', checks')
<1>1. checks[n].stage = "upgrading" /\ UNCHANGED page
  BY DEF Upgrade
<1>2. /\ Working(checks[n]) /\ WorkingForm(checks[n]) /\ checks[n].fate # "dropped"
      /\ ~Spotless(checks[n]) /\ checks = [k \in Photos |-> checks[k]]
      /\ ~Named(UpgradeOf(n), stores)
  BY <1>1, StageFacts DEF Stages
<1>3. PICK a \in Areas, photo \in References :
        a = checks[n].area /\ photo = checks[n].upgraded
  BY <1>1, <1>2 DEF WorkingForm
<1>4. PICK version \in Versions : version = UpgradeOf(n)
  BY Numbers
<1>5. PICK c : /\ version = UpgradeOf(n)
               /\ c = [checks[n] EXCEPT !.stage = "recording", !.version = version]
  BY <1>4
<1>6. /\ checks' = [checks EXCEPT ![n] = c]
      /\ stores' = WithReference(stores, a, photo, version)
  BY <1>2, <1>3, <1>5 DEF Upgrade
<1>7. /\ DOMAIN c = Parts /\ c.tab = checks[n].tab /\ c.area = checks[n].area
      /\ c.mounted = checks[n].mounted /\ c.aborted = checks[n].aborted
      /\ c.fate = checks[n].fate /\ c.version = version /\ c.stage = "recording"
  BY <1>2, <1>5 DEF WorkingForm, Parts
<1>8. WorkingForm(c) /\ ~Spotless(c) /\ \A k : ~InHand(k, c)
  BY <1>2, <1>7 DEF WorkingForm, Stages, Spotless, InHand
<1>9. PICK ck : ck = [checks EXCEPT ![n] = c]
  OBVIOUS
<1>10. StateHolds(stores, page, ck)
  BY <1>2, <1>7, <1>8, <1>9, OpStep
<1>11. /\ ck[n] = c /\ \A k \in Photos : k # n => ck[k] = checks[k]
  BY <1>2, <1>9
<1>12. ASSUME NEW k \in Photos, Spotless(ck[k])
       PROVE  photo # k /\ version # k /\ version # UpgradeOf(k)
  <2>1. k # n /\ Spotless(checks[k])
    BY <1>8, <1>11, <1>12
  <2>2. ~InHand(k, checks[n])
    BY <2>1 DEF StateHolds, TraceHolds, Traceless
  <2> QED  BY <1>1, <1>3, <1>5, <2>1, <2>2, Numbers DEF InHand
<1>13. \A k \in Photos : version # k /\ (k # n => version # UpgradeOf(k))
  BY <1>5, Numbers
<1>14. \A k \in Photos : ck[k].stage \in {"ensuring", "upgrading"} => version # UpgradeOf(k)
  BY <1>7, <1>11, <1>13
<1>15. StateHolds(WithReference(stores, a, photo, version), page, ck)
  BY <1>2, <1>5, <1>10, <1>12, <1>13, <1>14, ReferenceStep
<1> QED  BY <1>1, <1>6, <1>9, <1>15

\* What follows the attempt to record, before the record.
LEMMA Recording ==
  ASSUME StateHolds(stores, page, checks), NEW n \in Photos, AfterRecord(n),
         checks[n].stage \in {"ensuring", "upgrading", "recording"}
  PROVE  StateHolds(stores, page', checks') /\ ~Spotless(checks'[n])
<1>1. /\ Working(checks[n]) /\ WorkingForm(checks[n]) /\ checks[n].fate # "dropped"
      /\ ~Spotless(checks[n]) /\ checks = [k \in Photos |-> checks[k]]
      /\ page = [t \in Tabs |-> page[t]]
  BY StageFacts DEF Stages
<1>2. CASE Go(n, "carrying") /\ UNCHANGED page
  <2>1. PICK c : c = [checks[n] EXCEPT !.stage = "carrying"]
    OBVIOUS
  <2>2. checks' = [checks EXCEPT ![n] = c]
    BY <1>1, <1>2, <2>1 DEF Go
  <2>3. StateHolds(stores, page, [checks EXCEPT ![n] = c])
    BY <1>1, <2>1, GoStep DEF Stages
  <2>4. c.stage = "carrying" /\ c.fate # "dropped" /\ checks'[n] = c
    BY <1>1, <2>1, <2>2 DEF WorkingForm, Parts
  <2> QED  BY <1>2, <2>2, <2>3, <2>4 DEF Spotless
<1>3. CASE End(n, LAMBDA pg : Concluded(n, pg))
  <2>1. PICK p, q, d : p = checks[n].tab /\ q = Concluded(n, page[p])
                       /\ d = Done(checks[n].fate)
    OBVIOUS
  <2>2. p \in Tabs /\ (checks[n].mounted => MountedForm(page[p]))
    BY <1>1, <2>1, Locked
  <2>3. /\ checks' = [checks EXCEPT ![n] = d]
        /\ page' = IF checks[n].mounted THEN [page EXCEPT ![p] = Finished(q, n)] ELSE page
    BY <1>1, <1>3, <2>1, <2>2 DEF End
  <2>4. checks[n].mounted =>
           /\ MountedForm(q)
           /\ q.busy = page[p].busy /\ q.latest = page[p].latest /\ q.held = page[p].held
           /\ \A k \in Photos : OnPage(k, q) => OnPage(k, page[p]) \/ k = n
    BY <2>1, <2>2, Results
  <2>5. StateHolds(stores, IF checks[n].mounted
                           THEN [page EXCEPT ![p] = Finished(q, n)] ELSE page,
                   [checks EXCEPT ![n] = Done(checks[n].fate)])
    BY <1>1, <2>1, <2>4, EndShown
  <2>6. checks'[n] = d /\ d.stage = "done" /\ d.fate # "dropped"
    BY <1>1, <2>1, <2>3 DEF Done
  <2> QED  BY <2>1, <2>3, <2>5, <2>6 DEF Spotless
<1> QED  BY <1>2, <1>3 DEF AfterRecord

\* The check is recorded, or not.
LEMMA Recorded ==
  ASSUME StateHolds(stores, page, checks), NEW n \in Photos, Record(n) \/ RecordFails(n)
  PROVE  StateHolds(stores', page', checks')
<1>1. checks[n].stage \in {"ensuring", "upgrading", "recording"} /\ AfterRecord(n)
  BY DEF Record, RecordFails
<1>2. StateHolds(stores, page', checks') /\ ~Spotless(checks'[n])
  BY <1>1, Recording
<1>3. CASE UNCHANGED stores
  BY <1>2, <1>3
<1>4. CASE Record(n)
  <2>1. WorkingForm(checks[n])
    BY <1>1, StageFacts DEF Stages
  <2>2. PICK a \in Areas, version \in Versions :
          a = checks[n].area /\ version = checks[n].version
    BY <2>1 DEF WorkingForm
  <2>3. PICK record : record = [photo |-> n, version |-> version]
    OBVIOUS
  <2>4. stores' = WithCheck(stores, a, record)
    BY <1>4, <2>2, <2>3 DEF Record
  <2>5. record \in [photo : Photos, version : Versions] /\ record.photo = n
    BY <2>3
  <2>6. PICK pg, ck : pg = page' /\ ck = checks'
    OBVIOUS
  <2>7. StateHolds(stores, pg, ck) /\ ~Spotless(ck[record.photo])
    BY <1>2, <2>5, <2>6
  <2>8. StateHolds(WithCheck(stores, a, record), pg, ck)
    BY <2>5, <2>7, RecordStep
  <2> QED  BY <2>4, <2>6, <2>8
<1> QED  BY <1>3, <1>4 DEF Record, RecordFails

\* An inventory's photo is carried over, or not.
LEMMA Carrying ==
  ASSUME StateHolds(stores, page, checks), NEW n \in Photos, Carry(n) \/ CarryFails(n)
  PROVE  StateHolds(stores', page', checks')
<1>1. checks[n].stage = "carrying"
  BY DEF Carry, CarryFails
<1>2. /\ Working(checks[n]) /\ WorkingForm(checks[n]) /\ checks[n].fate # "dropped"
      /\ ~Spotless(checks[n]) /\ checks = [k \in Photos |-> checks[k]]
      /\ page = [t \in Tabs |-> page[t]] /\ ~Named(n, stores)
  BY <1>1, StageFacts DEF Stages
<1>3. PICK p, a, d : p = checks[n].tab /\ a = checks[n].area /\ d = Done(checks[n].fate)
  OBVIOUS
<1>4. p \in Tabs /\ a \in Areas /\ (checks[n].mounted => MountedForm(page[p]))
  BY <1>2, <1>3, Locked DEF WorkingForm
<1>5. ASSUME NEW q \in {Concluded(n, page[p]),
                        Concluded(n, [page[p] EXCEPT !.reference = n])},
             NEW pg, pg = IF checks[n].mounted
                          THEN [page EXCEPT ![p] = Finished(q, n)] ELSE page
      PROVE  StateHolds(stores, pg, [checks EXCEPT ![n] = d])
  <2>1. checks[n].mounted =>
           /\ MountedForm(q)
           /\ q.busy = page[p].busy /\ q.latest = page[p].latest /\ q.held = page[p].held
           /\ \A k \in Photos : OnPage(k, q) => OnPage(k, page[p]) \/ k = n
    <3>1. CASE q = Concluded(n, page[p])
      BY <1>4, <3>1, Results
    <3>2. CASE q = Concluded(n, [page[p] EXCEPT !.reference = n])
      BY <1>4, <3>2, Results
    <3> QED  BY <1>5, <3>1, <3>2
  <2>2. StateHolds(stores, IF checks[n].mounted
                           THEN [page EXCEPT ![p] = Finished(q, n)] ELSE page,
                   [checks EXCEPT ![n] = Done(checks[n].fate)])
    BY <1>2, <1>3, <2>1, EndShown
  <2> QED  BY <1>3, <1>5, <2>2
<1>6. CASE CarryFails(n)
  <2>1. PICK q : q = Concluded(n, page[p])
    OBVIOUS
  <2>2. /\ checks' = [checks EXCEPT ![n] = d]
        /\ page' = IF checks[n].mounted THEN [page EXCEPT ![p] = Finished(q, n)] ELSE page
        /\ UNCHANGED stores
    BY <1>2, <1>3, <1>4, <1>6, <2>1 DEF CarryFails, End
  <2>3. PICK pg : pg = IF checks[n].mounted
                       THEN [page EXCEPT ![p] = Finished(q, n)] ELSE page
    OBVIOUS
  <2>4. StateHolds(stores, pg, [checks EXCEPT ![n] = d])
    BY <1>5, <2>1, <2>3
  <2> QED  BY <2>2, <2>3, <2>4
<1>7. CASE Carry(n)
  <2>1. PICK q : q = Concluded(n, [page[p] EXCEPT !.reference = n])
    OBVIOUS
  <2>2. /\ checks' = [checks EXCEPT ![n] = d]
        /\ page' = IF checks[n].mounted THEN [page EXCEPT ![p] = Finished(q, n)] ELSE page
        /\ stores' = WithReference(stores, a, n, n)
    BY <1>2, <1>3, <1>4, <1>7, <2>1 DEF Carry, End
  <2>3. PICK pg, ck : /\ pg = IF checks[n].mounted
                              THEN [page EXCEPT ![p] = Finished(q, n)] ELSE page
                      /\ ck = [checks EXCEPT ![n] = d]
    OBVIOUS
  <2>4. StateHolds(stores, pg, ck)
    BY <1>5, <2>1, <2>3
  <2>5. ck[n] = d /\ d.stage = "done" /\ d.fate # "dropped"
    BY <1>2, <1>3, <2>3 DEF Done
  <2>6. ~Spotless(ck[n]) /\ ~Working(ck[n]) /\ ck[n].stage = "done"
    BY <2>5 DEF Spotless, Working
  <2>7. n \in References /\ n \in Versions /\ \A k \in Photos : n # UpgradeOf(k)
    BY Numbers
  <2>8. StateHolds(WithReference(stores, a, n, n), pg, ck)
    BY <1>2, <1>4, <2>4, <2>6, <2>7, ReferenceStep
  <2> QED  BY <2>2, <2>3, <2>8
<1> QED  BY <1>6, <1>7

--------------------------------------------------------------------------------
(* The user's other moves.                                                  *)

LEMMA Beginning ==
  ASSUME StateHolds(stores, page, checks), NEW p \in Tabs, Capture(p) \/ PickFile(p)
  PROVE  StateHolds(stores', page', checks')
<1>1. Here(p)
  BY DEF Capture, PickFile, Here, Viewfinder
<1>2. PICK purpose : Begin(p, purpose)
  BY DEF Capture, PickFile
<1>3. PICK n \in Photos :
        /\ ~page[p].busy /\ n \notin Taken
        /\ checks' = [checks EXCEPT ![n] =
             [stage |-> "preparing", tab |-> p, mounted |-> TRUE, purpose |-> purpose,
              area |-> page[p].area, reference |-> page[p].reference, aborted |-> FALSE,
              upgraded |-> None, version |-> None, fate |-> "kept"]]
        /\ page' = [page EXCEPT ![p] =
             [page[p] EXCEPT !.busy = TRUE, !.latest = n, !.held = n, !.intent = None,
                !.phase = IF purpose = "current" THEN "analyzing" ELSE @,
                !.report = IF purpose = "current" THEN None ELSE @]]
        /\ UNCHANGED stores
  BY <1>2 DEF Begin
<1>4. /\ MountedForm(page[p]) /\ page = [t \in Tabs |-> page[t]] /\ page[p].phase # "away"
      /\ checks[n].stage = "idle"
  BY <1>1, <1>3, MountedHere DEF Here, Taken
<1>5. PICK c : c = [stage |-> "preparing", tab |-> p, mounted |-> TRUE, purpose |-> purpose,
                    area |-> page[p].area, reference |-> page[p].reference, aborted |-> FALSE,
                    upgraded |-> None, version |-> None, fate |-> "kept"]
  OBVIOUS
<1>6. /\ DOMAIN c = Parts /\ c.stage = "preparing" /\ c.tab = p /\ c.mounted = TRUE
      /\ c.area = page[p].area /\ c.aborted = FALSE /\ c.version = None /\ c.fate = "kept"
  BY <1>5 DEF Parts
<1>7. WorkingForm(c)
  BY <1>4, <1>6 DEF WorkingForm, Stages, Versions, MountedForm
<1>8. PICK phase, report : /\ phase = IF purpose = "current" THEN "analyzing" ELSE page[p].phase
                           /\ report = IF purpose = "current" THEN None ELSE page[p].report
  OBVIOUS
<1>9. PICK q : q = [page[p] EXCEPT !.busy = TRUE, !.latest = n, !.held = n, !.intent = None,
                      !.phase = IF purpose = "current" THEN "analyzing" ELSE @,
                      !.report = IF purpose = "current" THEN None ELSE @]
  OBVIOUS
<1>10. /\ DOMAIN q = Fields
       /\ q.phase = phase /\ q.area = page[p].area /\ q.listed = page[p].listed
       /\ q.reference = page[p].reference /\ q.busy = TRUE
       /\ q.latest = n /\ q.held = n /\ q.report = report
       /\ q.intent = None /\ q.opening = page[p].opening
       /\ q.opened = page[p].opened /\ q.selecting = page[p].selecting
       /\ q.adding = page[p].adding
  BY <1>4, <1>8, <1>9 DEF MountedForm, Fields
<1>11. MountedForm(q)
  BY <1>4, <1>8, <1>10 DEF MountedForm
<1>12. \A k \in Photos : OnPage(k, q) => OnPage(k, page[p])
  BY <1>4, <1>8, <1>10, Numbers DEF OnPage
<1>13. StateHolds(stores, [page EXCEPT ![p] = q], [checks EXCEPT ![n] = c])
  BY <1>3, <1>4, <1>6, <1>7, <1>10, <1>11, <1>12, BeginStep
<1>14. page' = [page EXCEPT ![p] = q]
  BY <1>3, <1>9
<1>15. checks' = [checks EXCEPT ![n] = c]
  BY <1>3, <1>5
<1> QED  BY <1>3, <1>13, <1>14, <1>15

\* What AbortHeld does to the operations.
LEMMA Aborting ==
  ASSUME StateHolds(stores, page, checks), NEW p \in Tabs, NEW gone \in BOOLEAN,
         AbortHeld(p, gone)
  PROVE  checks' = [n \in Photos |-> Abandoned(checks[n], n, p, page[p].held, gone)]
<1>1. \A n \in Photos : (n \in Taken /\ Pending(n)) <=> Working(checks[n])
  BY DEF Taken, Pending, Working
<1> DEFINE after(n) ==
             IF ~(n \in Taken /\ Pending(n) /\ checks[n].tab = p /\ checks[n].mounted)
             THEN checks[n]
             ELSE [checks[n] EXCEPT
                     !.aborted = @ \/ page[p].held = n,
                     !.stage = IF @ = "sent" THEN "withdrawn" ELSE @,
                     !.mounted = ~gone,
                     !.fate = IF page[p].held = n /\ checks[n].stage \in Early
                              THEN "dropped" ELSE @]
<1>2. checks' = [n \in Photos |-> after(n)]
  BY DEF AbortHeld
<1>3. \A n \in Photos : after(n) = Abandoned(checks[n], n, p, page[p].held, gone)
  BY <1>1 DEF Abandoned
<1> HIDE DEF after
<1> QED  BY <1>2, <1>3

LEMMA Abandoning ==
  ASSUME StateHolds(stores, page, checks), NEW p \in Tabs, Cancel(p) \/ Leave(p)
  PROVE  StateHolds(stores', page', checks')
<1>1. Here(p) /\ UNCHANGED stores
  BY DEF Cancel, Leave, Here
<1>2. MountedForm(page[p]) /\ page = [t \in Tabs |-> page[t]] /\ page[p].phase # "away"
  BY <1>1, MountedHere DEF Here
<1>3. CASE Cancel(p)
  <2>1. PICK q : q = [page[p] EXCEPT !.intent = None, !.held = None, !.latest = None,
                        !.busy = FALSE, !.report = None, !.phase = Rest(page[p].reference)]
    OBVIOUS
  <2>2. page' = [page EXCEPT ![p] = q] /\ AbortHeld(p, FALSE)
    BY <1>3, <2>1 DEF Cancel
  <2>3. /\ DOMAIN q = Fields
        /\ q.phase = Rest(page[p].reference) /\ q.area = page[p].area
        /\ q.listed = page[p].listed /\ q.reference = page[p].reference /\ q.busy = FALSE
        /\ q.latest = None /\ q.held = None /\ q.report = None
        /\ q.intent = None /\ q.opening = page[p].opening
        /\ q.opened = page[p].opened /\ q.selecting = page[p].selecting
        /\ q.adding = page[p].adding
    BY <1>2, <2>1 DEF MountedForm, Fields
  <2>4. MountedForm(q)
    BY <1>2, <2>3, Resting DEF MountedForm
  <2>5. \A k \in Photos : OnPage(k, q) => OnPage(k, page[p])
    BY <1>2, <2>3, Numbers DEF OnPage
  <2>6. PICK ck : ck = [n \in Photos |-> Abandoned(checks[n], n, p, page[p].held, FALSE)]
    OBVIOUS
  <2>7. checks' = ck
    BY <2>2, <2>6, Aborting
  <2>8. StateHolds(stores, [page EXCEPT ![p] = q], ck)
    BY <1>2, <2>3, <2>4, <2>5, <2>6, AbandonStep
  <2> QED  BY <1>1, <2>2, <2>7, <2>8
<1>4. CASE Leave(p)
  <2>1. page' = [page EXCEPT ![p] = Away] /\ AbortHeld(p, TRUE)
    BY <1>4 DEF Leave
  <2>2. PICK ck : ck = [n \in Photos |-> Abandoned(checks[n], n, p, page[p].held, TRUE)]
    OBVIOUS
  <2>3. checks' = ck
    BY <2>1, <2>2, Aborting
  <2>4. \A k \in Photos : ~OnPage(k, Away)
    BY DEF OnPage, Away
  <2>5. StateHolds(stores, [page EXCEPT ![p] = Away], ck)
    BY <1>2, <2>2, <2>4, AbandonStep
  <2> QED  BY <1>1, <2>1, <2>3, <2>5
<1> QED  BY <1>3, <1>4

LEMMA Restarting ==
  ASSUME StateHolds(stores, page, checks), NEW p \in Tabs, Reload(p) \/ Mount(p) \/ Clear(p)
  PROVE  StateHolds(stores', page', checks')
<1>1. CASE Reload(p)
  <2>1. \A n \in Photos : (n \in Taken /\ Pending(n)) <=> Working(checks[n])
    BY DEF Taken, Pending, Working
  <2>2. PICK ck : ck = [n \in Photos |->
                         IF Working(checks[n]) /\ checks[n].tab = p
                         THEN Done(IF checks[n].stage \in Early THEN "dropped"
                                   ELSE checks[n].fate)
                         ELSE checks[n]]
    OBVIOUS
  <2>3. checks' = ck /\ page' = [page EXCEPT ![p] = Away] /\ UNCHANGED stores
    BY <1>1, <2>1, <2>2 DEF Reload
  <2>4. StateHolds(stores, [page EXCEPT ![p] = Away], ck)
    BY <2>2, ReloadStep
  <2> QED  BY <2>3, <2>4
<1>2. CASE Mount(p)
  <2>1. /\ page' = [page EXCEPT ![p] = Mounted] /\ UNCHANGED <<stores, checks>>
        /\ page[p].phase = "away"
    BY <1>2 DEF Mount, SetPage
  <2>2. StateHolds(stores, [page EXCEPT ![p] = Mounted], checks)
    BY <2>1, MountStep
  <2> QED  BY <2>1, <2>2
<1>3. CASE Clear(p)
  <2>1. stores' = EmptyStores /\ UNCHANGED <<page, checks>> /\ StoreForm(stores)
    BY <1>3 DEF Clear, StateHolds
  <2>2. /\ StoreForm(EmptyStores) /\ EmptyStores.versions \subseteq stores.versions
        /\ \A k \in Photos : InStores(k, EmptyStores) => InStores(k, stores)
    BY <2>1, AreasWritten
  <2>3. StateHolds(EmptyStores, page, checks)
    BY <2>2, StoreStep
  <2> QED  BY <2>1, <2>3
<1> QED  BY <1>1, <1>2, <1>3

\* Every step keeps the state of stores, pages and operations.
LEMMA StateKept ==
  ASSUME StateHolds(stores, page, checks), [Next]_vars
  PROVE  StateHolds(stores', page', checks')
<1>1. CASE UNCHANGED <<stores, page, checks>>
  BY <1>1
<1>2. ASSUME NEW n \in Photos, Continue(n) \/ Answer(n)
      PROVE  StateHolds(stores', page', checks')
  BY <1>2, Preparing, Saving, Answering, Ensuring, Upgrading, Recorded, Carrying DEF Continue
<1>3. ASSUME NEW p \in Tabs, Load(p)  PROVE StateHolds(stores', page', checks')
  BY <1>3, LoadMoves
<1>4. ASSUME NEW p \in Tabs, View(p)  PROVE StateHolds(stores', page', checks')
  <2>1. UNCHANGED <<stores, page, checks>>
    BY <1>4 DEF View, StartCamera, TurnOff, StreamOpens, StreamPlays, StreamFails, SetCamera
  <2> QED  BY <1>1, <2>1
<1>5. ASSUME NEW p \in Tabs, Use(p)  PROVE StateHolds(stores', page', checks')
  <2>1. CASE Capture(p) \/ PickFile(p)
    BY <2>1, Beginning
  <2>2. CASE Cancel(p) \/ Leave(p)
    BY <2>2, Abandoning
  <2>3. CASE Reload(p) \/ Mount(p) \/ Clear(p)
    BY <2>3, Restarting
  <2>4. CASE \/ OpenPicker(p) \/ Retake(p) \/ BeginReplacement(p) \/ CancelReplacement(p)
             \/ \E a \in Areas : SelectArea(p, a) \/ AddArea(p, a)
             \/ Translate(p)
    BY <2>4, UserRedraws
  <2> QED  BY <1>5, <2>1, <2>2, <2>3, <2>4 DEF Use
<1> QED  BY <1>1, <1>2, <1>3, <1>4, <1>5 DEF Next, vars, Taken

--------------------------------------------------------------------------------
(* The camera.                                                              *)

\* A stopped camera holds no stream, and every start that still waits is stale.
LEMMA StoppedCamera ==
  ASSUME NEW cam, NEW ups \in Nat, CameraHolds(cam, ups)
  PROVE  /\ CameraHolds(Stopped(cam), ups)
         /\ Stopped(cam).open = {} /\ Stopped(cam).mode = "idle"
         /\ \A s \in Stopped(cam).asked : s.stale = TRUE
<1> DEFINE old == {[s EXCEPT !.stale = TRUE] : s \in cam.asked}
           c == Stopped(cam)
<1>1. /\ DOMAIN c = {"mode", "stream", "open", "asked"}
      /\ c.mode = "idle" /\ c.stream = None /\ c.open = cam.open \ {cam.stream} /\ c.asked = old
  BY DEF CameraHolds, Stopped
<1>2. c.open = {}
  BY <1>1 DEF CameraHolds
<1>3. \A s \in old : \E t \in cam.asked :
        /\ s = [t EXCEPT !.stale = TRUE] /\ DOMAIN s = {"id", "stage", "stale"}
        /\ s.id = t.id /\ s.stale = TRUE
  BY DEF CameraHolds
<1> HIDE DEF c, old
<1>4. \A s, t \in old : s.id = t.id \/ (~s.stale /\ ~t.stale) => s = t
  <2> SUFFICES ASSUME NEW s \in old, NEW t \in old, s.id = t.id \/ (~s.stale /\ ~t.stale)
               PROVE  s = t
    OBVIOUS
  <2>1. PICK x \in cam.asked : s = [x EXCEPT !.stale = TRUE] /\ s.id = x.id /\ s.stale = TRUE
    BY <1>3
  <2>2. PICK y \in cam.asked : t = [y EXCEPT !.stale = TRUE] /\ t.id = y.id /\ t.stale = TRUE
    BY <1>3
  <2>3. x = y
    BY <2>1, <2>2 DEF CameraHolds
  <2> QED  BY <2>1, <2>2, <2>3
<1>5. \A s \in old : /\ s.id \in Nat /\ s.id <= ups /\ s.stale \in BOOLEAN
                     /\ DOMAIN s = {"id", "stage", "stale"} /\ s.stale = TRUE
  BY <1>3 DEF CameraHolds
<1>6. CameraHolds(c, ups)
  BY <1>1, <1>2, <1>4, <1>5 DEF CameraHolds
<1> QED  BY <1>1, <1>2, <1>5, <1>6 DEF c

\* A camera whose starts are fewer.
LEMMA FewerStarts ==
  ASSUME NEW cam, NEW ups, CameraHolds(cam, ups), NEW c,
         DOMAIN c = {"mode", "stream", "open", "asked"},
         c.asked \subseteq cam.asked, c.open \subseteq cam.open, c.open \subseteq {c.stream}
  PROVE  CameraHolds(c, ups)
BY DEF CameraHolds

LEMMA CameraFields ==
  ASSUME NEW cam, DOMAIN cam = {"mode", "stream", "open", "asked"}, NEW s
  PROVE  /\ DOMAIN Withdrawn(cam, s) = DOMAIN cam
         /\ Withdrawn(cam, s).asked = cam.asked \ {s}
         /\ Withdrawn(cam, s).open = cam.open \ {s.id}
         /\ Withdrawn(cam, s).stream = IF cam.stream = s.id THEN None ELSE cam.stream
BY DEF Withdrawn

LEMMA WithdrawnCamera ==
  ASSUME NEW cam, NEW ups, CameraHolds(cam, ups), NEW s \in cam.asked, NEW mode
  PROVE  /\ CameraHolds(Withdrawn(cam, s), ups)
         /\ CameraHolds([Withdrawn(cam, s) EXCEPT !.mode = mode], ups)
<1> DEFINE c == Withdrawn(cam, s)
           d == [c EXCEPT !.mode = mode]
<1>1. DOMAIN cam = {"mode", "stream", "open", "asked"} /\ cam.open \subseteq {cam.stream}
  BY DEF CameraHolds
<1>2. /\ DOMAIN c = {"mode", "stream", "open", "asked"}
      /\ c.asked = cam.asked \ {s} /\ c.open = cam.open \ {s.id}
      /\ c.stream = IF cam.stream = s.id THEN None ELSE cam.stream
  BY <1>1, CameraFields
<1> HIDE DEF c
<1>3. c.asked \subseteq cam.asked /\ c.open \subseteq {c.stream} /\ c.open \subseteq cam.open
  BY <1>1, <1>2
<1>4. /\ DOMAIN d = {"mode", "stream", "open", "asked"}
      /\ d.asked = c.asked /\ d.open = c.open /\ d.stream = c.stream
  BY <1>2
<1> HIDE DEF d
<1>5. CameraHolds(c, ups) /\ CameraHolds(d, ups)
  BY <1>2, <1>3, <1>4, FewerStarts
<1> QED  BY <1>5 DEF c, d

\* A start is numbered as no start before it.
LEMMA StartedCamera ==
  ASSUME NEW cam, NEW ups \in Nat, CameraHolds(cam, ups)
  PROVE  CameraHolds([Stopped(cam) EXCEPT !.mode = "starting",
                        !.asked = Stopped(cam).asked \cup
                          {[id |-> ups + 1, stage |-> "asking", stale |-> FALSE]}], ups + 1)
<1> DEFINE b == Stopped(cam)
           n == [id |-> ups + 1, stage |-> "asking", stale |-> FALSE]
           c == [b EXCEPT !.mode = "starting", !.asked = b.asked \cup {n}]
<1>1. CameraHolds(b, ups) /\ b.open = {} /\ \A s \in b.asked : s.stale = TRUE
  BY StoppedCamera
<1> HIDE DEF b
<1>2. /\ n.id = ups + 1 /\ n.stale = FALSE /\ n.stale \in BOOLEAN
      /\ DOMAIN n = {"id", "stage", "stale"}
  OBVIOUS
<1> HIDE DEF n
<1>3. /\ DOMAIN c = {"mode", "stream", "open", "asked"}
      /\ c.open = {} /\ c.asked = b.asked \cup {n}
  BY <1>1 DEF CameraHolds
<1> HIDE DEF c
<1>4. \A s \in b.asked : /\ s.id \in Nat /\ s.id <= ups /\ s.id # n.id
                         /\ DOMAIN s = {"id", "stage", "stale"}
  BY <1>1, <1>2 DEF CameraHolds
<1>5. \A s, t \in c.asked : s.id = t.id \/ (~s.stale /\ ~t.stale) => s = t
  <2> SUFFICES ASSUME NEW s \in c.asked, NEW t \in c.asked,
                      s.id = t.id \/ (~s.stale /\ ~t.stale)
               PROVE  s = t
    OBVIOUS
  <2>1. CASE s \in b.asked /\ t \in b.asked
    BY <1>1, <2>1 DEF CameraHolds
  <2>2. CASE s = n \/ t = n
    BY <1>1, <1>2, <1>3, <1>4, <2>2
  <2> QED  BY <1>3, <2>1, <2>2
<1>6. \A s \in c.asked : /\ s.id \in Nat /\ s.id <= ups + 1 /\ s.stale \in BOOLEAN
                         /\ DOMAIN s = {"id", "stage", "stale"}
  <2>1. ups + 1 \in Nat /\ \A i \in Nat : i <= ups => i <= ups + 1
    OBVIOUS
  <2> SUFFICES ASSUME NEW s \in c.asked
               PROVE  /\ s.id \in Nat /\ s.id <= ups + 1 /\ s.stale \in BOOLEAN
                      /\ DOMAIN s = {"id", "stage", "stale"}
    OBVIOUS
  <2>2. CASE s \in b.asked
    BY <1>1, <1>4, <2>1, <2>2
  <2>3. CASE s = n
    BY <1>2, <2>1, <2>3
  <2> QED  BY <1>3, <2>2, <2>3
<1>7. CameraHolds(c, ups + 1)
  BY <1>3, <1>5, <1>6 DEF CameraHolds
<1> QED  BY <1>7 DEF b, n, c

\* The one start that is not stale gets the stream, which the page then knows.
LEMMA OpenedCamera ==
  ASSUME NEW cam, NEW ups, CameraHolds(cam, ups), NEW s \in cam.asked,
         s.stage = "asking", ~s.stale
  PROVE  CameraHolds([cam EXCEPT
                        !.asked = (@ \ {s}) \cup {[s EXCEPT !.stage = "playing"]},
                        !.open = @ \cup {s.id}, !.stream = s.id], ups)
<1> DEFINE n == [s EXCEPT !.stage = "playing"]
           c == [cam EXCEPT !.asked = (@ \ {s}) \cup {n},
                            !.open = @ \cup {s.id}, !.stream = s.id]
<1>1. /\ n.id = s.id /\ n.stale = s.stale /\ n.stage = "playing"
      /\ DOMAIN n = {"id", "stage", "stale"}
  BY DEF CameraHolds
<1> HIDE DEF n
<1>2. cam.open = {}
  BY DEF CameraHolds
<1>3. /\ DOMAIN c = {"mode", "stream", "open", "asked"}
      /\ c.open = {s.id} /\ c.stream = s.id /\ c.asked = (cam.asked \ {s}) \cup {n}
  BY <1>2 DEF CameraHolds
<1> HIDE DEF c
<1>4. \A t \in cam.asked \ {s} : /\ t.id \in Nat /\ t.id <= ups /\ t.id # s.id
                                 /\ t.stale \in BOOLEAN /\ t.stale
                                 /\ DOMAIN t = {"id", "stage", "stale"}
  BY DEF CameraHolds
<1>5. \A t, u \in c.asked : t.id = u.id \/ (~t.stale /\ ~u.stale) => t = u
  <2> SUFFICES ASSUME NEW t \in c.asked, NEW u \in c.asked,
                      t.id = u.id \/ (~t.stale /\ ~u.stale)
               PROVE  t = u
    OBVIOUS
  <2>1. CASE t \in cam.asked /\ u \in cam.asked
    BY <2>1 DEF CameraHolds
  <2>2. CASE t = n \/ u = n
    BY <1>1, <1>3, <1>4, <2>2
  <2> QED  BY <1>3, <2>1, <2>2
<1>6. s.id \in Nat /\ s.id <= ups /\ s.stale \in BOOLEAN
  BY DEF CameraHolds
<1>7. \A t \in c.asked : /\ t.id \in Nat /\ t.id <= ups /\ t.stale \in BOOLEAN
                         /\ t.stale => t.id \notin c.open
                         /\ ~t.stale /\ t.stage = "asking" => c.open = {}
                         /\ DOMAIN t = {"id", "stage", "stale"}
  BY <1>1, <1>3, <1>4, <1>6
<1>8. CameraHolds(c, ups)
  BY <1>3, <1>5, <1>7 DEF CameraHolds
<1> QED  BY <1>8 DEF n, c

\* Every step keeps the cameras.
LEMMA CameraKept ==
  ASSUME CamerasHold(camera, upsets), [Next]_vars
  PROVE  CamerasHold(camera', upsets')
<1> DEFINE Goal == CamerasHold(camera', upsets')
<1>1. \A p \in Tabs : CameraHolds(camera[p], upsets)
  BY DEF CamerasHold
<1>2. camera = [p \in Tabs |-> camera[p]] /\ upsets \in Nat
  BY DEF CamerasHold
<1>3. ASSUME NEW p \in Tabs, NEW c, camera' = [camera EXCEPT ![p] = c],
             NEW ups \in {upsets, upsets + 1}, upsets' = ups, CameraHolds(c, ups)
      PROVE  Goal
  <2>1. \A t \in Tabs : CameraHolds(camera[t], ups)
    BY <1>1, <1>2 DEF CameraHolds
  <2>2. ups \in Nat
    BY <1>2
  <2>3. PICK cams : cams = [camera EXCEPT ![p] = c]
    OBVIOUS
  <2>4. CamerasHold(cams, ups)
    BY <1>2, <1>3, <2>1, <2>2, <2>3 DEF CamerasHold
  <2> QED  BY <1>3, <2>3, <2>4
<1>4. CASE UNCHANGED <<camera, upsets>>
  BY <1>4
<1>5. ASSUME NEW p \in Tabs, camera' = [camera EXCEPT ![p] = Stopped(camera[p])],
             upsets' \in {upsets, upsets + 1}
      PROVE  Goal
  <2>1. PICK ups \in {upsets, upsets + 1} : ups = upsets'
    BY <1>5
  <2>2. PICK c : c = Stopped(camera[p])
    OBVIOUS
  <2>3. CameraHolds(c, upsets)
    BY <1>1, <1>2, <2>2, StoppedCamera
  <2>4. CameraHolds(c, ups)
    BY <1>2, <2>1, <2>3 DEF CameraHolds
  <2> QED  BY <1>3, <1>5, <2>1, <2>2, <2>4
<1>6. ASSUME NEW p \in Tabs, View(p)  PROVE Goal
  <2>1. CASE StartCamera(p)
    <3>1. PICK ups \in {upsets, upsets + 1} : ups = upsets + 1 /\ upsets' = ups
      BY <2>1 DEF StartCamera, Upset
    <3>2. PICK c : c = [Stopped(camera[p]) EXCEPT !.mode = "starting",
                          !.asked = Stopped(camera[p]).asked \cup
                            {[id |-> ups, stage |-> "asking", stale |-> FALSE]}]
      OBVIOUS
    <3>3. camera' = [camera EXCEPT ![p] = c]
      BY <1>2, <2>1, <3>1, <3>2 DEF StartCamera
    <3>4. CameraHolds(c, ups)
      BY <1>1, <1>2, <3>1, <3>2, StartedCamera
    <3> QED  BY <1>3, <3>1, <3>3, <3>4
  <2>2. CASE TurnOff(p)
    BY <1>5, <2>2 DEF TurnOff, SetCamera
  <2>3. ASSUME NEW s \in camera[p].asked,
               StreamOpens(p, s) \/ StreamPlays(p, s) \/ StreamFails(p, s)
        PROVE  Goal
    <3>1. PICK cam : cam = camera[p]
      OBVIOUS
    <3>2. CameraHolds(cam, upsets) /\ s \in cam.asked
      BY <1>1, <2>3, <3>1
    <3>3. \/ SetCamera(p, Withdrawn(cam, s))
          \/ \E mode : SetCamera(p, [Withdrawn(cam, s) EXCEPT !.mode = mode])
          \/ SetCamera(p, [cam EXCEPT !.asked = @ \ {s}])
          \/ SetCamera(p, [cam EXCEPT !.asked = @ \ {s}, !.mode = "live"])
          \/ /\ s.stage = "asking" /\ ~s.stale
             /\ SetCamera(p, [cam EXCEPT
                          !.asked = (@ \ {s}) \cup {[s EXCEPT !.stage = "playing"]},
                          !.open = @ \cup {s.id}, !.stream = s.id])
      BY <2>3, <3>1 DEF StreamOpens, StreamPlays, StreamFails
    <3>4. ASSUME NEW c, CameraHolds(c, upsets), SetCamera(p, c)  PROVE Goal
      BY <1>3, <3>4 DEF SetCamera
    <3>5. CameraHolds([cam EXCEPT !.asked = @ \ {s}], upsets)
      <4> DEFINE c == [cam EXCEPT !.asked = @ \ {s}]
      <4>1. /\ DOMAIN c = {"mode", "stream", "open", "asked"} /\ c.asked \subseteq cam.asked
            /\ c.open = cam.open /\ c.stream = cam.stream
        BY <3>2 DEF CameraHolds
      <4> HIDE DEF c
      <4>2. CameraHolds(c, upsets)
        BY <3>2, <4>1 DEF CameraHolds
      <4> QED  BY <4>2 DEF c
    <3>6. CameraHolds([cam EXCEPT !.asked = @ \ {s}, !.mode = "live"], upsets)
      <4> DEFINE c == [cam EXCEPT !.asked = @ \ {s}, !.mode = "live"]
      <4>1. /\ DOMAIN c = {"mode", "stream", "open", "asked"} /\ c.asked \subseteq cam.asked
            /\ c.open = cam.open /\ c.stream = cam.stream
        BY <3>2 DEF CameraHolds
      <4> HIDE DEF c
      <4>2. CameraHolds(c, upsets)
        BY <3>2, <4>1 DEF CameraHolds
      <4> QED  BY <4>2 DEF c
    <3>7. CASE SetCamera(p, Withdrawn(cam, s))
      BY <3>2, <3>4, <3>7, WithdrawnCamera
    <3>8. CASE \E mode : SetCamera(p, [Withdrawn(cam, s) EXCEPT !.mode = mode])
      BY <3>2, <3>4, <3>8, WithdrawnCamera
    <3>9. CASE \/ SetCamera(p, [cam EXCEPT !.asked = @ \ {s}])
               \/ SetCamera(p, [cam EXCEPT !.asked = @ \ {s}, !.mode = "live"])
      BY <3>4, <3>5, <3>6, <3>9
    <3>10. CASE /\ s.stage = "asking" /\ ~s.stale
                /\ SetCamera(p, [cam EXCEPT
                          !.asked = (@ \ {s}) \cup {[s EXCEPT !.stage = "playing"]},
                          !.open = @ \cup {s.id}, !.stream = s.id])
      BY <3>2, <3>4, <3>10, OpenedCamera
    <3> QED  BY <3>3, <3>7, <3>8, <3>9, <3>10
  <2> QED  BY <1>6, <2>1, <2>2, <2>3 DEF View
<1>7. ASSUME NEW p \in Tabs, Load(p)  PROVE UNCHANGED <<camera, upsets>>
  BY <1>7 DEF Load, OpenWorkspace, ShowWorkspace, OpeningFails, StoreSelection, ShowSelection,
              SelectionFails, AreaAdded, AdditionFails, SetPage
<1>8. ASSUME NEW n \in Photos, Continue(n) \/ Answer(n)  PROVE UNCHANGED <<camera, upsets>>
  BY <1>8 DEF Continue, Answer, Prepared, PrepareFails, SaveReference, SaveFails, AnswerFails,
              EnsureVersion, Upgrade, Record, RecordFails, AfterRecord, Carry, CarryFails
<1>9. ASSUME NEW p \in Tabs, Use(p)  PROVE Goal
  <2>1. CASE \/ Capture(p) \/ OpenPicker(p) \/ PickFile(p) \/ Cancel(p)
             \/ Retake(p) \/ BeginReplacement(p) \/ CancelReplacement(p)
             \/ Mount(p) \/ Clear(p)
    <3>1. UNCHANGED <<camera, upsets>>
      BY <2>1 DEF Capture, OpenPicker, PickFile, Begin, Cancel, Retake, BeginReplacement,
                  CancelReplacement, Mount, Clear, SetPage
    <3> QED  BY <1>4, <3>1
  <2>2. CASE \/ \E a \in Areas : SelectArea(p, a) \/ AddArea(p, a)
             \/ Translate(p) \/ Leave(p)
    <3>1. /\ camera' = [camera EXCEPT ![p] = Stopped(camera[p])]
          /\ upsets' \in {upsets, upsets + 1}
      BY <2>2 DEF SelectArea, AddArea, Loading, Translate, Leave, Upset
    <3> QED  BY <1>5, <3>1
  <2>3. CASE Reload(p)
    <3>1. PICK ups \in {upsets, upsets + 1} : ups = upsets + 1 /\ upsets' = ups
      BY <2>3 DEF Reload, Upset
    <3>2. PICK b : b = Stopped(camera[p])
      OBVIOUS
    <3>3. PICK c : c = [b EXCEPT !.asked = {}]
      OBVIOUS
    <3>4. camera' = [camera EXCEPT ![p] = c]
      BY <1>2, <2>3, <3>2, <3>3 DEF Reload
    <3>5. CameraHolds(b, upsets)
      BY <1>1, <1>2, <3>2, StoppedCamera
    <3>6. /\ DOMAIN c = {"mode", "stream", "open", "asked"} /\ c.asked = {}
          /\ c.open = b.open /\ c.stream = b.stream
      BY <3>3, <3>5 DEF CameraHolds
    <3>7. CameraHolds(c, ups)
      BY <3>5, <3>6 DEF CameraHolds
    <3> QED  BY <1>3, <3>1, <3>4, <3>7
  <2> QED  BY <1>9, <2>1, <2>2, <2>3 DEF Use
<1> QED  BY <1>4, <1>6, <1>7, <1>8, <1>9 DEF Next, vars, Taken

--------------------------------------------------------------------------------
(* The theorems.                                                            *)

LEMMA InitPage ==
  ASSUME Init
  PROVE  PageInv
<1>1. PICK st : st = stores /\ st \in {EmptyStores, LegacyStores}
  BY DEF Init
<1>2. PICK pg, ck : pg = page /\ ck = checks
  OBVIOUS
<1>3. /\ pg = [p \in Tabs |-> Away] /\ ck = [n \in Photos |-> Untaken]
      /\ camera = [p \in Tabs |-> NoCamera] /\ upsets = 0
  BY <1>2 DEF Init
<1>4. /\ StoreForm(EmptyStores) /\ EmptyStores.versions = {}
      /\ \A k \in Photos : ~InStores(k, EmptyStores)
  BY EmptyForm
<1>5. /\ StoreForm(LegacyStores) /\ LegacyStores.versions = {}
      /\ \A k \in Photos : ~InStores(k, LegacyStores)
  <2> DEFINE e == EmptyStores
             old == [photo |-> 0, version |-> None]
             l == [e EXCEPT !.base[Default] = old]
  <2>1. DOMAIN e = {"areas", "active", "base", "versions", "history"} /\ DOMAIN e.base = Areas
    BY <1>4 DEF StoreForm
  <2>2. old.photo = 0 /\ old.version = None
    OBVIOUS
  <2> HIDE DEF old, e
  <2>3. /\ DOMAIN l = DOMAIN e /\ l.areas = e.areas /\ l.active = e.active
        /\ l.versions = e.versions /\ l.history = e.history
        /\ l.base = [e.base EXCEPT ![Default] = old]
    BY <2>1
  <2> HIDE DEF l
  <2>4. /\ DOMAIN l.base = Areas
        /\ \A a \in Areas : l.base[a] = IF a = Default THEN old ELSE e.base[a]
    BY <2>1, <2>3
  <2>5. \A a \in Areas : PhotoOf(l, a) \in {0, None, PhotoOf(e, a)}
    BY <2>2, <2>4 DEF PhotoOf
  <2>6. StoreForm(e) /\ e.versions = {} /\ \A k \in Photos : ~InStores(k, e)
    BY <1>4 DEF e
  <2>7. \A a \in Areas : PhotoOf(l, a) \in References
    BY <2>5, <2>6 DEF StoreForm, References
  <2>8. \A a \in Areas : l.base[a] # None => l.base[a].version \in Versions
    BY <2>2, <2>4, <2>6 DEF StoreForm, Versions
  <2>9. StoreForm(l)
    BY <2>3, <2>4, <2>6, <2>7, <2>8 DEF StoreForm
  <2>10. \A k \in Photos : ~InStores(k, l)
    BY <2>3, <2>5, <2>6, Numbers DEF InStores
  <2>11. LegacyStores = l
    BY DEF LegacyStores, l, e, old
  <2> QED  BY <2>3, <2>6, <2>9, <2>10, <2>11
<1>6. StoreForm(st) /\ st.versions = {} /\ \A k \in Photos : ~InStores(k, st)
  BY <1>1, <1>4, <1>5
<1>7. \A p \in Tabs : pg[p] = Away /\ PageForm(pg[p]) /\ pg[p].phase = "away"
  BY <1>3 DEF PageForm, Away
<1>8. \A n \in Photos : ck[n] = Untaken /\ CheckForm(ck[n]) /\ ck[n].stage = "idle"
  BY <1>3 DEF CheckForm, Untaken
<1>9. \A p \in Tabs : WorkHolds(pg[p], p, ck)
  BY <1>7, <1>8 DEF WorkHolds, Working
<1>10. \A n \in Photos : TraceHolds(n, st, pg, ck)
  BY <1>6, <1>7, <1>8 DEF TraceHolds, Traceless, Named, OnPage, InHand, Working
<1>11. StateHolds(st, pg, ck)
  BY <1>3, <1>6, <1>7, <1>8, <1>9, <1>10 DEF StateHolds, OneName
<1>12. CameraHolds(NoCamera, 0)
  BY DEF CameraHolds, NoCamera
<1>13. CamerasHold(camera, upsets)
  <2>1. PICK cams : cams = [p \in Tabs |-> NoCamera]
    OBVIOUS
  <2>2. CamerasHold(cams, 0)
    BY <1>12, <2>1 DEF CamerasHold
  <2> QED  BY <1>3, <2>1, <2>2
<1> QED  BY <1>1, <1>2, <1>11, <1>13 DEF PageInv

THEOREM PageInvariant == Spec => []PageInv
<1>1. PageInv /\ [Next]_vars => PageInv'
  <2> SUFFICES ASSUME PageInv, [Next]_vars  PROVE PageInv'
    OBVIOUS
  <2>1. StateHolds(stores', page', checks')
    BY StateKept DEF PageInv
  <2>2. CamerasHold(camera', upsets')
    BY CameraKept DEF PageInv
  <2> QED  BY <2>1, <2>2 DEF PageInv
<1> QED  BY <1>1, InitPage, PTL DEF Spec

\* The controls of every page match the work of the tab and its camera, in every state:
\* a page is locked exactly while an operation works for it (page.tsx's
\* photoOperationRef and operationSequenceRef, against every late continuation), and a
\* stream that runs is the one the page can stop.
THEOREM ControlsMatch == Spec => []ControlsMatchWork
<1>1. PageInv => ControlsMatchWork
  <2> SUFFICES ASSUME PageInv  PROVE ControlsMatchWork
    OBVIOUS
  <2>1. StateHolds(stores, page, checks) /\ CamerasHold(camera, upsets)
    BY DEF PageInv
  <2>2. TypeOK
    <3>1. StoreForm(stores) /\ \A p \in Tabs : Here(p) => MountedForm(page[p])
      BY <2>1, MountedHere DEF StateHolds
    <3> QED  BY <3>1 DEF TypeOK, StoreForm, MountedForm
  <2>3. ASSUME NEW p \in Tabs, Here(p)  PROVE page[p].busy <=> LiveOn(p) # {}
    <3>1. LiveOn(p) = Live(checks, p)
      BY DEF LiveOn, Live, Taken, Pending, Working
    <3>2. WorkHolds(page[p], p, checks) /\ page[p].phase # "away" /\ page[p].busy \in BOOLEAN
      BY <2>1, <2>3, MountedHere DEF StateHolds, Here, MountedForm
    <3>3. /\ page[p].busy => Live(checks, p) = {page[p].latest}
          /\ ~page[p].busy => Live(checks, p) = {}
      BY <3>2 DEF WorkHolds
    <3> QED  BY <3>1, <3>2, <3>3
  <2>4. ASSUME NEW p \in Tabs
        PROVE  /\ camera[p].open \subseteq {camera[p].stream}
               /\ \A s \in camera[p].asked : s.stale => s.id \notin camera[p].open
    BY <2>1 DEF CamerasHold, CameraHolds
  <2> QED  BY <2>2, <2>3, <2>4 DEF ControlsMatchWork
<1> QED  BY <1>1, PageInvariant, PTL

\* What was cancelled or left before its answer or its commit is in no store and on no
\* page, though other operations, of this tab and of others, read references and put
\* them back in between; no area keeps too many records; and no version is taken twice.
THEOREM StoresKeep == Spec => []StoresKeepTheirWord
<1>1. PageInv => StoresKeepTheirWord
  <2> SUFFICES ASSUME PageInv  PROVE StoresKeepTheirWord
    OBVIOUS
  <2>1. StateHolds(stores, page, checks)
    BY DEF PageInv
  <2>2. ASSUME NEW n \in Dropped
        PROVE  /\ \A v \in stores.versions : v.id \notin {n, UpgradeOf(n)}
               /\ \A a \in Areas :
                    /\ PhotoOf(stores, a) # n
                    /\ \A i \in DOMAIN stores.history[a] : stores.history[a][i].photo # n
               /\ \A p \in Tabs : Here(p) => n \notin {page[p].reference, page[p].report}
    <3>1. n \in Photos /\ Spotless(checks[n])
      BY DEF Dropped, Taken, Spotless
    <3>2. Traceless(n, stores, page, checks)
      BY <2>1, <3>1 DEF StateHolds, TraceHolds
    <3> QED  BY <3>2 DEF Traceless, InStores, Named, OnPage, Here
  <2>3. StoreForm(stores) /\ OneName(stores)
    BY <2>1 DEF StateHolds
  <2> QED  BY <2>2, <2>3 DEF StoresKeepTheirWord, StoreForm, OneName
<1> QED  BY <1>1, PageInvariant, PTL
================================================================================
