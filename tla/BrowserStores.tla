----------------------------- MODULE BrowserStores -----------------------------
(***************************************************************************)
(* The IndexedDB database that all tabs of one browser share               *)
(* (src/app/lib/local-database.ts, area-store.ts, area-baseline-store.ts): *)
(* the areas and the active one, each area's reference photo, every        *)
(* version of it, and the recent checks of each area.                      *)
(*                                                                         *)
(* A readwrite transaction is atomic, so each definition here is one       *)
(* transaction: the stores after it as a function of the stores before it. *)
(* What a page does between two of them is in CheckPage.  Only the reads   *)
(* and the write of initializeAreaWorkspace are one step although they     *)
(* are several transactions.                                               *)
(*                                                                         *)
(* A photo is its number.  Photo 0 is a reference that an earlier release  *)
(* of the app stored without a version.  A version id is a random UUID in  *)
(* the code; the photo and who gave it the version identify it here.       *)
(***************************************************************************)
EXTENDS Integers, Sequences

CONSTANTS
  Areas,        \* the ids an area can have
  Default,      \* DEFAULT_AREA_ID
  MaxHistory,   \* MAX_HISTORY_PER_AREA
  None

ASSUME StoreAssumption == Default \in Areas /\ MaxHistory \in Nat \ {0}

\* Stores of a browser that has only an old reference, or nothing at all.
EmptyStores ==
  [areas |-> {}, active |-> None, base |-> [a \in Areas |-> None],
   versions |-> {}, history |-> [a \in Areas |-> <<>>]]

LegacyStores == [EmptyStores EXCEPT !.base[Default] = [photo |-> 0, version |-> None]]

PhotoOf(stores, a) == IF stores.base[a] = None THEN None ELSE stores.base[a].photo

\* initializeAreaWorkspace: the default area in a new browser, and some area of the
\* browser when the recorded one is gone.
Workspaces(stores) ==
  LET created == IF stores.areas = {}
                 THEN [stores EXCEPT !.areas = {Default}, !.active = Default]
                 ELSE stores
  IN  IF created.active \in created.areas
      THEN {created}
      ELSE {[created EXCEPT !.active = a] : a \in created.areas}

\* createArea
WithArea(stores, a) == [stores EXCEPT !.areas = @ \cup {a}, !.active = a]

\* setActiveArea, which aborts when the area is gone.
WithActive(stores, a) == [stores EXCEPT !.active = a]

\* saveBaselineImage, and the second transaction of ensureCurrentBaselineVersion.
\* Neither asks whether the area still exists.
WithReference(stores, a, photo, version) ==
  [stores EXCEPT !.base[a] = [photo |-> photo, version |-> version],
                 !.versions = @ \cup {[id |-> version, area |-> a, photo |-> photo]}]

\* saveCheckHistory: the record is added and the oldest ones of its area beyond the
\* limit are deleted, in one transaction.
WithCheck(stores, a, record) ==
  LET all == Append(stores.history[a], record)
  IN  [stores EXCEPT !.history[a] =
         SubSeq(all, IF Len(all) > MaxHistory THEN Len(all) - MaxHistory + 1 ELSE 1, Len(all))]

================================================================================
