------------------------------- MODULE CheckPage -------------------------------
(***************************************************************************)
(* The tabs of one browser on the check page (src/app/page.tsx, with       *)
(* workspace-panel.tsx, locale-provider.tsx and privacy/page.tsx), over    *)
(* the shared BrowserStores.                                               *)
(*                                                                         *)
(* One action per event handler and per continuation of an await: between  *)
(* two of them the user may cancel, switch areas, change the language,     *)
(* leave for the privacy page or reload.  A continuation works with the    *)
(* area and the reference its handler closed over, so an operation keeps   *)
(* both in its record.                                                     *)
(*                                                                         *)
(*   latest   operationSequenceRef still names this operation, or None     *)
(*   held     photoOperationRef                                            *)
(*   intent   pendingPhotoPurposeRef: a file picker is open for it.        *)
(*            Every increment of photoModeEpochRef also clears it.         *)
(*   opening  the effect that loads the workspace; a change of language    *)
(*            runs it again, whatever the page is doing                    *)
(*   fate     "dropped" when the user cancelled or left the operation      *)
(*            before its answer or its commit                              *)
(*                                                                         *)
(* The tab leaves the page only while no area is being switched.  Toasts,  *)
(* progress, object URLs and performance samples are left out.             *)
(***************************************************************************)
EXTENDS BrowserStores, FiniteSets

CONSTANTS
  Tabs,
  InventoryAreas,   \* areas whose mode is "inventory"
  MaxPhotos,        \* bound: photos taken in a behaviour
  MaxUpsets         \* bound: camera starts, changes of language, departures, reloads

ASSUME PageAssumption ==
  /\ InventoryAreas \subseteq Areas /\ {MaxPhotos, MaxUpsets} \subseteq Nat
  /\ None \notin Areas \cup (0..MaxPhotos)

VARIABLES
  stores,   \* the database
  page,     \* [Tabs -> page]
  checks,   \* [Photos -> operation]
  camera,   \* [Tabs -> camera]
  upsets    \* how many of the MaxUpsets events have happened

vars == <<stores, page, checks, camera, upsets>>

Photos == 1..MaxPhotos
Untaken == [stage |-> "idle"]
Taken == {n \in Photos : checks[n].stage # "idle"}
Pending(n) == checks[n].stage \notin {"idle", "done"}

Viewfinder == {"baseline", "camera"}

\* A tab that shows another page, and the state of a newly mounted Home.
Away == [phase |-> "away"]
Mounted ==
  [phase |-> "loading", area |-> Default, listed |-> {Default}, reference |-> None,
   busy |-> FALSE, latest |-> None, held |-> None, report |-> None, intent |-> None,
   opening |-> "workspace", opened |-> None, selecting |-> None, adding |-> None]

NoCamera == [mode |-> "idle", stream |-> None, open |-> {}, asked |-> {}]

Here(p) == page[p].phase # "away"

Upset == upsets < MaxUpsets /\ upsets' = upsets + 1

\* The phase of a page with this reference.
Rest(reference) == IF reference = None THEN "baseline" ELSE "camera"

--------------------------------------------------------------------------------
(* The camera. *)

\* stopCamera: a new generation, so every start that is still waiting is stale.
Stopped(cam) ==
  [cam EXCEPT !.mode = "idle", !.stream = None, !.open = @ \ {cam.stream},
              !.asked = {[s EXCEPT !.stale = TRUE] : s \in @}]

SetCamera(p, cam) ==
  /\ camera' = [camera EXCEPT ![p] = cam]
  /\ UNCHANGED <<stores, page, checks, upsets>>

\* startCamera, up to getUserMedia.
StartCamera(p) ==
  /\ page[p].phase \in Viewfinder
  /\ ~page[p].busy /\ camera[p].mode = "idle"
  /\ Upset
  /\ camera' = [camera EXCEPT ![p] =
       [Stopped(@) EXCEPT !.mode = "starting",
          !.asked = Stopped(camera[p]).asked \cup
                      {[id |-> upsets', stage |-> "asking", stale |-> FALSE]}]]
  /\ UNCHANGED <<stores, page, checks>>

\* The user grants the stream.  A stale one is stopped at once.
StreamOpens(p, s) ==
  /\ s \in camera[p].asked /\ s.stage = "asking"
  /\ IF s.stale
     THEN SetCamera(p, [camera[p] EXCEPT !.asked = @ \ {s}])
     ELSE SetCamera(p, [camera[p] EXCEPT
                          !.asked = (@ \ {s}) \cup {[s EXCEPT !.stage = "playing"]},
                          !.open = @ \cup {s.id}, !.stream = s.id])

\* The stream is stopped, and taken back where it is still the page's.
Withdrawn(cam, s) ==
  [cam EXCEPT !.asked = @ \ {s}, !.open = @ \ {s.id},
              !.stream = IF @ = s.id THEN None ELSE @]

\* video.play() returns.
StreamPlays(p, s) ==
  /\ s \in camera[p].asked /\ s.stage = "playing"
  /\ IF s.stale
     THEN SetCamera(p, Withdrawn(camera[p], s))
     ELSE SetCamera(p, [camera[p] EXCEPT !.asked = @ \ {s}, !.mode = "live"])

\* getUserMedia or video.play() is refused.
StreamFails(p, s) ==
  /\ s \in camera[p].asked
  /\ SetCamera(p, [Withdrawn(camera[p], s) EXCEPT
                     !.mode = IF s.stale THEN @ ELSE "unavailable"])

\* The timer of the effect that turns the camera off outside the viewfinder.
TurnOff(p) ==
  /\ Here(p) /\ page[p].phase \notin Viewfinder
  /\ camera[p] # Stopped(camera[p])
  /\ SetCamera(p, Stopped(camera[p]))

--------------------------------------------------------------------------------
(* One photo operation at a time. *)

\* Mutant: an operation counts as active after it was cancelled.
ActiveAnyway(n) == Here(checks[n].tab)

\* isPhotoOperationActive
Active(n) ==
  LET p == checks[n].tab
  IN  Here(p) /\ page[p].latest = n /\ page[p].held = n

\* Mutant: the end of any operation unlocks the page.
FinishedAnyway(pg, n) == [pg EXCEPT !.held = None, !.busy = FALSE]

\* finishPhotoOperation: an operation that is no longer the latest unlocks nothing.
Finished(pg, n) ==
  IF pg.latest # n THEN pg
  ELSE [pg EXCEPT !.held = IF @ = n THEN None ELSE @, !.busy = FALSE]

\* What is left of an operation that has ended.
Done(fate) == [stage |-> "done", fate |-> fate]

\* The last continuation of operation n; change is what it does to its own page.
End(n, change(_)) ==
  LET p == checks[n].tab
  IN  /\ checks' = [checks EXCEPT ![n] = Done(@.fate)]
      /\ page' = IF checks[n].mounted
                 THEN [page EXCEPT ![p] = Finished(change(@), n)] ELSE page

Quietly(pg) == pg

Go(n, stage) == checks' = [checks EXCEPT ![n].stage = stage]

\* beginPhotoOperation and the synchronous start of captureFrame or acceptPhoto.
Begin(p, purpose) ==
  \E n \in Photos :
    /\ ~page[p].busy
    /\ n \notin Taken /\ \A k \in Photos : k < n => k \in Taken
    /\ checks' = [checks EXCEPT ![n] =
         [stage |-> "preparing", tab |-> p, mounted |-> TRUE, purpose |-> purpose,
          area |-> page[p].area, reference |-> page[p].reference, aborted |-> FALSE,
          upgraded |-> None, version |-> None, fate |-> "kept"]]
    /\ page' = [page EXCEPT ![p] =
         [page[p] EXCEPT !.busy = TRUE, !.latest = n, !.held = n, !.intent = None,
            !.phase = IF purpose = "current" THEN "analyzing" ELSE @,
            !.report = IF purpose = "current" THEN None ELSE @]]
    /\ UNCHANGED <<stores, camera, upsets>>

PurposeOf(p) == IF page[p].phase = "baseline" THEN "baseline" ELSE "current"

\* captureFrame with a live camera.
Capture(p) ==
  /\ page[p].phase \in Viewfinder /\ camera[p].mode = "live"
  /\ Begin(p, PurposeOf(p))

SetPage(p, pg) ==
  /\ page' = [page EXCEPT ![p] = pg]
  /\ UNCHANGED <<stores, checks, camera, upsets>>

\* openPhotoPicker
OpenPicker(p) ==
  /\ page[p].phase \notin {"away", "loading", "analyzing"} /\ ~page[p].busy
  /\ SetPage(p, [page[p] EXCEPT !.intent = PurposeOf(p)])

\* handleFileChange: the photo goes to the area of the moment.
PickFile(p) ==
  /\ Here(p) /\ page[p].intent # None
  /\ Begin(p, page[p].intent)

\* The photo is ready, or its request is.  A check without a reference ends here and
\* leaves the page analyzing.
Prepared(n) ==
  /\ checks[n].stage = "preparing"
  /\ IF Active(n) /\ (checks[n].purpose = "baseline" \/ checks[n].reference # None)
     THEN /\ Go(n, IF checks[n].purpose = "baseline" THEN "saving" ELSE "sent")
          /\ page' = IF checks[n].purpose = "baseline" THEN page
                     ELSE [page EXCEPT ![checks[n].tab].phase = "analyzing",
                                       ![checks[n].tab].report = None]
     ELSE End(n, Quietly)
  /\ UNCHANGED <<stores, camera, upsets>>

Refused(pg) == [pg EXCEPT !.phase = "error"]

PrepareFails(n) ==
  /\ checks[n].stage = "preparing"
  /\ IF Active(n) /\ checks[n].purpose = "current" THEN End(n, Refused) ELSE End(n, Quietly)
  /\ UNCHANGED <<stores, camera, upsets>>

--------------------------------------------------------------------------------
(* A reference photo is saved. *)

\* saveBaselineImage with the operation's signal: the commit, and the continuation.
SaveReference(n) ==
  /\ checks[n].stage = "saving" /\ ~checks[n].aborted
  /\ stores' = WithReference(stores, checks[n].area, n, n)
  /\ End(n, LAMBDA pg : IF Active(n) THEN [pg EXCEPT !.reference = n, !.phase = "camera"]
                        ELSE pg)
  /\ UNCHANGED <<camera, upsets>>

\* The transaction fails, or the signal aborts it.
SaveFails(n) ==
  /\ checks[n].stage = "saving"
  /\ End(n, Quietly)
  /\ UNCHANGED <<stores, camera, upsets>>

--------------------------------------------------------------------------------
(* A check is answered and recorded. *)

\* The server's report arrives: the last time the operation is asked whether it is
\* still active.
Answer(n) ==
  /\ checks[n].stage = "sent"
  /\ IF Active(n) THEN Go(n, "ensuring") /\ UNCHANGED page ELSE End(n, Quietly)
  /\ UNCHANGED <<stores, camera, upsets>>

\* Mutant: a request without a time limit.
AnswerFailsUntimed(n) ==
  /\ checks[n].stage = "withdrawn"
  /\ End(n, Quietly)
  /\ UNCHANGED <<stores, camera, upsets>>

\* An error, a time out or the abort of the request.
AnswerFails(n) ==
  /\ checks[n].stage \in {"sent", "withdrawn"}
  /\ IF Active(n) THEN End(n, Refused) ELSE End(n, Quietly)
  /\ UNCHANGED <<stores, camera, upsets>>

Concluded(n, pg) == [pg EXCEPT !.report = n, !.phase = "result"]

\* What follows the attempt to record: an inventory carries its photo over.
AfterRecord(n) ==
  /\ IF checks[n].area \in InventoryAreas
     THEN Go(n, "carrying") /\ UNCHANGED page
     ELSE End(n, LAMBDA pg : Concluded(n, pg))
  /\ UNCHANGED <<camera, upsets>>

\* ensureCurrentBaselineVersion, the read: no reference, a reference with a version,
\* or an old one, which gets its version in a second transaction.
EnsureVersion(n) ==
  /\ checks[n].stage = "ensuring"
  /\ LET found == stores.base[checks[n].area]
     IN  checks' = [checks EXCEPT ![n] =
           IF found = None THEN [@ EXCEPT !.stage = "recording"]
           ELSE IF found.version # None
           THEN [@ EXCEPT !.stage = "recording", !.version = found.version]
           ELSE [@ EXCEPT !.stage = "upgrading", !.upgraded = found.photo]]
  /\ UNCHANGED <<stores, page, camera, upsets>>

\* The version that operation n gives to an old reference.
UpgradeOf(n) == MaxPhotos + n

\* ensureCurrentBaselineVersion, the write: it puts back what was read.
Upgrade(n) ==
  /\ checks[n].stage = "upgrading"
  /\ stores' = WithReference(stores, checks[n].area, checks[n].upgraded, UpgradeOf(n))
  /\ checks' = [checks EXCEPT ![n].stage = "recording", ![n].version = UpgradeOf(n)]
  /\ UNCHANGED <<page, camera, upsets>>

\* saveCheckHistory
Record(n) ==
  /\ checks[n].stage = "recording"
  /\ stores' = WithCheck(stores, checks[n].area, [photo |-> n, version |-> checks[n].version])
  /\ AfterRecord(n)

\* One of the three fails: the check is complete without a record.
RecordFails(n) ==
  /\ checks[n].stage \in {"ensuring", "upgrading", "recording"}
  /\ AfterRecord(n)
  /\ UNCHANGED stores

\* An inventory's photo becomes the next reference.
Carry(n) ==
  /\ checks[n].stage = "carrying"
  /\ stores' = WithReference(stores, checks[n].area, n, n)
  /\ End(n, LAMBDA pg : Concluded(n, [pg EXCEPT !.reference = n]))
  /\ UNCHANGED <<camera, upsets>>

CarryFails(n) ==
  /\ checks[n].stage = "carrying"
  /\ End(n, LAMBDA pg : Concluded(n, pg))
  /\ UNCHANGED <<stores, camera, upsets>>

--------------------------------------------------------------------------------
(* The user leaves an operation, or moves about. *)

\* Before the answer or the commit.
Early == {"preparing", "sent", "saving"}

\* The operation held by a page is aborted, with the request of the page.
AbortHeld(p, gone) ==
  checks' = [n \in Photos |->
    IF ~(n \in Taken /\ Pending(n) /\ checks[n].tab = p /\ checks[n].mounted) THEN checks[n]
    ELSE [checks[n] EXCEPT
            !.aborted = @ \/ page[p].held = n,
            !.stage = IF @ = "sent" THEN "withdrawn" ELSE @,
            !.mounted = ~gone,
            !.fate = IF page[p].held = n /\ checks[n].stage \in Early THEN "dropped" ELSE @]]

\* cancelAnalysis
Cancel(p) ==
  /\ page[p].phase = "analyzing"
  /\ AbortHeld(p, FALSE)
  /\ page' = [page EXCEPT ![p] =
       [@ EXCEPT !.intent = None, !.held = None, !.latest = None, !.busy = FALSE,
                 !.report = None, !.phase = Rest(page[p].reference)]]
  /\ UNCHANGED <<stores, camera, upsets>>

\* returnToCamera, beginBaselineReplacement and cancelBaselineReplacement.
Retake(p) ==
  /\ page[p].phase \in {"result", "error"} /\ ~page[p].busy
  /\ SetPage(p, [page[p] EXCEPT !.intent = None, !.report = None,
                                !.phase = Rest(page[p].reference)])

BeginReplacement(p) ==
  /\ page[p].phase \in {"camera", "result", "error"}
  /\ page[p].reference # None /\ ~page[p].busy
  /\ SetPage(p, [page[p] EXCEPT !.intent = None, !.report = None, !.phase = "baseline"])

CancelReplacement(p) ==
  /\ page[p].phase = "baseline" /\ page[p].reference # None /\ ~page[p].busy
  /\ SetPage(p, [page[p] EXCEPT !.intent = None, !.report = None, !.phase = "camera"])

\* The start of selectArea and of addArea.
Loading(p, pg) ==
  /\ page' = [page EXCEPT ![p] = [pg EXCEPT !.intent = None, !.report = None,
                                            !.phase = "loading"]]
  /\ camera' = [camera EXCEPT ![p] = Stopped(@)]
  /\ UNCHANGED <<stores, checks, upsets>>

\* selectArea, from the list the page keeps of the areas.
SelectArea(p, a) ==
  /\ page[p].phase \notin {"away", "loading", "analyzing"} /\ ~page[p].busy
  /\ page[p].selecting = None
  /\ a \in page[p].listed \ {page[p].area}
  /\ Loading(p, [page[p] EXCEPT !.selecting =
                   [area |-> a, stored |-> FALSE, previous |-> page[p].reference]])

StoreSelection(p) ==
  /\ Here(p) /\ page[p].selecting # None /\ ~page[p].selecting.stored
  /\ page[p].selecting.area \in stores.areas
  /\ stores' = WithActive(stores, page[p].selecting.area)
  /\ page' = [page EXCEPT ![p].selecting.stored = TRUE]
  /\ UNCHANGED <<checks, camera, upsets>>

\* The page shows area a with this reference.
Showing(pg, a, reference) ==
  [pg EXCEPT !.area = a, !.listed = @ \cup {a}, !.reference = reference,
             !.phase = Rest(reference)]

ShowSelection(p) ==
  /\ Here(p) /\ page[p].selecting # None /\ page[p].selecting.stored
  /\ LET a == page[p].selecting.area
     IN  SetPage(p, [Showing(page[p], a, PhotoOf(stores, a)) EXCEPT !.selecting = None])

\* The area is gone or the browser fails: the old reference comes back, even when the
\* new area is stored as the active one.
SelectionFails(p) ==
  /\ Here(p) /\ page[p].selecting # None
  /\ SetPage(p, [page[p] EXCEPT !.reference = page[p].selecting.previous, !.selecting = None,
                                !.phase = Rest(page[p].selecting.previous)])

\* addArea: its button is not disabled while the page is loading, and the panel stays
\* open while an area is being selected.  One addition at a time.
AddArea(p, a) ==
  /\ page[p].phase \notin {"away", "analyzing"} /\ ~page[p].busy
  /\ page[p].phase = "loading" => page[p].selecting # None
  /\ page[p].adding = None
  /\ a \notin stores.areas \cup {Default}
  /\ \A t \in Tabs : Here(t) => a \notin page[t].listed /\ page[t].adding # a
  /\ Loading(p, [page[p] EXCEPT !.adding = a])

AreaAdded(p) ==
  /\ Here(p) /\ page[p].adding # None
  /\ stores' = WithArea(stores, page[p].adding)
  /\ page' = [page EXCEPT ![p] = [Showing(@, @.adding, None) EXCEPT !.adding = None]]
  /\ UNCHANGED <<checks, camera, upsets>>

AdditionFails(p) ==
  /\ Here(p) /\ page[p].adding # None
  /\ SetPage(p, [page[p] EXCEPT !.adding = None, !.phase = Rest(page[p].reference)])

--------------------------------------------------------------------------------
(* Loading the workspace, and the events bounded by MaxUpsets. *)

\* initializeAreaWorkspace
OpenWorkspace(p) ==
  /\ Here(p) /\ page[p].opening = "workspace"
  /\ \E opened \in Workspaces(stores) :
       /\ stores' = opened
       /\ page' = [page EXCEPT ![p].opening = "reference",
                               ![p].opened = [area |-> opened.active, listed |-> opened.areas]]
  /\ UNCHANGED <<checks, camera, upsets>>

ShowWorkspace(p) ==
  /\ Here(p) /\ page[p].opening = "reference"
  /\ LET a == page[p].opened.area
     IN  SetPage(p, [Showing(page[p], a, PhotoOf(stores, a)) EXCEPT
                       !.listed = page[p].opened.listed, !.opening = "done", !.opened = None])

OpeningFails(p) ==
  /\ Here(p) /\ page[p].opening # "done"
  /\ SetPage(p, [page[p] EXCEPT !.phase = "baseline", !.opening = "done", !.opened = None])

\* toggleLocale, here or in another tab: the effects that depend on the language run
\* again, which stops the camera and loads the workspace anew.
Translate(p) ==
  /\ Here(p) /\ Upset
  /\ page' = [page EXCEPT ![p].opening = "workspace", ![p].opened = None]
  /\ camera' = [camera EXCEPT ![p] = Stopped(@)]
  /\ UNCHANGED <<stores, checks>>

\* The tab goes to another page of the app: the component unmounts, and what it had
\* not aborted goes on.
Leave(p) ==
  /\ Here(p) /\ page[p].selecting = None /\ page[p].adding = None /\ Upset
  /\ AbortHeld(p, TRUE)
  /\ page' = [page EXCEPT ![p] = Away]
  /\ camera' = [camera EXCEPT ![p] = Stopped(@)]
  /\ UNCHANGED stores

\* The tab is reloaded or crashes: everything it had not committed is gone.
Reload(p) ==
  /\ Here(p) /\ Upset
  /\ checks' = [n \in Photos |->
       IF n \in Taken /\ Pending(n) /\ checks[n].tab = p
       THEN Done(IF checks[n].stage \in Early THEN "dropped" ELSE checks[n].fate)
       ELSE checks[n]]
  /\ page' = [page EXCEPT ![p] = Away]
  /\ camera' = [camera EXCEPT ![p] = [Stopped(@) EXCEPT !.asked = {}]]
  /\ UNCHANGED stores

Mount(p) ==
  /\ page[p].phase = "away"
  /\ SetPage(p, Mounted)

\* clearAllCheckbackData, from the privacy page.
Clear(p) ==
  /\ page[p].phase = "away"
  /\ stores' = EmptyStores
  /\ UNCHANGED <<page, checks, camera, upsets>>

--------------------------------------------------------------------------------
Init ==
  /\ stores \in {EmptyStores, LegacyStores}
  /\ page = [p \in Tabs |-> Away]
  /\ checks = [n \in Photos |-> Untaken]
  /\ camera = [p \in Tabs |-> NoCamera]
  /\ upsets = 0

\* The browser goes on with what was started.
Continue(n) ==
  \/ Prepared(n) \/ PrepareFails(n)
  \/ SaveReference(n) \/ SaveFails(n)
  \/ AnswerFails(n)
  \/ EnsureVersion(n) \/ Upgrade(n) \/ Record(n) \/ RecordFails(n)
  \/ Carry(n) \/ CarryFails(n)

Load(p) ==
  \/ OpenWorkspace(p) \/ ShowWorkspace(p) \/ OpeningFails(p)
  \/ StoreSelection(p) \/ ShowSelection(p) \/ SelectionFails(p)
  \/ AreaAdded(p) \/ AdditionFails(p)

View(p) ==
  \/ StartCamera(p) \/ TurnOff(p)
  \/ \E s \in camera[p].asked : StreamOpens(p, s) \/ StreamPlays(p, s) \/ StreamFails(p, s)

Use(p) ==
  \/ Capture(p) \/ OpenPicker(p) \/ PickFile(p) \/ Cancel(p)
  \/ Retake(p) \/ BeginReplacement(p) \/ CancelReplacement(p)
  \/ \E a \in Areas : SelectArea(p, a) \/ AddArea(p, a)
  \/ Translate(p) \/ Leave(p) \/ Reload(p) \/ Mount(p) \/ Clear(p)

Next ==
  \/ \E n \in Taken : Continue(n) \/ Answer(n)
  \/ \E p \in Tabs : Load(p) \/ View(p) \/ Use(p)

\* The browser goes on with what it has started: decoding, transactions and timers end,
\* and the request has a time limit of 400 s.  That the server answers, or the user
\* grants the camera, is not assumed.
Spec ==
  /\ Init /\ [][Next]_vars
  /\ \A n \in Photos : WF_vars(n \in Taken /\ Continue(n))
  /\ \A p \in Tabs : WF_vars(TurnOff(p))

--------------------------------------------------------------------------------
\* What a page's operations are: the ones nobody has taken away from it.
LiveOn(p) ==
  {n \in Taken : Pending(n) /\ checks[n].tab = p /\ checks[n].mounted /\ ~checks[n].aborted}

References == Photos \cup {0, None}

TypeOK ==
  /\ stores.areas \subseteq Areas /\ stores.active \in Areas \cup {None}
  /\ \A a \in Areas : PhotoOf(stores, a) \in References
  /\ \A p \in Tabs : Here(p) =>
       /\ page[p].phase \in Viewfinder \cup {"loading", "analyzing", "result", "error"}
       /\ page[p].area \in page[p].listed /\ page[p].listed \subseteq Areas
       /\ page[p].reference \in References
       /\ page[p].report \in Photos \cup {None}

\* A page is locked exactly while an operation works for it, whatever was cancelled,
\* left or translated before: the late end of an abandoned operation never unlocks the
\* page under its successor, and none of them leaves it locked.  And a stream that runs
\* is one the page can stop, so the camera never stays on behind its back.
ControlsMatchWork ==
  /\ TypeOK
  /\ \A p \in Tabs : Here(p) => (page[p].busy <=> LiveOn(p) # {})
  /\ \A p \in Tabs : /\ camera[p].open \subseteq {camera[p].stream}
                     /\ \A s \in camera[p].asked : s.stale => s.id \notin camera[p].open

\* What was cancelled or left before its answer or its commit leaves nothing behind, in
\* the database or on a page; and an area keeps no more records than the privacy page
\* says, each with a version that no later one has taken.
Dropped == {n \in Taken : checks[n].fate = "dropped"}

StoresKeepTheirWord ==
  /\ \A n \in Dropped :
       /\ \A v \in stores.versions : v.id \notin {n, UpgradeOf(n)}
       /\ \A a \in Areas : /\ PhotoOf(stores, a) # n
                           /\ \A i \in DOMAIN stores.history[a] : stores.history[a][i].photo # n
       /\ \A p \in Tabs : Here(p) => n \notin {page[p].reference, page[p].report}
  /\ \A a \in Areas : Len(stores.history[a]) <= MaxHistory
  /\ \A v, w \in stores.versions : v.id = w.id => v = w

\* Every operation gives its page back, and outside the viewfinder the camera goes off.
ChecksEnd ==
  \A p \in Tabs :
    /\ (Here(p) /\ page[p].busy) ~> (Here(p) => ~page[p].busy)
    /\ camera[p].open # {} ~> (camera[p].open = {} \/ page[p].phase \in Viewfinder)
================================================================================
