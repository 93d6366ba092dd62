--------------------------- MODULE AuthorityRegistry ---------------------------
(***************************************************************************)
(* The authority registry: LiveAuthorityRegistry of                        *)
(* evaluation/live-shadow/authority-registry.ts, on the anchor, with the   *)
(* dispatches of OfflineLiveShadowGateway (offline-gateway.ts).            *)
(*                                                                         *)
(* A registry is a SQLite file that may be copied or restored; processes   *)
(* open it through handles.  A method that calls the anchor commits to the *)
(* file before the call, after it, or both, and the process may die in     *)
(* between, so such a method is several actions: the commits and the call  *)
(* are one each.  The answer of the anchor may get lost whether or not it  *)
(* committed, and so may a commit of the file.                             *)
(*                                                                         *)
(* Consent windows are not timed: a call refused for the time is a call    *)
(* that is not made, or, at the anchor, a refusal without a cause.         *)
(* Signatures, HMACs and request contents are left out.                    *)
(***************************************************************************)
EXTENDS LocalAnchor

CONSTANTS
    Files,         \* paths of database files
    Handles,       \* processes that open one
    FileRegistry,  \* the registry a file belongs to
    FileOf,        \* the file a handle opens
    SessionOf,     \* the session id it passes
    NoJob,
    Faults         \* whether crashes, lost answers, failed commits and copies happen

ASSUME RegistryAssumption ==
    /\ FileRegistry \in [Files -> Registries]
    /\ FileOf \in [Handles -> Files]
    /\ SessionOf \in [Handles -> Sessions]
    /\ NoJob \notin Grants \cup Keys
    /\ Faults \in BOOLEAN

VARIABLES
    files,    \* authority_meta, authorizations and call_slots of each file
    handles,  \* per handle: program point, checkpoint in use, grant or slot in
              \* use, and the slots whose answer it awaits
    sent,     \* how often the request of a slot was sent
    answered  \* the slots whose result was recorded

vars == <<anchorVars, files, handles, sent, answered>>

R(h) == FileRegistry[FileOf[h]]
File(h) == files[FileOf[h]]

NoFile == [state |-> "absent", cp |-> Unregistered,
           grants |-> [g \in Grants |-> "none"], slots |-> [k \in Keys |-> "none"]]
Unopened == [pc |-> "unopened", cp |-> Unregistered, job |-> NoJob, awaiting |-> {}]
Closed   == [Unopened EXCEPT !.pc = "closed"]

At(h, pc)        == handles[h].pc = pc
Goto(h, pc)      == handles' = [handles EXCEPT ![h].pc = pc]
GotoWith(h, pc, job) ==
    handles' = [handles EXCEPT ![h].pc = pc, ![h].job = job, ![h].cp = File(h).cp]
Write(h, file)   == files' = [files EXCEPT ![FileOf[h]] = file]
Close(h)         == handles' = [handles EXCEPT ![h] = Closed]
Received(h, pc)  == handles' = [handles EXCEPT ![h].pc = pc, ![h].cp = anchor'[R(h)]]

\* An anchor call that throws: it was refused, or its outcome is unknown.
CallFails(call, allowed) ==
    \/ Faults /\ call
    \/ (Faults \/ ~allowed) /\ UNCHANGED anchorVars

\* A commit that fails: #quarantine, which may fail too and then leaves the
\* handle fatal.
CommitFails(h) ==
    /\ Faults
    /\ \/ Write(h, [File(h) EXCEPT !.state = "quarantined"]) /\ Goto(h, "open")
       \/ UNCHANGED files /\ Goto(h, "fatal")

--------------------------------------------------------------------------------
(* initialize, and openExisting.                                            *)

CreateFile(h) ==
    /\ At(h, "unopened") /\ File(h).state = "absent"
    /\ Write(h, [NoFile EXCEPT !.state = "initializing"])
    /\ Goto(h, "initializing")
    /\ UNCHANGED <<anchorVars, sent, answered>>

Register(h) ==
    /\ At(h, "initializing")
    /\ \/ RegisterRegistry(R(h)) /\ Received(h, "registered")
       \/ /\ CallFails(RegisterRegistry(R(h)), anchor[R(h)].sequence = 0)
          /\ Close(h)
    /\ UNCHANGED <<files, sent, answered>>

StoreRegistration(h) ==
    /\ At(h, "registered")
    /\ \/ /\ Write(h, [File(h) EXCEPT !.state = "ready", !.cp = handles[h].cp])
          /\ handles' = [handles EXCEPT ![h] = Unopened]
       \/ Faults /\ UNCHANGED files /\ Close(h)
    /\ UNCHANGED <<anchorVars, sent, answered>>

\* The constructor: only a file that was closed cleanly can be opened.
VerifyDatabase(h) ==
    /\ At(h, "unopened") /\ File(h).state = "ready"
    /\ Goto(h, "verified")
    /\ UNCHANGED <<anchorVars, files, sent, answered>>

\* #acquireSession: the file's checkpoint must be the anchor's ...
InspectRegistry(h) ==
    /\ At(h, "verified")
    /\ \/ /\ Matches(R(h), File(h).cp)
          /\ GotoWith(h, "inspected", NoJob)
       \/ /\ Faults \/ ~Matches(R(h), File(h).cp)
          /\ Close(h)
    /\ UNCHANGED <<anchorVars, files, sent, answered>>

\* ... and still be so when the session is acquired.
Acquire(h) ==
    LET call == AcquireSession(R(h), handles[h].cp, SessionOf[h]) IN
    /\ At(h, "inspected")
    /\ \/ call /\ Received(h, "acquired")
       \/ CallFails(call, AcquireAllowed(R(h), handles[h].cp)) /\ Close(h)
    /\ UNCHANGED <<files, sent, answered>>

StoreSession(h) ==
    /\ At(h, "acquired")
    /\ \/ /\ Write(h, [File(h) EXCEPT !.state = "active", !.cp = handles[h].cp])
          /\ Goto(h, "open")
       \/ Faults /\ UNCHANGED files /\ Close(h)
    /\ UNCHANGED <<anchorVars, sent, answered>>

Working(h) == At(h, "open") /\ File(h).state = "active"

--------------------------------------------------------------------------------
(* importAuthorization.                                                     *)

PrepareAuthorization(h, g) ==
    /\ Working(h) /\ RegistryOf[g] = R(h)
    /\ \A x \in Grants : File(h).grants[x] # "none" =>
          /\ AuthorizationOf[x] # AuthorizationOf[g]
          /\ Authorized[x] \cap Authorized[g] = {}
    /\ Write(h, [File(h) EXCEPT
          !.grants[g] = "prepared",
          !.slots = [k \in Keys |-> IF k \in KeysOf(g) THEN "allocated" ELSE @[k]]])
    /\ GotoWith(h, "claiming", g)
    /\ UNCHANGED <<anchorVars, sent, answered>>

\* The anchor may also refuse because the consent has expired meanwhile.
Claim(h) ==
    LET call == ClaimAuthorization(R(h), handles[h].cp, handles[h].job) IN
    /\ At(h, "claiming")
    /\ \/ call /\ Received(h, "claimed")
       \/ UNCHANGED anchorVars /\ Goto(h, "claim_refused")
       \/ Faults /\ (call \/ UNCHANGED anchorVars) /\ Goto(h, "claim_unknown")
    /\ UNCHANGED <<files, sent, answered>>

\* A refused claim leaves the authorization for review, an unknown outcome
\* quarantines the registry; if this commit fails nothing is recorded.
RejectClaim(h) ==
    /\ handles[h].pc \in {"claim_refused", "claim_unknown"}
    /\ \/ Write(h, [File(h) EXCEPT
             !.grants[handles[h].job] = "review_required",
             !.state = IF At(h, "claim_unknown") THEN "quarantined" ELSE @])
       \/ Faults /\ UNCHANGED files
    /\ Goto(h, "open")
    /\ UNCHANGED <<anchorVars, sent, answered>>

ActivateAuthorization(h) ==
    /\ At(h, "claimed")
    /\ \/ /\ Write(h, [File(h) EXCEPT !.grants[handles[h].job] = "active",
                                      !.cp = handles[h].cp])
          /\ Goto(h, "open")
       \/ CommitFails(h)
    /\ UNCHANGED <<anchorVars, sent, answered>>

--------------------------------------------------------------------------------
(* A dispatch: prepareDispatch, burnDispatch, the send, completeDispatch.   *)

PriorAnswered(h, k) ==
    \A i \in 1..(k[2] - 1) : File(h).slots[<<k[1], i>>] = "result"

PrepareDispatch(h, k) ==
    /\ Working(h)
    /\ \E g \in Grants : k \in KeysOf(g) /\ File(h).grants[g] = "active"
    /\ File(h).slots[k] = "allocated"
    /\ PriorAnswered(h, k)
    /\ Write(h, [File(h) EXCEPT !.slots[k] = "prepared"])
    /\ UNCHANGED <<anchorVars, handles, sent, answered>>

\* burnDispatch reads the row and calls the anchor in one breath.  The anchor
\* may also refuse because its clock is past the expiry.
Burn(h, k) ==
    LET call == ConsumeSlot(R(h), File(h).cp, k) IN
    /\ Working(h)
    /\ File(h).slots[k] = "prepared"
    /\ \/ /\ call
          /\ handles' = [handles EXCEPT ![h].pc = "burnt", ![h].job = k,
                                        ![h].cp = anchor'[R(h)]]
       \/ /\ UNCHANGED anchorVars \/ (Faults /\ call)
          /\ GotoWith(h, "burn_failed", k)
    /\ UNCHANGED <<files, sent, answered>>

\* Mutants: the slot is in doubt but the registry goes on; a failed burn is
\* taken for a success.
BurnFailsQuietly(h) ==
    /\ At(h, "burn_failed")
    /\ Write(h, [File(h) EXCEPT !.slots[handles[h].job] = "anchor_ambiguous"])
    /\ Goto(h, "open")
    /\ UNCHANGED <<anchorVars, sent, answered>>
BurnFailsOptimistically(h) ==
    /\ At(h, "burn_failed")
    /\ Write(h, [File(h) EXCEPT !.slots[handles[h].job] = "dispatching"])
    /\ Goto(h, "sending")
    /\ UNCHANGED <<anchorVars, sent, answered>>

\* Whatever the anchor's error was, the slot is in doubt and the registry is
\* quarantined; if this commit fails nothing is recorded.
BurnFails(h) ==
    /\ At(h, "burn_failed")
    /\ \/ Write(h, [File(h) EXCEPT !.slots[handles[h].job] = "anchor_ambiguous",
                                   !.state = "quarantined"])
       \/ Faults /\ UNCHANGED files
    /\ Goto(h, "open")
    /\ UNCHANGED <<anchorVars, sent, answered>>

\* Mutant: the new checkpoint is stored without the slot's state.
IssueCapabilityOnly(h) ==
    /\ At(h, "burnt")
    /\ Write(h, [File(h) EXCEPT !.cp = handles[h].cp])
    /\ Goto(h, "sending")
    /\ UNCHANGED <<anchorVars, sent, answered>>

\* Only the second commit yields the capability to send.
IssueCapability(h) ==
    /\ At(h, "burnt")
    /\ \/ /\ Write(h, [File(h) EXCEPT !.slots[handles[h].job] = "dispatching",
                                      !.cp = handles[h].cp])
          /\ Goto(h, "sending")
       \/ CommitFails(h)
    /\ UNCHANGED <<anchorVars, sent, answered>>

\* The gateway sends in the same breath as it received the capability, and then
\* awaits the answer, while it may dispatch for other executions.
Send(h) ==
    /\ At(h, "sending")
    /\ sent' = [sent EXCEPT ![handles[h].job] = @ + 1]
    /\ handles' = [handles EXCEPT ![h].pc = "open",
                                  ![h].awaiting = @ \cup {handles[h].job}]
    /\ UNCHANGED <<anchorVars, files, answered>>

CompleteDispatch(h, k) ==
    /\ Working(h) /\ k \in handles[h].awaiting
    /\ File(h).slots[k] = "dispatching"
    /\ \/ /\ Write(h, [File(h) EXCEPT !.slots[k] = "result"])
          /\ answered' = answered \cup {k}
          /\ handles' = [handles EXCEPT ![h].awaiting = @ \ {k}]
       \/ /\ CommitFails(h)
          /\ UNCHANGED answered
    /\ UNCHANGED <<anchorVars, sent>>

--------------------------------------------------------------------------------
(* close.                                                                   *)

\* A registry that is not active is just closed, and so is a fatal handle.
CloseIdle(h) ==
    /\ At(h, "fatal") \/ (At(h, "open") /\ File(h).state # "active")
    /\ Close(h)
    /\ UNCHANGED <<anchorVars, files, sent, answered>>

InFlight(h) == \E k \in Keys : File(h).slots[k] = "dispatching"

\* A request without an answer ends as unknown and quarantines the registry.
CloseInFlight(h) ==
    /\ Working(h) /\ InFlight(h)
    /\ \/ Write(h, [File(h) EXCEPT !.state = "quarantined",
             !.slots = [k \in Keys |-> IF @[k] = "dispatching"
                                       THEN "unknown_after_crash" ELSE @[k]]])
       \/ Faults /\ UNCHANGED files
    /\ Close(h)
    /\ UNCHANGED <<anchorVars, sent, answered>>

\* Otherwise prepared slots are abandoned, and then the session is released.
Abandon(h) ==
    /\ Working(h) /\ ~InFlight(h)
    /\ \/ /\ Write(h, [File(h) EXCEPT
                !.slots = [k \in Keys |-> IF @[k] = "prepared"
                                          THEN "abandoned_before_anchor" ELSE @[k]]])
          /\ GotoWith(h, "releasing", NoJob)
       \/ Faults /\ UNCHANGED files /\ Close(h)
    /\ UNCHANGED <<anchorVars, sent, answered>>

Release(h) ==
    LET call == ReleaseSession(R(h), handles[h].cp) IN
    /\ At(h, "releasing")
    /\ \/ call /\ Received(h, "released")
       \/ CallFails(call, ReleaseAllowed(R(h), handles[h].cp)) /\ Goto(h, "release_failed")
    /\ UNCHANGED <<files, sent, answered>>

\* Mutant: the checkpoint of the release is not stored.
StoreReleaseStale(h) ==
    /\ At(h, "released")
    /\ Write(h, [File(h) EXCEPT !.state = "ready"])
    /\ Close(h)
    /\ UNCHANGED <<anchorVars, sent, answered>>

StoreRelease(h) ==
    /\ handles[h].pc \in {"released", "release_failed"}
    /\ \/ /\ At(h, "released")
          /\ Write(h, [File(h) EXCEPT !.state = "ready", !.cp = handles[h].cp])
       \/ /\ At(h, "release_failed") \/ Faults
          /\ Write(h, [File(h) EXCEPT !.state = "quarantined"])
       \/ Faults /\ UNCHANGED files
    /\ Close(h)
    /\ UNCHANGED <<anchorVars, sent, answered>>

--------------------------------------------------------------------------------
\* The process dies: its capabilities are gone, the file stays as committed.
Crash(h) ==
    /\ Faults /\ handles[h].pc \notin {"unopened", "closed"}
    /\ Close(h)
    /\ UNCHANGED <<anchorVars, files, sent, answered>>

\* Somebody copies file f over file g, which nobody has open: a clone, a backup
\* or the restoration of one.
Copy(f, g) ==
    /\ Faults /\ f # g /\ FileRegistry[f] = FileRegistry[g]
    /\ files[f].state # "absent"
    /\ \A h \in Handles : FileOf[h] = g => handles[h].pc \in {"unopened", "closed"}
    /\ files' = [files EXCEPT ![g] = files[f]]
    /\ UNCHANGED <<anchorVars, handles, sent, answered>>

Init ==
    /\ AnchorInit
    /\ files = [f \in Files |-> NoFile]
    /\ handles = [h \in Handles |-> Unopened]
    /\ sent = [k \in Keys |-> 0]
    /\ answered = {}

Opening(h) == \/ CreateFile(h) \/ Register(h) \/ StoreRegistration(h)
              \/ VerifyDatabase(h) \/ InspectRegistry(h) \/ Acquire(h) \/ StoreSession(h)

Importing(h) == \/ \E g \in Grants : PrepareAuthorization(h, g)
                \/ Claim(h) \/ RejectClaim(h) \/ ActivateAuthorization(h)

Dispatching(h) == \/ \E k \in Keys : PrepareDispatch(h, k) \/ Burn(h, k) \/ CompleteDispatch(h, k)
                  \/ BurnFails(h) \/ IssueCapability(h) \/ Send(h)

Closing(h) == CloseIdle(h) \/ CloseInFlight(h) \/ Abandon(h) \/ Release(h) \/ StoreRelease(h)

Next ==
    \/ \E h \in Handles : Opening(h) \/ Importing(h) \/ Dispatching(h) \/ Closing(h) \/ Crash(h)
    \/ \E f, g \in Files : Copy(f, g)

Spec == Init /\ [][Next]_vars

--------------------------------------------------------------------------------
(* Properties.                                                              *)

FileStates == {"absent", "initializing", "ready", "active", "quarantined"}
SlotStates == {"none", "allocated", "prepared", "dispatching", "result", "anchor_ambiguous",
               "unknown_after_crash", "abandoned_before_anchor"}
GrantStates == {"none", "prepared", "active", "review_required"}
Points == {"unopened", "initializing", "registered", "verified", "inspected", "acquired",
           "open", "claiming", "claimed", "claim_refused", "claim_unknown", "burnt",
           "burn_failed", "sending", "releasing", "released", "release_failed",
           "fatal", "closed"}

\* Every row, meta value and handle has a value its column or field admits.
TypeOK ==
    /\ AnchorTypeOK
    /\ files \in [Files -> [state : FileStates, cp : Checkpoints,
                            grants : [Grants -> GrantStates], slots : [Keys -> SlotStates]]]
    /\ handles \in [Handles -> [pc : Points, cp : Checkpoints,
                                job : Grants \cup Keys \cup {NoJob}, awaiting : SUBSET Keys]]
    /\ sent \in [Keys -> Nat]
    /\ answered \subseteq Keys

\* The calls of an execution keep their order across files and crashes: a slot's
\* request leaves only after the results of all earlier slots were recorded.
CallsKeepOrder ==
    \A k \in Keys : sent[k] > 0 => \A i \in 1..(k[2] - 1) : <<k[1], i>> \in answered

\* A request leaves at most once, only after the anchor consumed its slot, and in the
\* order of its execution's slots, whatever file its process worked on: a clone, a
\* restored backup, or the file another process crashed on.
SendsAreAnchored ==
    /\ \A k \in Keys : sent[k] <= 1 /\ (sent[k] = 1 => k \in consumed)
    /\ CallsKeepOrder

SpentStates == {"dispatching", "result", "unknown_after_crash"}

\* A file with the anchor's checkpoint has the anchor's history: its spent slots
\* are the consumed ones and its active authorizations the claimed ones, so that
\* comparing checkpoints in openExisting is enough to refuse every other file.
CheckpointsIdentifyHistories ==
    TypeOK /\ \A f \in Files :
        LET r == FileRegistry[f] IN
        Matches(r, files[f].cp) => \A g \in Grants : RegistryOf[g] = r =>
            /\ g \in claimed <=> files[f].grants[g] = "active"
            /\ g \in claimed => \A k \in KeysOf(g) :
                   k \in consumed <=> files[f].slots[k] \in SpentStates

InSession(h) == /\ handles[h].pc \notin {"unopened", "initializing", "registered", "verified",
                                         "inspected", "fatal", "closed"}
                /\ Matches(R(h), handles[h].cp) \/ Matches(R(h), File(h).cp)

\* Two processes never hold a registry's session at once: when the anchor would
\* accept one's checkpoint, it would refuse the other's, on the same file, on a
\* clone of it and even with the same session id.
SessionsAreExclusive ==
    \A h, k \in Handles : (R(h) = R(k) /\ InSession(h) /\ InSession(k)) => h = k

InDoubt(f) == \E k \in Keys : files[f].slots[k] \in {"anchor_ambiguous", "unknown_after_crash"}

\* A doubt stops the registry for good: once some file of it records a slot whose
\* request may or may not have been paid for, the anchor never consumes another
\* slot of that registry, not even for an older copy of the file.
DoubtIsFinal ==
    [][\A f \in Files : InDoubt(f) =>
          \A g \in claimed : RegistryOf[g] = FileRegistry[f] =>
              (consumed' \ consumed) \cap KeysOf(g) = {}]_vars

Promise == INSTANCE AnchorPromise WITH
    owner  <- [g \in Grants |-> IF g \in claimed THEN RegistryOf[g] ELSE NoSession],
    spent  <- consumed, Nobody <- NoSession,
    fence  <- [r \in Registries |-> anchor[r].token],
    held   <- {r \in Registries : anchor[r].session # NoSession}

\* Under two rival registries, their processes and their files, the anchor of
\* local-anchor-stub.ts does what RemoteAnchor's service promises.
ImplementsPromise == Promise!Spec

\* Without crashes, lost answers and copies the registry never locks itself out:
\* whenever no process is at work, the file can be opened again, unless a burn
\* was refused or a process closed with a request in flight.
CleanRunsReopen ==
    (~Faults /\ \A h \in Handles : handles[h].pc \in {"unopened", "closed"}) =>
        \A f \in Files :
            \/ files[f].state = "absent"
            \/ anchor[FileRegistry[f]].sequence > 0 /\ files[f].state = "initializing"
            \/ files[f].state = "ready" /\ Matches(FileRegistry[f], files[f].cp)
            \/ files[f].state = "quarantined" /\ InDoubt(f)
================================================================================
