# CheckBack: specification and verification

TLA+ models of the stateful parts of CheckBack, the TLC runs that check them on
small instances, and proofs for every instance. All paths are relative to the
repository (`src/`).

CheckBack compares photos of a place and asks a vision model what is missing.
The state that must not go wrong is in the *shadow evaluation*: ledgers that
decide which paid model request may leave, once, for whom and until when, and that
must come through crashes, revocations and clocks that jump. The web application
keeps less, but its page and its service are where the user's photos, cancellations
and late answers meet. Both are modelled.

## 1. The system

| Component | State it keeps | Operations | Hard behaviour | What makes it correct | Status |
|---|---|---|---|---|---|
| **Collector ledger** `evaluation/collector/ledger.ts` | SQLite: rounds, consent grants, executions, three call slots per execution (Primary, Flash, Plus), revocations, an audit log | create, arm, complete, stop, revoke, recover a round; claim, lock the truth of, give up, finalise an execution; reserve, dispatch, finish a call | any caller order; stop, revocation, expiry, clock rollback between two calls of a runner; late answers; recovery of a runner that lives | no work without a live grant, slots spent once, ended rounds sealed, ground truth blind, log and tables agree, completed rounds evaluable | modelled |
| **Collector runner** `evaluation/collector/runner.ts` | a promise chain in memory | one execution: three provider calls, the labelling callback, the cleanup | crash or refusal between any two awaits; restart | a request leaves at most once; always returns; a case implies cleanup | modelled |
| Collector contracts, fake provider | none (pure) | validation, receipts, canned answers | - | time window, caps | partly |
| **Gateway ledger** `evaluation/live-shadow-boundary/gateway-ledger.ts` | SQLite: boot session, fencing token, clock watermark, challenge reservations, operations; in memory: handles and send capabilities | initialize, open (activate or join), close, recover a dead session; reserve, issue, claim, complete, cancel, expire | two processes on one file; a live process declared dead; reused boot ids; clock rollback; crash around the send | fencing, one reservation per operation, no late claim, every send accounted for, sessions end | modelled |
| **Authority registry** `evaluation/live-shadow/authority-registry.ts` | SQLite: authorizations, executions, slots, state, the last checkpoint it got from the anchor; in memory: dispatch permits, the fatal flag | initialize, open, import, prepare, burn, complete a dispatch, close | an anchor call between two transactions; crash, lost answer or failed commit around it; copies of the file; two processes | a request leaves once and only for a consumed slot; only the file with the anchor's history works; doubt is final; clean runs reopen | modelled |
| **Local anchor** `evaluation/live-shadow/local-anchor-stub.ts` | SQLite: a checkpoint per registry, authorizations, execution ids, slots | register, inspect, acquire, claim, consume, release | stale checkpoints, racing processes, several registries | a slot is consumed once, one session per registry, an execution works in one registry | modelled |
| Offline gateway, rehearsal, request builder | counters of the fake transport | drive registry and fake provider | several dispatches awaiting at once | - | partly: the send and its await |
| Live-shadow contracts and crypto | none | schemas, canonical JSON, signatures | - | - | not modelled: data formats |
| Gateway IPC contracts, request rebuilder, limits | none | stateless verification | - | time bounds | the bounds are guards of GatewayLedger |
| **Remote anchor** `remote-anchor-client.ts`, `-contracts.ts`, `-service-simulator.ts` | client: last checkpoint and time, seen receipts; service: registries, claims, slots, stored requests, quarantine | prepare, exchange, verify; handle, restart | lost, repeated, reordered messages; reused ids; service that forgets; clocks apart | a retry is free; a client believes only its own history; no false alarm; the anchor's promise | modelled |
| Retention vault persistence | SQLite: objects, watermark, audit | open, mutate, close | crash in initialize, clock rollback | projection and log agree | not modelled |
| Key custody, vault binding | keys in memory, destruction receipts | seal, unwrap, destroy | repeated destruction, deadline | a destroyed key never unwraps | not modelled |
| Shadow evaluator | none | statistics and release decisions | numeric edges | gates | not modelled: intervals need reals |
| **Pilot budgets** `evaluation/pilot/*token-budget.ts` and **pilot scripts** `scripts/run-qwen-*-pilot.mjs` | append-only ledger and result files; one process at a time | reserve, send, settle, record a case, start again | death at any step and inside an append; answers that cost more than reserved; two scripts on one account | no call twice or unreserved; cap and red line; doubt stops the run | partly (no dry run, no plan of cases) |
| **Request guard** and **analysis route** `app/lib/request-guard.ts`, `app/api/analyze/route.ts` | in-memory windows, daily count, active count | acquire, handle a request, release | midnight, concurrent requests, failure at any step | limits hold, permits return | modelled |
| **Vision provider**, verification policy | one request's calls | Primary, scout, fast verifier, fallback | parallel calls, timeouts, unusable answers, full lists | nothing is reported missing, or clear, that no verifier said | partly (missing and misplaced objects) |
| **Browser stores** `app/lib/area-store.ts`, `area-baseline-store.ts` | IndexedDB: areas, references, versions, checks | one transaction each | two tabs, steps between transactions | limits, versions | partly (no performance samples) |
| **User interface** `app/page.tsx` | React state and refs, the camera | handlers and their continuations | cancel, switch, translate, leave, reload while something is under way | the page is locked exactly while it works; late results are dropped; everything ends | partly (the check page) |
| Probe scripts, worker, deployment | - | drivers, configuration | - | - | not modelled |

How they interact. A *runner* calls the *collector ledger* for each step and the
provider between two of them; an operator stops, revokes and recovers through
the same ledger. In the live boundary the *gateway ledger* decides, inside the
gateway process, which request signed by the *authority registry* may be sent;
the registry burns each slot at an *anchor* (local stub, or remote client and
service) before it hands an operation out. Evidence goes to the *retention
vault*, whose keys the *custody* can destroy. Completed rounds are exported to
the *evaluator*. The *pilot scripts* call the provider through the web application's
vision provider, with a fetch of their own that reserves and settles every call in
a token ledger. In the web application the *check page* keeps photos in the
*browser stores*, and sends two of them to the *analysis route*, which takes a permit
from the *request guard* and asks the models through the *vision provider*.

The complete hazard list, with the property that watches each hazard, is in
`PROJECT.json`.

## 2. Modules

| Module | Models | Uses |
|---|---|---|
| `CollectorLedger` | `ShadowCollectorLedger` | - |
| `SendAuthority` | abstract: what the ledger promises about requests | - |
| `CollectorRefinement` | the mapping of the ledger's state to `SendAuthority` | `CollectorLedger`, `INSTANCE SendAuthority` |
| `CollectorRun` | `runOfflineShadowExecution`, one per execution, with provider, operator, clock, crashes | `CollectorLedger` |
| `CollectorLedgerProofs` | theorems about `CollectorLedger`, and that it implements `SendAuthority` | `CollectorRefinement` |
| `CollectorRunProofs` | theorems about `CollectorRun` | `CollectorRun`, `CollectorLedgerProofs` |
| `GatewayLedger` | `PersistentGatewayLedger`, the processes that open it, the send | - |
| `LocalAnchor` | `LocalAnchorStub` | - |
| `AuthorityRegistry` | `LiveAuthorityRegistry`, the processes and files it works on, the send of `OfflineLiveShadowGateway.dispatch` | `LocalAnchor` |
| `GatewayLedgerProofs` | theorems about `GatewayLedger` | `GatewayLedger` |
| `AuthorityRegistryProofs` | theorems about `AuthorityRegistry` and its anchor | `AuthorityRegistry` |
| `AnchorPromise` | abstract: what an anchor promises to the authorities | - |
| `RemoteAnchor` | `RemoteAnchorClient`, `RemoteAnchorServiceSimulator` and the network | `INSTANCE AnchorPromise` |
| `RemoteAnchorProofs` | theorems about `RemoteAnchor`, and that it implements `AnchorPromise` | `RemoteAnchor` |
| `TokenBudget` | `adaptive-token-budget.ts`, `token-budget.ts` | - |
| `AdaptivePilot`, `MvtecPilot` | the two pilot scripts | `TokenBudget` |
| `PilotAccount` | both scripts on one account | `INSTANCE` of both pilots |
| `PilotAccountProofs` | theorems about `PilotAccount` and both pilots | `PilotAccount` |
| `RequestGuard` | `request-guard.ts` | - |
| `VisionProvider` | what the provider makes of the models' answers (no state) | - |
| `AnalysisRoute` | the POST handler, for several requests at once | `RequestGuard`, `VisionProvider` |
| `AnalysisRouteProofs` | theorems about `AnalysisRoute` and the request guard | `AnalysisRoute` |
| `BrowserStores` | the IndexedDB transactions (no state of its own) | - |
| `CheckPage` | `Home` of `page.tsx` in each tab, the camera, the stores | `BrowserStores` |
| `CheckPageProofs` | theorems about `CheckPage` and the browser stores | `CheckPage` |
| `MC...` | instances for TLC | the module they name |

### CollectorLedger

Each public method of `ledger.ts` runs in one `BEGIN IMMEDIATE` transaction, so
one action is one committed transaction; a method that throws rolls back and is
a stuttering step. Two methods are not that simple, and are modelled as they are:

- `#guard` runs at the start of most methods. When it finds a revocation, a
  clock rollback or an expiry it *commits* the end of the round and the caller is
  then refused: `EndByGuard`, a disjunct of every guarded action. Only when it
  passes does it move `last_observed_ms`.
- `revokeAuthorization` is two transactions, `RecordRevocation` and
  `StopRevokedRounds`, with anything in between.

`finishCall`, `markExecutionIncomplete`, `finalizeExecution` and `stopRound` have
no guard, in the code and in the model.

State: `status`, `lastObserved` (rounds), `grantOf` (execution_grants), `execs`
(executions: state, candidates present, `locked_at_ms`), `calls` (state, outcome,
`reserved_at_ms`, `completed_at_ms`), `revoked`, and the audit log as the set of
event types each object has, because the code reads the log as well as the
tables. `now` is the injected clock; it jumps to any instant, both ways.

Abstracted: tokens and receipts are HMACs of the row they name and each slot is
reserved once, so "the token matches" is "the call is in that state". The
caller-supplied `network_attempts` of a completion is assumed honest, the trusted
time of a transition must equal the clock (otherwise the call throws). Envelope
schemas, the hash chain of the audit log and the read-only methods
(`exportSuite`, `getRoundStatus`, `getExecution`, `verifyAuditChain`) are left out.

### CollectorRun

A runner is a program counter per execution: `Start`, then for each slot
`Reserve`, `Dispatch`, `Invoke`, `Answer`, `Finish`, with `Label` and `Lock`
after the Primary, then `Cleanup` and `Finalize`. `GiveUp` is the inner catch,
`Unwind` the finally block, `FailPrimary` the branch of a failed Primary. The code
calls `reserveCall`, `markDispatched` and `lockGroundTruth` *outside* the inner
try blocks: a refusal there goes straight to `Unwind`, and the execution stays
running unless its cleanup fails too or somebody recovers the round. A crash
resets the counter; a new process starts over with `claimExecution`. `sent`
counts the requests the provider received, `cleaned` the verified cleanups.

### GatewayLedger

`Handles` are ledger objects in processes, `Boots` the boot session ids they are
opened with, which may repeat. `Activate` and `RecoverConfirmedDead` take the next
fencing token; `Mutate` is `#mutate`: the session check and the clock watermark.
`Close` marks the object closed even when fencing or a clock rollback keeps it
from ending the session. `Complete` burns the capability before it checks
anything. `IssueVerifiedDispatch` and `ClaimBeforeSend` commit an expiry although
they throw. `Send` is external: no ledger call protects it, and a process that
was wrongly declared dead may still do it. Signatures, HMACs, and the optional
minimum checkpoint are left out; `clean_shutdown` always changes with the active
session and is folded into it.

### LocalAnchor and AuthorityRegistry

The anchor is trusted storage that cannot be copied; a registry is a file that
can. `LocalAnchor` has one action per method that writes, and its `...Allowed`
operator for the method's checks. A checkpoint is sequence, session and token: an
event chain per registry makes the sequence number determine the head hash.
`#assertActiveSession` compares the session a checkpoint already names, so it is
part of `Matches`.

A registry method that calls the anchor commits before the call, after it, or
both, and each of these is an action: `PrepareAuthorization`, `Claim`,
`ActivateAuthorization` for `importAuthorization`; `Burn`, `IssueCapability` for
`burnDispatch`; `Abandon`, `Release`, `StoreRelease` for `close`; and so on. Between any
two of them the process may die (`Crash`), the anchor's answer may get lost whether
or not it committed (`CallFails`), a commit may fail and so may the quarantine that
records the failure (`CommitFails`, and the `UNCHANGED files` branches), and somebody
may copy the file over another path (`Copy`): a clone, a backup, a restoration.
`Faults` turns these off for the run about clean use.

State: `files` (state, checkpoint, authorizations and slots per path), `handles` (a
program counter per process, the checkpoint it holds, the slots it awaits), and
two observers, `sent` and `answered`. The gateway's `dispatch` runs up to its send
without an await and may then run for another execution: `Send` gives the handle
back and leaves the slot in `awaiting`.

Abstracted: time windows of consents are not timed; a call the clock refuses is one
that is not made or, at the anchor, a refusal that may always happen (`Claim`, `Burn`).
`prepareDispatch` is an action of its own, as for a caller other than the gateway.
The crash of `initialize` between creating the file and its first commit leaves a
file that is refused like one in state `initializing` and is not distinguished from it.

### AnchorPromise

An owner per consent, the set of spent slots, a fence and whether a registry has a
session. A consent, and each execution it names, belongs to one registry for good; a
slot is spent once, in order, by its owner while it has a session; each session has a
new token. `AuthorityRegistry` with `LocalAnchor` implements it, and so does
`RemoteAnchor` until the service loses its memory.

### RemoteAnchor

`Prepare` is `prepare` with what its callers choose: a fresh request id, one that was
used before, an idempotency key of another request, a clock ahead of the service's. `wire`
and `answers` only grow, so a message may arrive late, repeatedly or never.
`Receive` is `verifyResponse`: an answer that fails a check leaves the client as it
was. The service's `handle` is `Commit`, `Observe`, `Reject`, `Conflict`, `ClockFails`; an exact
repetition gets the stored answer, which is on its way already. A head hash is the
history it covers, a sequence of request ids and times. `Restart` is a new service with the same
keys: the code keeps everything in memory. A client process that dies leaves
its client unused, and the next process is another client of the same registry.
Left out: signatures and encodings, enrolment, the IPC transcript around a consumption.

### TokenBudget, AdaptivePilot, MvtecPilot, PilotAccount

A ledger file is the calls it reserves, what it settles of them, and whether its last
line is torn. `...Allowed` are the checks of the functions that create an event,
`...SummaryHolds` those of the summary that every reader computes. The pilots are a
program counter over these files: `Start` is `main` up to its loop with every check
that may refuse; `Send`, `Settle`, `Lose` are the controlled fetch; `Decide` and `AppendResult` the
end of a case. `Crash` is a death between two steps, `CrashInAppend` one inside an append, after
whole lines or in the middle of one. `used` is what a call really cost, which may be
more than its reservation (the code then refuses the settlement and the call stays
pending). `todo` holds the places of the cases still to take, the least of them next. `PilotAccount` runs both on one account: `loadPriorUsage` pins the MVTec ledger.

### RequestGuard, VisionProvider, AnalysisRoute

The guard's functions are synchronous, so `Acquire`, `Refuse` and `Release` are parts of one step of a
handler. An expired window is the empty one. `VisionProvider` has one operator per
function that decides: `GuardSaturated`, `Merge`, `BatchHolds`, `FastDecides`, `Item`, `Status`. An answer says
of each object whether it is raised and how; ids, boxes, texts and added objects are left
out. `AnalysisRoute` is the handler: permit, body, the observers side by side,
verification in mode off, shadow or active, report, and the finally block as part of every
way out (`Finish`).

### BrowserStores, CheckPage

One action per handler and per continuation of an await. An operation keeps the area
and the reference its handler closed over; `latest` and `held` are
`operationSequenceRef` and `photoOperationRef`, so `Active` and `Finished` are the code's two
functions. A check goes `preparing`, `sent`, `ensuring`, `upgrading`, `recording`, `carrying`; a new
reference `preparing`, `saving`. `AbortHeld` is what cancelling and leaving do to the operation the
page holds. The camera has a generation: a start that was overtaken is `stale`. `upsets`
counts camera starts, changes of language, departures and reloads.

Taken as one step although the code has several: `initializeAreaWorkspace`, and loading an
area's reference together with showing it. The tab leaves the page only while no area is
being switched, and adds one area at a time. A photo's number stands for the random ids of
its operation and version.

### SendAuthority

Only what a request needs to leave: an execution is enlisted in one round, a slot
goes unspent, reserved, sent, settled (or void) and is sent once in an open round;
closing a round withdraws its unsent reservations *in the same step*.

## 3. Runs

| Run | Instance | Shows |
|---|---|---|
| `ledger_one` | 1 round, 1 execution, 4 instants, window [0,3) | `TypeOK`; `EndedRoundsAreSealed`, `TruthPrecedesVerifiers`, `LogsAgree`, `LateAnswersAreAccepted`; `WorkNeedsLiveGrant`, `SlotsAreSpentOnce`, `EndingsAreFinal` |
| `ledger_shared` | 3 rounds, 2 of them with one grant, the third's grant of 2 executions sharing one with it, 2 instants | `CompletedRoundsAreEvaluable` (rounds share no grant, and a completed one is whole), `ImplementsSendAuthority` |
| `run_one` | 1 runner, operator, crashes, 3 instants, fairness | `NeverResent`, `VerifiersAreBlind`, `CasesAreClean`, `RunnersReturn`, `OpenWorkSettles` |
| `run_pair` | 2 runners of one round, clock at rest | `CompletedRoundsCostThreeN` |
| `gateway_two` | 2 handles with one boot id, 2 requests for 1 operation, 3 instants, fairness | `ReservationsFundOneOperation`, `ClaimsAreTimely`, `SessionsEnd` |
| `gateway_three` | 3 handles, 2 boot ids, 2 operations, 2 instants | `OwnershipIsFenced` (types, open rows belong to the live session, owners never share a token), `SendsAreAccounted`, `TriggersNeverFire` |
| `registry_clone` | 2 processes on a file, 1 on a copy, 2 executions of 2 slots, faults | `SendsAreAnchored` (a request leaves once, for a consumed slot, after the earlier ones were answered), `CheckpointsIdentifyHistories`, `SessionsAreExclusive`, `DoubtIsFinal` |
| `registry_clean` | 2 processes on a registry and 1 on another, 2 consents sharing an execution, no faults | `CleanRunsReopen`, `ImplementsPromise` |
| `remote_anchor` | 1 registry with 2 processes, each with its session, 1 consent, 1 execution of 1 slot; 5 requests, 2 upsets (ids and keys used again, clocks ahead or moved, restarts); messages repeated, reordered, late and lost | `RetriesAreFree`, `HistoriesAreOwn`, `LoneClientsKeepUp`, `ImplementsPromise` |
| `pilot` | 2 MVTec cases with 2 attempts, 3 adaptive cases, a call reserved at 2 tokens costs 1 or 3 | `SpendingIsCovered`, `DoubtIsQuiet` |
| `analysis` | a crowd of 4 requests of 2 clients over 2 days; one request with every answer of the models for 2 objects, in every mode | `RequestsAreBounded`, `ReportsAreEarned`, `PermitsReturn` |
| `browser` | 1 tab, the default area and an inventory, 2 photos, 1 upset, histories of 1 record | `ControlsMatchWork`, `StoresKeepTheirWord`, `ChecksEnd` |

Bounds, and why they are enough:

- `MaxTime`: the clock takes every value of `0..MaxTime` in any order. Comparisons
  are between two or three instants (last observed, now, end of the window;
  Primary's answer, truth, Flash's reservation), so four instants give every order
  of them plus an expired one. The runs about two executions or three rounds are
  about counting and sharing, not time, and have fewer.
- One round and one execution are enough where transactions touch one row;
  counting (`completeRound`) and the per-execution reset need two executions,
  sharing of a grant and of an execution id needs three rounds.
- `FailedOutcomes` has one member: the code never distinguishes failures.
- Each handle is opened once. Three handles allow the chain activate, declare
  dead, activate again under the same id, join, with the first process alive.
- Two slots per execution show the order of slots (the code has three), and two
  executions that a doubt about one ends the other. All processes have the same
  session id, which is the harder case: nothing but the checkpoint tells them apart.
- Counters (`fence`, `sequence`, `token`, `sent`) are bounded by these sets, not by guards:
  a handle opens a ledger or registry once.
- `RemoteAnchor` bounds the requests prepared (`MaxRequests`) and those unanswered
  (`MaxOpen`) in the guard of `Prepare`; an upset (a reused id or key, a clock ahead or moved, a
  restart) counts as two requests, so that the behaviours with faults are shorter.
  Two open requests are enough for every reordering of a pair of answers.
- In `pilot` the caps are just large enough for one overrun and too small for all cases, so that every refusal
  happens; three adaptive cases reach the call limit and both caps.
- In `analysis` a window of two ticks and days of three put midnight inside a window;
  `Loads` keeps the many requests and the many answers in separate behaviours, because a
  request's answers do not touch the guard.
- In `browser` one upset at a time is enough to overtake any operation, and two photos to
  have an abandoned operation beside its successor. `MaxPhotos` bounds `Begin`, `MaxUpsets` the
  events it names; cancelling, switching and adding areas are not bounded.

Deadlock is checked in the runs of the collector, the gateway and the page. The `registry`,
`remote_anchor`, `pilot` and `analysis` runs end (every handle closed, every request sent and
answered, no case left) and say so with `CHECK_DEADLOCK FALSE`.

Every property has a mutant in `PROJECT.json`, a plausible slip in one definition
that the run detects. The mutated forms stand beside the definitions they change.

### Fairness

- *Runner* (`RunnerFairness`, weak, per execution): an async function whose every
  await settles. The provider call has a timeout and the callbacks return or throw.
  A crash stays possible: fairness is of `RunnerStep`, which a crash disables.
- *Recovery* (`RecoveryFairness`, weak): an operator runs `recoverInterrupted` on a
  round whose runners are at rest. The code has no automatic recovery, so this
  is an assumption about its operation. Without it an execution whose runner
  crashed stays open, which is how the code is.
- *Gateway* (`Fairness`): whoever opened a ledger closes it (weak); a session whose
  owner is gone is declared dead (strong, since a clock behind the watermark
  may disable it again and again); a clock set back catches up (weak).
- *Analysis* (weak, per request, of `Work`): every call to a model has a timeout. Reading
  the body is not fair: nothing in the code bounds how long a caller takes to send it,
  and a handler that waits for it holds its permit. `PermitsReturn` therefore starts at
  the first call to a model.
- *Page* (weak, per operation, of `Continue`; and of `TurnOff`): decoding, transactions and timers end,
  and the request has a time limit of 400 s (`AnswerFails`). That the server answers, that the user
  grants the camera, or that anybody presses a button is not assumed.

## 4. Proofs

`CollectorLedgerProofs`, for every set of rounds, grants and executions, every
window and every clock, from `ConstantsAssumption` alone (types of the constants,
finitely many executions, failed outcomes distinct from the reserved words):

- `TypeCorrect`: `Spec => []TypeOK`. It needs `ClaimsAreGranted`: an execution that
  was claimed has a grant, so that the actions on it look at an existing round.
- `RoundsSealed`: `Spec => []EndedRoundsAreSealed`. The property alone is not
  inductive. A completed round is sealed because its executions are complete
  and those have only results (`RowsMatch`); a round that is still active must
  have no ending in its log, or recovery of an ended one could not be told from a
  first ending (`EndsAreLogged`); all calls of an ended round are reached through
  ended executions (`ExecutionsEnd`); a new round meets no old execution
  (`FundedRoundsExist`). For `completeRound` a counting argument shows that
  if as many executions are complete as the grant allows then every claimed
  one is complete (`CompletionCoversAll`, with the library's facts on
  cardinality). `SealInv` is the conjunction. The step is one lemma per kind of
  transaction (`TerminateSeals`, `CompleteSeals`, `RecoverSeals`, ...), most of which rest
  on two frame lemmas: a step that ends no round and one that changes one
  execution's rows.

The ledger's three action properties follow from `SealInv`, one lemma per kind of step:

- `SlotsSpentOnce`: `Spec => SlotsAreSpentOnce`. Claiming an execution resets its calls
  to planned; it takes `RowsMatch` to know that it has none yet.
- `EndingsFinal`: `Spec => EndingsAreFinal`.
- `WorkIsGranted`: `Spec => WorkNeedsLiveGrant`. A step that ends rounds, records an
  answer or gives an execution up works in no round (`IdleRound`); all others
  pass the guard, on the round `grantOf` names and on no other (`GuardedLives`).

The other properties of the ledger each have an invariant that contains `SealInv`:

- `TruthIsBlind`: `Spec => []TruthPrecedesVerifiers`, whatever the clock does. Three
  transactions read the clock: Primary's answer, the truth, Flash's reservation. What
  orders their readings is `last_observed_ms`: while a round is active it is an upper bound
  of all instants recorded in it (`Observed`), and the guard lets nobody work before it.
  `TruthInv` adds the order so far (`Ordered`).
- `SuitesAreWhole`: `Spec => []CompletedRoundsAreEvaluable`. `completeRound` only counts.
  `SuiteInv` says that no two rounds have one grant, that a complete execution is evaluable
  and that all executions of a completed round are complete; `CompletionIsWhole` is the counting argument.
- `LogsTellTheTables`: `Spec => []LogsAgree`, and `LateAnswersCount`: `Spec => []LateAnswersAreAccepted`.
  `LogInv` strengthens the agreement per row (`RoundAgrees`, `ExecAgrees`, `CallAgrees`): nothing is logged of a call
  that is not taken yet, an execution given up by its caller has nothing in flight, and a
  verifier's slot is taken only for a candidate.

The last part shows `SendsAreAuthorized`: `Spec => ImplementsSendAuthority`. Three kinds of
transactions are steps of their own (`Enlist`, `Reserve`, `Send`); every other one is a `Withdraw`, of nothing
or of what it closes, because the rounds that are closed afterwards are sealed (`SealInv'`). With it
every property of the collector ledger that the runs check is proved.

`GatewayLedgerProofs`, for every set of handles, boot ids, requests and operations and
every movement of the clock, from `ConstantsAssumption` alone, proves every property
of the gateway that the runs check except the liveness of `SessionsEnd`:

- `OwnershipFenced`: `Spec => []OwnershipIsFenced`. The strengthening (`RowsAreLive`) says that
  an open row's session exists, so that nothing is open without an active session and an
  activation has nothing to adopt. Closing and recovery end all open rows because all carry
  the live token (`NothingStaysOpen`); owners stay apart because tokens only grow and
  only `Activate` makes an owner (`OwnersStayFenced`).
- `SendsAccounted`: `Spec => []SendsAreAccounted`. `Accounted` relates, for every state of an
  operation's row, the recorded attempts, the use of the capability and what left. It has to
  speak of capabilities after a crash: only a claim makes one, and a used one stays used.
- `TriggersSilent`: `Spec => TriggersNeverFire`, from the types, with the stronger fact that rows
  keep their session, request and expiry while they move (`RowsMove`).
- `ReservationsFund`: `Spec => []ReservationsFundOneOperation`. `FundInv` adds what ties a
  reservation's expiry to its request's and its sequence to its state. Steps that reserve,
  consume and issue nothing keep it because of `RowsMove` (`FundsStay`); the other two are
  `ReserveFunds` and `IssueFunds`.
- `ClaimsTimely`: `Spec => ClaimsAreTimely`. The watermark bounds the row's expiry from the
  guard of the claim, `FundInv` bounds that by the reservation's and the request's.

`AuthorityRegistryProofs`, for every set of registries, files, processes, consents and
executions, with every crash, lost answer, failed commit and copied file, from
`AnchorAssumption` and `RegistryAssumption`:

- `SendsAnchored`: `Spec => []SendsAreAnchored`. `AuthInv` says what a file and a process know: a file's active
  consents are claimed, a prepared slot is allowed and its earlier slots are answered, and a
  process that may send holds a consumed, unsent slot that no other process holds.
- `AnchorKeepsPromise`: `Spec => ImplementsPromise`. From the same invariant every step asks the anchor for nothing
  or only for what its registry owns, in a session (`AnchorStep`), and such a step maps to one of
  `AnchorPromise` or to a stutter.
- `CheckpointsIdentify`, `SessionsExclusive`, `DoubtsFinal`: `Spec => []CheckpointsIdentifyHistories`,
  `Spec => []SessionsAreExclusive`, `Spec => DoubtIsFinal`. The invariant `TellInv` is about checkpoints: all of them are earlier
  ones of the anchor's or its last (`Bounded`); the last one is in files that tell its history,
  or with the one process that received it and whose file will tell it once that process has
  stored what it received (`NewestIsPending`, `WillTell`); a file has one writer and a token one process
  (`WritersApart`, `TokensApart`); consents of all registries share no execution (`ClaimsApart`); and a slot in doubt
  leaves the session it was in to a process with a quarantined file (`DoubtsStop`). Steps are of two
  kinds. Local ones move a process and its own file (`Settles`, `LocalKeeps`). Calls move the anchor's
  checkpoint past every other one, and only a process that is alone in the session gets one
  through (`Alone`, `Calls`, `CallKeeps`).

- `CleanRunsStayOpen`: `Spec => []CleanRunsReopen`, where `Faults` is off. `CleanInv` says that no process has
  failed, that of a registry's files one at most is in use (`OwnersApart`), and that a file carries the anchor's
  checkpoint or a process at it is about to bring it up to date, and is quarantined only with a slot
  in doubt (`KeptFile`). With `AuthInv` and `TellInv`, which say which calls of the anchor such a process can
  get through, each of the registry's methods keeps it.

`CollectorRunProofs`, for every set of executions and every interleaving of their runners with stops,
revocations, recoveries, crashes and the clock, from `ConstantsAssumption`: `NothingSentTwice`,
`VerifiersBlind`, `CasesClean`, `RoundsCostThreeN`. Every step of a runner is a transaction of the ledger or
invisible to it, so the invariants of `CollectorLedgerProofs` are kept and `RunInv` only adds what ties the
runners to the log: what was sent, as a call's log tells it (`SentAsLogged`); what a complete
execution had (`CompleteIsClean`); and what a runner may rely on at each of its program points although others
work in its round (`PointHolds`: at `invoke` the dispatch is logged and nothing was sent). That others cannot
take this away is one lemma: their steps are `Quiet`, claims stay and logs grow. The
theorems are about `RSpec`, which the fair specification of `run_one` implies.

`RemoteAnchorProofs`, for every number of clients, registries, consents and requests and every order, loss and
repetition of messages, from `RemoteAssumption`: `RetriesFree`, `HistoriesOwn`, `LoneClientsAccept` and, step by
step, `RemoteAnchorKeepsPromise`: `Spec => ImplementsPromise`. In `AnchorInv`, `StoreSound` says that the service stores
one receipt per id and key and one for each slot that was bought; `Remembers`, that until it loses its memory it has
stored all it answered; `OwnHistory`, that every entry a client has in its history since it first believed
one was told it; and `InStep`, that a client which works alone believes the registry's checkpoint, or that the one answer
under way will tell it. For the refinement the service's guards are those of the promise,
under the mapping of the registries' histories.

`AnalysisRouteProofs`, for all limits, windows, days and loads of requests and answers, from `GuardAssumption` and
`LoadAssumption` (finitely many requests; answers of the forms the provider's schemas let through):

- `RequestsBounded`: `Spec => []RequestsAreBounded`. The property speaks of any stretch of time, the guard remembers
  one window per client, and forgets it at midnight. `RouteInv` relates the guard's counters to the handlers that were
  admitted (`Counts`). A client with a window came `count` times since it opened (`Open`), one without came fewer than
  a limit's times in the last stretch of the day (`Idle`), and both carry what is true of all
  stretches that ended before. When a window closes or midnight falls, this becomes a bound on the
  day (`DayHolds`: one limit in its first stretch, fewer than two in any other), and the day before and the day after
  add up to fewer than three.
- `ReportsEarned`: `Spec => []ReportsAreEarned`. A report is made of answers that its handler still keeps, in one of
  three ways (`ReportHolds`): without a verifier, on the fast tier's word, on the deciding model's. Each way
  is compared with the property object by object, for every set of objects.

`CheckPageProofs`, for every number of tabs, areas, photos and camera upsets, from `PageAssumption`:

- `ControlsMatch`: `Spec => []ControlsMatchWork`. `WorkHolds` says that the operations that work for a page are none, or
  the one that `operationSequenceRef` and `photoOperationRef` both name, exactly when the page is busy; that a finished or
  aborted one is not named any more is what the code's `finishOperation` rests on. `CameraHolds` says that of all camera starts under
  way one at most is not stale, and that only the stream of a start the page knows is on.
- `StoresKeep`: `Spec => []StoresKeepTheirWord`. What is inductive is a statement about operations that have committed
  nothing *yet*, not only about the dropped ones: such an operation (`Spotless`) left no trace in the database
  or on a page, nor in what other operations or a change of area hold in their hands and will put back
  (`Traceless`). And an operation that works has not used the names of the versions it will write (`TraceHolds`),
  so that none is numbered twice (`OneName`) however the tabs' transactions interleave.

`PilotAccountProofs`, for all lists of cases, all consumptions, reservations, caps and allowances, and deaths
at any step and inside any append, from `BudgetAssumption` and `AccountAssumption`. The second says that no
case is named twice (the MVTec script refuses such a manifest, and `SELECTED_CASES` has none) and that the
imported usage leaves the red line: `loadPriorUsage` accepts 120,167 + 8,997 and 24,805 + 3,327 tokens only, of 1,000,000 with
300,000 to remain.

- `SpendingCovered`: `Spec => []SpendingIsCovered`. `AccountInv` says of each ledger (`BookHolds`) that what is settled was
  reserved and settled for what it used, that a call leaves once and after its reservation, that the charges are within
  the cap, and that a tier has one pending call at most; of the results (`RowsHold`), that they stand on
  settled calls; and of a live process (`Trusts`, `MvtecProc`, `AdaptiveProc`), that its files hold no doubt, that
  the cases it has left have no result, and that the pending calls are the ones in its hands. The charges stay within
  the caps because every reservation is checked on the ledger it leads to, and one that a death cuts short charges
  less (`ChargesGrow`). What was consumed is compared with what was charged, call by call (`ConsumedIsCharged`), and an overrun
  call stays pending, so that a tier has one (`OneOverrun`).
- `DoubtsQuiet`: `Spec => DoubtIsQuiet`, from the same invariant: only `Send` moves `sent`, and a process that sends is live.
- Charges are sums over sets of calls. What a sum does when a call is added, removed or charged less
  (`SumRemove`, `SumMonotone`) is induction over finite sets; in place of the library's theorem, which takes the predicate as a
  parameter, a bad set without a smaller bad one (`SmallestSet`) is led to a contradiction.

Only model-checked: liveness under fairness (`RunnersReturn`, `OpenWorkSettles`, `SessionsEnd`, `PermitsReturn`,
`ChecksEnd`), which is out of the prover's reach, as is `ENABLED`.

## 5. What the models show of the code besides

Behaviours that the models have because the code has them, and that no property
excludes:

- *A check cancelled during the saves.* `analyze` asks for the last time whether its operation
  is active when the answer arrives (`page.tsx`, line 586). A cancellation, a departure
  or a change of area after that, while `ensureCurrentBaselineVersion` and `saveCheckHistory` run, does not
  keep the check from being recorded, from replacing an inventory's reference, or from
  showing its result over whatever the user does by then, although the page said that the
  check was cancelled.
- *Two areas at once.* `addArea` is not disabled while another area is loading, and a change of
  language loads the workspace again; the later of two continuations wins, and the page
  may show one area's photo as the reference of another. The same follows from an
  inventory's late `setBaseline`.
- *A file picked too late.* When the reference went away between opening the file dialog and
  choosing a photo, `acceptPhoto` shows the page as analyzing and `analyze` returns at once: the page
  waits, without an operation, until the user cancels.
- *The version of a check.* `saveCheckHistory` records the version the store has by then, not that
  of the photo that was sent; and `ensureCurrentBaselineVersion` reads and writes in two
  transactions, so an old reference may be put back over a newer one.
- *The MVTec pilot* reads neither the adaptive ledger nor a lock. Continued after the adaptive
  pilot imported its usage, both together may pass the red line. `SpendingIsCovered` states
  the red line while the MVTec ledger is the pinned one.
- *A paid case without a result.* A process that dies between the last settlement and the append of
  a case's result leaves a case the adaptive pilot cannot take again: its slots are reserved.
- *The gateway's checkpoint* is optional: a database restored from an old copy is noticed only
  by a caller that kept one. And `initialize` (there and in the retention vault) creates the file
  before its transaction: a crash in between leaves a file that nobody accepts.
- *A stop after `markDispatched`* does not hold the request back (`runner.ts`, line 61): the commit is
  the point of no return by the code's design, and the refinement counts it as the send.

## 6. What is not modelled, and why

- Cryptography and data formats: HMAC and Ed25519 receipts, canonical JSON, hash
  chains, schemas. Nobody tampers with files in these models; tokens are what
  they name.
- The gateway's IPC contracts and the request rebuilder are stateless verification; the shadow
  evaluator is a pure function whose decisions rest on confidence intervals, which need reals.
- Retention vault, key custody and the binding between them: synchronous and used by one
  process in rehearsals. They are what a next step would take up.
- `initialize` of the collector and gateway ledgers: these models begin when it has
  returned. That of the authority registry is modelled, that of the local anchor is not.
- Disk failures and restored backups of the ledgers, which are modelled for the
  authority registry only.
- Two processes of one pilot script at the same time: the scripts take no lock, and leave
  this to whoever starts them.
- Prompts, parsing and sanitising of the models' answers, added objects, timing and
  diagnostics; photos, toasts, progress, sign-in and the page's history panel.
- Worker, database adapter, deployment, probes and rehearsals: configuration and linear
  drivers.

Every safety and action property and every refinement that the runs check is also proved; of the
temporal properties only liveness is not.

## 7. Running

    tlc -workers 2 -config MCCollectorLedgerOne.cfg MCCollectorLedger
    tlapm CollectorLedgerProofs.tla
    tlapm CollectorRunProofs.tla
    tlapm GatewayLedgerProofs.tla
    tlapm AuthorityRegistryProofs.tla
    tlapm RemoteAnchorProofs.tla
    tlapm AnalysisRouteProofs.tla
    tlapm CheckPageProofs.tla
    tlapm PilotAccountProofs.tla
