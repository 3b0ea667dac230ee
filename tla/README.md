# Verification of Webstudio: saving a project

Webstudio is a visual site builder. The hard part of it, for a tester, is not
the editor but what keeps the one stored copy of a project consistent while
several tabs, the CLI, an import and a collaboration relay write it over an
unreliable network. This directory holds TLA+ models of that part, the TLC
configurations that check them on small instances, and TLAPS proofs of the most
important results for every instance. Paths below are relative to the
repository root, without the leading `src/`.

## 1. Inventory

State, operations, interactions, hard behaviours and what correctness means,
for every part of the system. `PROJECT.json` lists the same components with
their files and status, and every hazard with its line.

### Patch service (`apps/builder/app/shared/sync/patch`, `packages/project/src/db/build-patch*.ts`)
* State: one `Build` row per project (content columns, `version`,
  `lastTransactionId`), the `Asset` and `AssetFolder` rows, the preview image of
  the `Project` row. Handlers keep the row they read in memory.
* Operations: `build.patch` from a browser or from the relay, the commit of the
  public API. Each is a chain of awaited database calls without a transaction
  around it.
* Interactions: called by the browser queue, the relay and the CLI; all of them
  and the bundle import write the same row and meet only in the
  `match({version})` of the update.
* Hard: two reads that must agree, a compare-and-swap, side tables written
  before it and after it, a retry recognised by a transaction id, a fallback
  that saves part of a batch.
* Correct when: nothing saved is lost, applied twice, or computed from content
  of another version; a reply tells the truth; side tables do not run ahead of,
  or behind, what was saved.

### Project bundle import (`apps/builder/app/services/project-import.server.ts`)
* Writes the `Build` row by compare-and-swap, then resets, deletes and inserts
  rows of assets and folders, then sets the preview image.
* Hard: nothing holds the other writers off between those calls.
* Correct when: the content is only replaced if it is the one that was loaded.

### Command queue and polling loop (`apps/builder/app/shared/sync/project-queue.ts`, `command-queue.ts`)
* State: module-level queue of commands, `isPolling`, the abort controller, the
  `$syncStatus` store, and per run of `pollQueue` a details map and the commands
  it has taken.
* Operations: `enqueue`, `enqueueProjectDetails`, `startPolling`, `stopPolling`,
  the loop itself, `retry`.
* Hard: an aborted loop lives on until its next command, in the middle of a
  retry possibly for minutes; the status is shared by all loops; a reply may be
  lost after the request was executed.
* Correct when: edits are saved in order, once, on top of what the user saw;
  the status and the completion callbacks tell the truth; every edit is saved or
  the tab says that it must be reloaded.

### Single-player sync client (`apps/builder/app/shared/sync/sync-client.ts`, `singleplayer-client.ts`)
* Loads the project, fills the stores, hands the version to the queue; the
  builder leaves without stopping the queue, the settings dialog of the
  dashboard stops it.
* Hard: reopening the project while edits of the last visit are still queued.

### Multiplayer (`packages/sync-client/src/multiplayer`, `multiplayer-sync.ts`, `multiplayer-client.ts`, `packages/multiplayer-protocol`)
* State: pending applies with sequence number, retry timer and back-off; last
  acknowledged sequence number and version; the socket.
* Operations: track, broadcast, ack, applied, error, reload, reconnect, destroy.
* Interactions: `multiplayer-sync.ts` owns the tracker and the transport and
  writes `$syncStatus`; a reload message makes `multiplayer-client.ts` load the
  project again. The relay and the reconnecting socket (PartySocket) are not in
  this repository.
* Hard: acks, broadcasts and results in any order, reconnects, retries racing
  answers, a reload in the middle of editing.
* Correct when: an apply leaves the pending set only if it is durable, dropped
  or the page reloads, `idle` means nothing is pending, and nothing waits for ever.

### Cross-tab polling (`apps/builder/app/shared/polly`)
* State per tab: leader or follower, watchdog and heartbeat timers, local
  listeners, the last data per topic; in the leader a polling manager with its
  topics, timer and fetch in flight.
* Operations: claim, heartbeat, watchdog, abdicate, topic sync, subscribe,
  refresh, destroy; start, stop, poll.
* Interactions: the tabs exchange messages over a BroadcastChannel; only the
  leader calls the server (`topic-resolvers.server.ts`).
* Hard: simultaneous claims, a leader that dies without a word, a fetch that
  outlives the leadership it was sent under, topics only a follower needs.
* Correct when: in the end exactly one leader polls, a tab that is not the leader
  always watches for one, and what is shown becomes up to date (but see section 6 for
  listeners that come back).

### Project session of the CLI (`packages/project-build/src/project-session.ts`, `packages/cli/src/project-session.ts`)
* State: snapshot with a version and a freshness per namespace, its revision on
  disk, permissions, a queue of mutations; restore points.
* Operations: initialize, read, mutate, refresh, restore, server operations, mark
  stale, reset.
* Interactions: calls of one process interleave at every await except that
  mutations queue; processes meet in the snapshot file only; commits meet those of
  all other writers in the patch service.
* Hard: a snapshot assembled from fetches at several versions, two processes
  sharing the file, a commit whose answer is a conflict or is lost, a local save
  that fails after the remote commit.
* Correct when: what is reported as committed is, and the reverse; a snapshot
  carries for each namespace the version its content has; a change is not hidden
  from the call that made it; a session whose revision matches the file has in memory
  what the file holds. (The write itself may still overwrite what another process
  wrote since the comparison; nothing in the code prevents it.)

### Local synchronization (`apps/builder/app/shared/sync-client.ts`, `sync-stores.ts`, `pubsub`)
* Leader (builder) and follower (canvas iframe) exchange transactions and state
  over a message channel. Correct when both hold the same state once quiet.
  Not modelled (section 6).

### Pure algorithms
* `findCycles` (`packages/project-build/src/shared/graph-utils.ts`), content-mode
  permissions, freshness marks, migration of patches. No concurrency.

### Other parts
* Workspaces and notifications, asset upload, publishing and domains,
  authorization tokens, plans, the content engine, expressions, MCP, the HTTP
  client, and the user interface of builder and canvas: see `PROJECT.json` for
  files and reasons.

## 2. Plan

| Step | Modules | Question | State |
|---|---|---|---|
| 1 | `BuildLog`, `PatchService`, `MCPatchService` | Do concurrent writers keep the build consistent? | done |
| 2 | `PatchService_proofs`, `PatchServiceLog_proofs` | The same for every instance: all properties of the run, and the refinement of `BuildLog` | done |
| 3 | `ProjectQueue`, `SingleplayerSync` | Do tabs save what the user did, end to end? | done |
| 4 | `RetryTracker`, `MultiplayerSync`, `MCMultiplayerSync` with an assumed relay | Is what a tab reports as durable or dropped so? Does anything wait for ever? | done |
| 5 | `PollingManager`, `CrossTabPolling`, `MCCrossTabPolling` | Is there one leader in the end, and is what tabs show up to date? | done |
| 6 | `ProjectSession`, `MCProjectSession` with an external server | Are reports true, is content what it is said to be? | done |
| 7 | `MultiplayerSync_proofs` | All safety properties of `multiplayer` for every instance | done |
| 8 | `CrossTabPolling_proofs` | All safety properties of `cross_tab` for every instance | done |
| 9 | `ProjectSession_proofs` | All properties of `project_session` for every instance | done |
| 10 | `SingleplayerSync_proofs`, `SingleplayerSave_proofs` | The queue: types, polling; for builder tabs `SavedOnWhatWasSeen`, `CompletedIsSaved`, `IdleMeansSaved` | done |
| 11 | `SingleplayerOrder_proofs` | `SavedInOrder`, `CompletedIsSavedUnlessCyclic` for all tabs, with edits that are dropped or cannot be applied | done |

Step 11 could not reuse the argument of step 10. Once a closed dialog drops edits, or
an edit is skipped because it is cyclic, the content of the build does not follow from
its version, and what is left is the identity of requests: two requests with an edit
in common are the same. In `PatchServiceLog_proofs` the set of requests is a
constant; here it grows with what the tabs have sent, so step 11 has an invariant of
its own (section 5).

Abstract specification stated: `BuildLog`. For the relay, the polling server and the
CLI's server an abstract specification would restate the external part, which is
modelled abstractly already.

## 3. Modules and how they correspond to the code

**`BuildLog`** is the abstract storage: a sequence of edits to which a writer
can only append a group of new ones.

**`PatchService`** models the handlers. A database call is an action, and so is
a decision of the synchronous code between two calls.

| Model | Code |
|---|---|
| `build` | the `Build` row; `log` stands for all content columns: the transactions it was made from |
| `assets`, `preview` | `Asset`/`AssetFolder` rows, `Project.previewImageAssetId`, by the edit that wrote them |
| `handler[h].row`, `.version`, `.todo`, `.single` | `build`/`currentBuild`, `clientVersion`/`currentVersion`, rest of the loop and whether we are in it (`applyAuthorizedEntries`) |
| `LoadState`, `LoadBuild` | `loadBuildState`, `loadBuildForPatch` (two queries); `loadRawBuildById` for the API (one query) |
| `AlreadySaved`, `VersionMismatch`, `RejectCyclic`, `ComputeUpdate` | the outcomes of `createBuildPatchUpdate`; `Cyclic` are the transactions it answers with an error |
| `ApplyAssets`, `Commit`, `LoseRace`, `UpdatePreview` | `patchLoadedBuild` in its order |
| `NextEntry`, `Finish` | the loop of `applyAuthorizedEntries`, the reply of `applyPatchRequest` |
| `Fail` | any call throws, before or after it took effect, or parsing the patched data does; `toPatchResult` |
| `End` | the reply is gone, or the process died: the rest of the handler never happens |
| `Import*` | `importPublishedProjectBundle`, call by call |

Which entries of a request are authorized is part of the request; the
permission checks are not modelled. A relay request with several entries has one
writer context per entry and is therefore never tried as a batch (`Shared`).

**`ProjectQueue`** models a tab's queue. `loop[t][l]` is the l-th run of
`pollQueue` of a tab, with its own details map and abort flag. A loop in state
`run` is in the middle of synchronous code, and nothing else of its tab moves
(`Quiet`). The number of back-off attempts is saturated at
`MAX_RETRY_RECOVERY`, as only the comparison with it matters. Each tab works on
one project.

**`SingleplayerSync`** instantiates both, and connects them by requests.
`LoseConnection` gives the loop a network error while the handler goes on, `Crash`
kills the handler, `HandlerFault` makes a call of it fail. History variables
(`doc`, `view`, `edited`) record what the user saw; no action reads them to
decide anything.

**`RetryTracker`** has one operator per operation of the tracker; what it
sends is left to the module that composes it. The two maps of pending applies
become one, a timer is armed or not, back-off is left out.

**`MultiplayerSync`** is the tab around it, the socket and the relay.

| Model | Code |
|---|---|
| `pending`, `seq`, `timer`, `ackSeq`, `stopped` | the tracker's closure variables |
| `status` | `$syncStatus`, set by `updateUnsaved` after every operation |
| `Edit` | `emit`, `track`, `sendApply` |
| `Open`, `Resend` | the `open` event: PartySocket sends its own queue first, then `handleReconnect` sends all that is pending |
| `Drop`, `up`, `down` | a broken connection loses what is under way in both directions (external) |
| `Receive` | `dispatchWebSocketMessage` and the callbacks passed in `connect` |
| `FinishReload`, `FailReload` | the asynchronous `onReload` of `multiplayer-client.ts` |
| `Relay*` | assumed (external): an edit is numbered once, broadcast, saved in order of numbers and acknowledged cumulatively; one seen before is answered with what became of it |
| `edited`, `author`, `limited`, `offline`, `durable`, `dropped` | history, for the properties |

**`PollingManager`** is the manager and the client of a tab (of all tabs, as
functions); **`CrossTabPolling`** adds the election, the channel and the server.

| Model | Code |
|---|---|
| `subs`, `timer`, `pending`, `hidden` | `listeners` of the manager, `timerId` and `pending` of its client, `visibilityState` |
| `orphans` | fetches of clients that were stopped: `stop` does not cancel them |
| `SubscribeMore` | subscriptions made in one tick: the first new topic starts the fetch, the others join it |
| `leader`, `watchdog`, `listeners`, `snapshot` | `isLeader`, `watchdogTimerId`, `localListeners`, `snapshots` |
| `shown`, `kept` | history: what the longest-standing listener of a topic was called with last; topics whose snapshot was left behind by listeners that are gone |
| `chan` | the BroadcastChannel (external): in order for each pair of tabs, in any order between pairs |
| `Receive`, `On*` | `onMessage` and its cases |
| `Destroy`, `Crash` | `destroy` abdicates; a closed page says nothing |
| `Arrive` | `wrappedFetcher` goes on after its await, whether the tab still leads or not |
| `Promote` | the watchdog, also while there is a leader whose heartbeats are late |

The data of all topics have one version number.

**`ProjectSession`** models the session object, the snapshot file and the calls.

| Model | Code |
|---|---|
| `memory`, `known` | `#snapshot`; `#revision`, of which it only matters whether it is absent, the one in the file, or another |
| `file` | the snapshot file of the folder |
| `log` | the server's build (external): its length is the version, a namespace is the set of entries about it |
| `call[c]` | the local variables of an operation under way and where it waits (`phase`), with what comes after a fetch or save (`after`) |
| `Ensure`, `Fetch`, `Receive`, `Save`, `RetryBusy` | `ensureNamespaces`, `fetchAndSave`, `saveSnapshot` |
| `Plan`, `ServeCommit`, `CommitOk`, `Confirm`, `CommitConflict`, `CommitError` | `commitMutation` and `commitWithConflictConfirmation` |
| `Reconcile`, `MarkUnreconciled` | the two catch blocks of `#synchronizeAfterCommit` |
| `OperationOk`, `OperationFailed` | `executeServerOperation`, also for a mutation that creates generated records |
| `Conflict` | the catch block of `mutateUnqueued`: refresh, and retry once if that is safe |
| `Initialize`, `Reset`, `Exit` | `initialize` (the MCP server calls it before each operation), `reset`, the end of a process |

Reading the file and the code that goes on with what was read are one step; the
comparison of the revision in `storage.save` and its write are two, and anything
can happen in between. Reverting to a restore point is a mutation that needs all
namespaces. A contract (`Operation`) is reduced to what the session looks at: the
kind, the namespaces it needs, writes and invalidates, and `retryOnConflict`.

The **`..._proofs`** modules hold the theorems of the module they are named after
(section 5); those about the patch service are in two modules, those about the queue in three.

The **`MC...`** modules hold the requests, contracts and symmetry for TLC. Operators
whose comment starts with "Mutant:" are not part of any specification: each is a
plausible bug and replaces the action next to it, to make sure that the property it
belongs to can fail.

## 4. Runs

| Run | Shows | Bounds |
|---|---|---|
| `patch_service` | type, `SnapshotMatchesVersion`, `CommitsExtendLog`, `AppliedOnce`, `AcceptedWasSaved`, `SavedAssetsApplied`, `PreviewWasSaved`, refinement of `BuildLog` | 2 handlers, 4 requests each repeatable without limit, 1 import |
| `builder_tabs` | `SavedOnWhatWasSeen`, `CompletedIsSaved`, `IdleMeansSaved` | 2 tabs, 2 loads each, 2 edits, 1 fault |
| `settings_dialog` | `TypeOK`, `SavedInOrder`, `CompletedIsSavedUnlessCyclic`, `PollerServesQueue` | 1 tab, 2 loops, 3 edits of which one is cyclic, 2 faults |
| `edits_settle` | `EditsSettle` under fairness | 1 tab, 2 loads, 2 edits, 2 faults |
| `dialog_drops_edits` | **violation** of `IdleMeansSaved` | no faults needed |
| `retry_of_partial` | **violation** of `CompletedIsSaved` | 3 edits, 1 lost reply |
| `retry_conflicts_with_itself` | **violation** of `MismatchMeansForeignEdit` | 1 edit, 1 lost connection |
| `multiplayer` | `TypeOK`, `ReportsAreTrue`, `NothingHangs`, `RetryArmed`, `IdleMeansSettled`, `SequencedInOrder` | 2 tabs, 2 edits, 2 faults, 1 message per edit when it is retried |
| `multiplayer_reload` | **violation** of `UnsavedUntilSettled` | 1 tab, 1 edit, 1 reload |
| `cross_tab` | `TypeOK`, `FollowersWatch`, `OnlyLeadersPoll`, `PollsWhileVisible`, and under fairness `OneLeaderInTheEnd`, `ShowsLatestInTheEnd` | 2 tabs, 1 topic, 2 subscriptions, 2 events |
| `new_topic_waits` | **violation** of `NoTopicWaits` | 1 tab, 2 topics, no events |
| `project_session` | `TypeOK`, `ContentIsTrue`, `ReportsAreTrue`, `NotSavedTwiceInARow`, `WrittenIsShown`, `KnownFileIsInMemory` | 2 calls, 2 processes, 2 namespaces, 8 contracts, 1 browser edit, 1 fault, 1 busy retry |

Why these bounds are enough for the questions, first for storage and queue: two handlers give every pair of
interleaved writers, and since requests can be repeated for ever, a third writer
that matters can be one of the two handlers used again. The requests of
`MCPatchService` cover a batch that falls back to the loop, an attempt per
entry, partial authorization, a request rejected as a whole and the API path;
two of them compete from the same version and one follows. Two tabs, two loads
and two loops are the smallest numbers for which a tab can be behind another
one, behind its own earlier visit, and share its queue with an aborted loop.
Numbers of edits, loads and faults are bounded by guards (`MaxEdits`,
`MaxLoads`, `MaxFaults`). `CHECK_DEADLOCK FALSE` is set because an instance
stops when its edits are used up and its tab is in the fatal state, and the
server when all imports are done; users need not act.

For the others. *Multiplayer*: two edits are the least for which a cumulative
acknowledgement covers an edit it was not sent for, and for which one edit can
overtake another, by the same tab or of two; `MaxFaults` counts broken
connections, rate limits, reloads and closed tabs, so two of them in one
behaviour combine a lost answer with a second loss while it is repaired.
`MaxInFlight` keeps a timer from filling the channel: it may fire when no message
about its edit is under way. *Polling*: two tabs give every pair of claims; a tab
that is gone does not come back, but one that starts late finds any state.
`MaxEvents` counts changes of data, late heartbeats, failed fetches and resolvers,
hidden tabs and calls of `refresh`. Two more bounds are guards: a leader
sends no heartbeat, and polls no data, while one is still on its way, which
removes repetitions only. *Session*: two calls are the least that interleave, in
one process or two; the contracts have one of each shape. Each call is made once,
but it may send two transactions, each of them twice, and fetch after each. `BusyRetries` is 3 in the code; with
1 both outcomes of the comparison with it happen. Instances stop when edits, calls
or tabs are used up, hence `CHECK_DEADLOCK FALSE` in these as well.

Fairness (`edits_settle`): weak fairness of each loop's own steps (timers and
continuations of a JavaScript event loop), of sending and delivering, and of
handlers that can go on. Nothing is assumed of users, and none of the faults is
fair. The number of faults is bounded, which is the assumption that the network
works some day; without it retrying for ever is a legal behaviour.

Fairness (`cross_tab`): weak fairness of the heartbeat interval, of the watchdog
while there is no leader, of deliveries over the channel, of polling timers and
of answers of the server. Opening, closing and hiding tabs, failures, late
heartbeats and changes of data are free. `ShowsLatestInTheEnd` speaks of a tab
that listens to a topic for ever while a visible leader does too; see section 6
for what happens otherwise. Then the tab has the latest data in the end, and its
listeners were called with it, unless they found a snapshot that others left behind
(`kept`): those are called when the data changes, and until then nothing is claimed
but that the snapshot they are compared with is the latest.

`multiplayer` and `project_session` have safety properties only. That every
multiplayer edit settles would need fairness of the relay, which is not in
the repository; `NothingHangs` is the part of it that the tab is responsible for:
whatever is not decided is on its way, or has a timer.

### What the violations say

* *Dialog drops edits.* Closing the project settings dialog calls
  `stopPolling`, which only raises a flag. The loop looks at the flag after it
  has emptied the queue, so it throws away the commands it finds: those of the
  last second before closing and, if the dialog is opened again soon, the new
  details and edits. The status is `idle` afterwards, although `isSyncIdle` is
  documented as "everything is saved". For the builder page, which never stops
  its loop, the property holds (`builder_tabs`).
* *Retry of a partial save.* A batch falls back to saving entry by entry, one
  entry fails, the last one is saved, and the reply is lost. The retry of the
  batch matches `lastTransactionId`, and all entries are reported as accepted.
  For edits that can be applied at all the report is right
  (`CompletedIsSavedUnlessCyclic`).
* *A retry conflicts with itself.* After a broken connection the retry and the
  first attempt both read the build before either commits. The loser is told
  that somebody else edited the project, and the tab stops saving. Nothing is
  lost on the server (`AppliedOnce`, `SavedOnWhatWasSeen` hold).
* *Edits after a reload.* When the relay asks for a reload the tracker stops for
  good. The data is loaded again into the same client, but `connect` returns at once
  because the socket exists, and nobody creates a new tracker. Edits made from then
  on are neither tracked nor sent, and `$syncStatus` is `idle`. As long as no reload was
  asked for, `idle` means settled (`IdleMeansSettled`).
* *A new topic waits.* `poll` joins the fetch in flight, whatever topics that one
  asks for. Two subscriptions in one tick therefore give immediate data for the
  first and data after an interval for the second, although the header of
  `polling-manager.ts` promises an immediate refresh for each new topic.

## 5. Proofs

Every safety property of a passing run is proved for all values of the constants that
satisfy the module's assumptions. Only liveness is left to TLC (see the end of this
section). No proof takes a fact on trust; the libraries used are `FiniteSetTheorems`,
`SequenceTheorems` and `WellFoundedInduction`.

| Module | Theorem | Property |
|---|---|---|
| `PatchService_proofs` | `TypeCorrect` | `[]TypeOK` |
| | `SnapshotCorrect` | `[]SnapshotMatchesVersion` |
| | `NoLostUpdate` | `CommitsExtendLog` |
| | `PreviewCorrect` | `[]PreviewWasSaved` |
| | `AssetsCorrect` | `[]SavedAssetsApplied` |
| `PatchServiceLog_proofs` | `AppliedOnceCorrect` | `[]AppliedOnce` |
| | `AcceptedCorrect` | `[]AcceptedWasSaved` |
| | `LogCorrect` | `ImplementsBuildLog`: `PatchService` refines `BuildLog` |
| `MultiplayerSync_proofs` | `TypeCorrect` | `[]TypeOK` |
| | `RetryArmedCorrect` | `[]RetryArmed` |
| | `ReportsCorrect` | `[]ReportsAreTrue` |
| | `IdleCorrect` | `[]IdleMeansSettled` |
| | `NothingHangsCorrect` | `[]NothingHangs` |
| | `OrderCorrect` | `[]SequencedInOrder` |
| `CrossTabPolling_proofs` | `TypeCorrect` | `[]TypeOK` |
| | `WatchCorrect` | `[]FollowersWatch` |
| | `OnlyLeadersPollCorrect` | `[]OnlyLeadersPoll` |
| | `PollsWhileVisibleCorrect` | `[]PollsWhileVisible` |
| `ProjectSession_proofs` | `TypeCorrect` | `[]TypeOK` |
| | `ContentCorrect` | `[]ContentIsTrue` |
| | `ReportsCorrect` | `[]ReportsAreTrue` |
| | `WrittenCorrect` | `[]WrittenIsShown` |
| | `SavedOnceCorrect` | `[]NotSavedTwiceInARow` |
| | `KnownFileCorrect` | `[]KnownFileIsInMemory` |
| `SingleplayerSync_proofs` | `TypeCorrect` | `[]TypeOK` |
| | `PollerCorrect` | `[]PollerServesQueue` |
| `SingleplayerSave_proofs` | `SavedOnWhatWasSeenCorrect` | `[]SavedOnWhatWasSeen`, builder tabs |
| | `CompletedIsSavedCorrect` | `[]CompletedIsSaved`, builder tabs |
| | `IdleMeansSavedCorrect` | `[]IdleMeansSaved`, builder tabs |
| `SingleplayerOrder_proofs` | `SavedInOrderCorrect` | `[]SavedInOrder` |
| | `CompletedIsSavedUnlessCyclicCorrect` | `[]CompletedIsSavedUnlessCyclic` |

### Assumptions

TLC evaluates each of them on the instances of the runs.

* `ConstantsAssumption`, `RequestAssumption` (`PatchService`): the kinds of
  transactions are transactions, an import is not one, and requests look as the
  schema of the endpoint lets them.
* `RetryAssumption` (`PatchService`, used by `PatchServiceLog_proofs` only): a request
  does not repeat a transaction, and requests with a transaction in common are the
  same request. Transactions have random ids; `pollQueue` repeats a command
  unchanged until it is answered and the CLI gives each commit a new id. For the relay,
  which is not in the repository, it is an assumption.
* `SyncAssumption`, `MultiplayerAssumption`: bounds are numbers, and the kinds
  of tabs and edits are subsets of them.
* `CrossTabAssumption`: there are finitely many tabs and topics, a tab has a number
  (tab ids are compared), and `NoFetch` is not a fetch.
* `ProjectSessionAssumption`: what a contract says of its namespaces hangs
  together (a mutation reads what it writes, a generated one invalidates it, all but
  server operations need something), `Nobody` is not a call and `NoSnapshot` not a
  snapshot.

### The patch service

`TypeInv` is `TypeOK` with `Shape`: which fields of a handler are
meaningful at which step (an attempt is not empty, an API handler is never in
the loop, an update is only computed for a version that matched). It is needed
because `LastTx` and `LastPreview` are applied to the attempt. `CasInv` adds
`Fresh`: a handler never holds a version newer than the stored one, and a handler
whose version equals the stored one holds the stored row. A torn read pairs an
old version with content of a later one, and this is harmless for exactly one
reason: once the version has moved on it never comes back, so the update cannot
match. `SnapshotMatchesVersion` alone is not inductive, since it says nothing about
handlers between the two reads. From `CasInv` every matching update writes the
stored log followed by the attempt, which is `NoLostUpdate`. `SideInv` adds
`Beside`: what a handler past its asset step is about to commit already has its asset
rows, and a handler at its preview step has already committed.

`ServiceInv` is `TypeInv`, `CasInv` and `LogInv`, and is about retries. Any number of
handlers may work on one request, each as a batch or entry by entry, and the code compares
no more than the last transaction of the build. This is enough because of the order
of the entries in their request (`Before`): the stored part of a request is in this
order and without gaps, but for cyclic entries that nobody can save (`History`), so that
its last transaction speaks for all before it. A handler that has fallen behind can save
nothing; one that has not has left only what comes behind all that is stored
(`Owns`). What it has dealt with is saved (`Dealt`), which gives `AcceptedWasSaved`; `Ordered`
gives `AppliedOnce`; and a commit appends an attempt none of whose members is stored,
which is the step of `BuildLog`.

### Multiplayer

What the relay decides about an edit is never taken back, so what was true when it
was sent is true when it arrives, late or twice. `CoreInv` says that each message
under way is true (`LinkInv`), that numbers up to `settled` belong to decided edits and no
number to two (`RelayInv`), and that a tracker knows no other number (`Knows`). A cumulative
acknowledgement therefore covers decided edits only, which with `Books` (what is
not pending any more is decided) gives `ReportsAreTrue` and `IdleMeansSettled`. `RetryArmed`
is part of `CoreInv`. `HeldInv` is `NothingHangs` with the sets of edits spoken about
instead of their number. `OrderInv` adds `Queue`: in the queue to the relay an edit that can
still be numbered has every earlier edit of its tab that can in front of it. It needs that
`handleReconnect` sorts what it sends again, and so a lemma that sorting is possible,
by well-founded induction.

### Polling

`ElectionInv` is `FollowersWatch` with the types and the fact that a tab which is not open
has neither role nor listeners (`ClosedIsIdle`); `PollingInv` adds `OnlyLeadersPoll` and
`PollsWhileVisible`, which are inductive with it. The work is in the operations that are
loops in the code: a new leader subscribes to all topics at once (`SubscribeMore`), and one
that steps down unsubscribes from them one by one. Types need that the list of listeners holds no topic twice, hence
has a bounded length (by the pigeonhole principle).

### The session

`CoreInv` is `TypeInv`, `CallsInv` and `NotSavedTwiceInARow`. `TypeInv` makes truth part of the
type: a snapshot anywhere, also in the variables of a call under way, agrees with
the log for each namespace at the version that namespace carries, and the log only
grows. `CallsInv` says what is left of a call, by its phase: the kinds of operations that
get there (`Kinds`), what it works with (`Ready`), what it knows of its change (`Honest`),
that a fetch after a commit covers what was written (`Showing`), and where in the log its own entries
are (`Apart`). `Apart` is what a second attempt needs: what a first one may have
saved lies strictly before the version that the second one is computed from, or between the
two somebody else has written, and then the second is refused. A call that is over
keeps `Told`, from which `ReportsAreTrue` and `WrittenIsShown` follow. `KnownFileIsInMemory`
is inductive together with `CoreInv`.

### The queue

`SingleplayerSync_proofs` composes: the types and `Shape` of the handlers come from
`PatchService_proofs`, instantiated with the variables of this module. The invariant of the
queue adds that a loop which is working has a command (`Shape`) and `Polled`: a tab without
controller is not polling, loops are started in order, and the loop of the controller
serves: it was started and is not aborted, though it may have ended in the fatal state.
This is `PollerServesQueue`, however often the project is opened, closed and reloaded. It says
nothing of what the loop finds in the queue: that commands left from an earlier visit are not
sent before the details of the project have come is part of `TypeOK` (every request
carries a version).

`SingleplayerSave_proofs` uses that a version stands for the content that was stored
when it was current, and follows the version through the system. `Based(v, S)`: v is
not newer than the build, and if it is current the build consists of S. It holds of
what a tab has loaded, of the edits below those in a request (`HandlerInv`), of the
request's edits as well once a reply says that they are saved, and, along the commands of a
tab, of what each of them is made on (`Linked`, `Follow`): each list of edits continues the one
before or starts from the details before it. An update that matches the version
therefore saves an edit on exactly what its author saw. `Kept` says that an edit
of a tab is stored, in its loop or in its queue, and that none is in the last two when
the status is `idle`; a loop that has ended has left another status. `ConnInv`
ties a reply to the command it answers.

Both hypotheses of `SingleplayerSave_proofs` are needed, and TLC shows why. Without `Destroys = {}` a later edit is
saved although the closed dialog dropped an earlier one, so that it is not saved on what was
seen. Without `CyclicEdits = {}` a partial save is reported as complete
(`retry_of_partial`). They describe the builder page, which does not stop its loop and whose
edits can be applied; the number of tabs, reloads, faults, crashes and handlers is
unrestricted.

`SingleplayerOrder_proofs` makes neither assumption. A tab may drop edits at any time and
any edit may be refused, so a version no longer says what the content is. It still
says that nobody else has saved since, and the order of the edits of one page rests on that.
`OrderingInv` consists of `CoreInv` (types and polling, from `SingleplayerSync_proofs`), the
`CasInv` of the patch service and `OrderInv`:

* `BatchOrder`: the lists of edits that are in requests and in commands waiting for an answer
  are the batches (`Batch`). No edit is in two, since a command is repeated
  unchanged; each is in the order its edits were made; and it is stored from its first edit
  on, but for cyclic ones (`Closed`). This is where a retry of a request that was
  already saved, or saved in part, is harmless.
* `PageOrder` and `BuildOrder`: edits are numbered as they are made, belong to one page, and
  those of a page are stored in this order.
* `TabOrder`: all a page may still send (`Unsent`, its queue and its loop's commands) was made
  after everything it has let go (`Out`: what is stored or in a batch). Only the loop of
  the controller takes commands. A loop that was aborted finishes the command in hand, no
  other, which is why closing the dialog loses edits but does not reorder them.
* `HandlerOrder`: what a handler can still save is newer than all that is stored of its
  page, as long as its version is the current one (`Ahead`, `Newest`). Several handlers,
  and loops, may hold the current version at once; when one of them saves, the
  version moves on and the others have nothing to promise any more. `Goes` and
  `Dealt` say of a request that is saved entry by entry which of its edits are stored
  and which are left; a request answered `ok` has all its edits stored, but for cyclic ones.
* `ConnInv` (from `SingleplayerSave_proofs`): the answer goes to the loop that sent the command.

`SavedInOrder` is `BuildOrder`, and `CompletedIsSavedUnlessCyclic` is a conjunct of `TabOrder`.

The invariants were checked by TLC on the instances of the runs before they
were proved.

### Only model-checked

* `EditsSettle`, `OneLeaderInTheEnd` and `ShowsLatestInTheEnd`: liveness under fairness
  is out of the prover's reach.
* What the violations show: a counterexample is its own proof.

## 6. What is left out

* Content of the build: pages, instances, styles and so on are one sequence of
  edits. That a patch is applied right is not a question these models ask.
* Permissions and content mode; bodies of messages, tokens, toasts, delays.
* Several projects in one tab, and `initializationVersion`.
* An import that races a commit may lose asset rows, and preview images of
  two commits may be written in the opposite order: the models contain both, the
  code promises nothing about them, so no property states it.
* The relay, PartySocket, the BroadcastChannel, the database and the network are
  assumed, not verified. The relay is taken to do what the comments of
  `packages/multiplayer-protocol/src/index.ts` say.
* Real time: timers fire in any order, delays and back-off have no length.
  Presence, and how remote edits are applied to the page.
* Permissions, incompatible snapshots and the files of restore points in the
  project session.
* Local synchronization of builder and canvas, pubsub, publishing, workspaces,
  assets, tokens, plans: little concurrency, or none that is not the database's;
  files and reasons are in `PROJECT.json`. The bulk of the repository (components,
  CSS data, generated contracts, user interface) has no state machine to model.

What the models show and no property of a run states:

* A fetch of only the missing namespaces of a newer build gives the snapshot the
  new version, while other namespaces stay fresh at an older one. The next
  mutation may be computed from both and passes the version check. `ContentIsTrue`
  holds since each namespace keeps the version of its own content.
* A commit that is repeated after a conflict and overtaken by another writer is
  computed and saved a second time; `NotSavedTwiceInARow` is what is left.
* A read that started before a commit of the same process may save the older
  snapshot over the newer one. It is consistent and marked with its version.
* The MCP server starts with its cached snapshot as it is: `Initialize` follows
  the code (`packages/cli/src/commands/mcp.ts:113`) and its test
  (`mcp.test.ts:374`); `packages/cli/src/docs/mcp-startup-epilogue.md:38` says that
  startup marks cached data stale.
* Edits of a tab can reach the relay out of order when the relay had put one off, or
  when one was made while the socket reconnected (`SequencedInOrder` names both).
* A polling leader that is hidden, or that unsubscribes from a topic a follower still
  needs, leaves the others without new data (`Served` excludes both).
* A listener that comes back may wait for ever. `unsubscribe` of the cross-tab manager
  (`cross-tab-manager.ts:331`) keeps the snapshot of a topic whose last listener leaves,
  and `dispatchLocally` (line 134) suppresses data equal to it. Take one tab: Create,
  Subscribe, Answer, Arrive, Unsubscribe, Subscribe. The second listener causes a fetch
  but is not called, after this poll or any later one, until the data changes. The
  plain manager deletes its snapshot in this place (`polling-manager.ts:177`), promises
  data without waiting for the next interval to a new subscription (line 8), and the
  public interfaces are said to be identical (`cross-tab-manager.ts:15`). The dashboard
  destroys its manager and never unsubscribes from a single topic, so it does not meet
  this today. `ShowsLatestInTheEnd` exempts exactly these listeners (`kept`).
