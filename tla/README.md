# Formal models of the Toolcraft runtime

TLA+ specifications of the stateful parts of the runtime in `src/src/toolcraft/runtime`
(a React runtime for browser design tools), the TLC configurations that model-check them,
and proofs checked by TLAPS. Paths below are relative to that directory unless they
start with `src/`.

## 1. The system

The repository holds a runtime (`src/src/toolcraft/runtime`), its component library
(`src/src/toolcraft/ui`), an example product with its acceptance rules (`src/src/app`), build
scripts and end-to-end tests. The runtime is where state, concurrency and failure are.

| Component | State it keeps | Operations | What is hard | What makes it correct |
|---|---|---|---|---|
| IndexedDB binary asset repository (`source-assets/repository`) | per origin: entries, staged rows of leases, records of leases and of owners; per tab: operation queue, liveness lock | beginLease, put, get, commit, rollback, collect, heartbeat, dispose | several tabs share one database; tabs crash and are suspended; a collection must not delete what another tab needs; Web Locks may be missing | nothing held is lost, commits are atomic, leases of live tabs are never reaped, disposal leaves nothing |
| Source asset coordinator (`source-assets/source-asset-*.ts`) | generations and active jobs of upload targets, staged refs, operation store, cleanup queue | importBatch, cancelTarget, dispose; retries of rollbacks and collections | every await is a point where the import may be superseded, cancelled or fail | only the latest import changes the workspace, no busy target is left behind, no lease leaks |
| Workspace persistence (`state/persistence-controller.ts`, `react/app-shell/use-toolcraft-persistence.ts`, bootstrap) | localStorage item, checkpoint, timer, status | schedule, flush, dispose, effect mount/unmount, pagehide | tabs of several builds share a key; effect restarts; restoration suppresses saves; storage fails | no tab overwrites what it has not seen, no other version is overwritten, no edit is silently unsaved |
| Default model replacement, model hydrator, binary media hydrator | jobs of the same job manager; the round under way, a requested rerun | import of a default model, hydrate, rerun | run beside imports on the same targets; a change of state calls the hydrator from inside its own dispatch | no restoration forgotten, no model of the user replaced, disposal waits for rounds |
| Source asset owner (`react/app-shell/toolcraft-source-asset-owner.ts`) | coordinator, leases, disposal generation | acquire, retain, release in effects and exports | disposal in a microtask races a remount | a leased coordinator lives, an unleased one is disposed of once |
| Presentation resources (`source-assets/source-asset-presentation-resources.ts`, `react/model-rendering/model-presentation-resource-manager.ts`) | reference counts, pending resolutions | acquire, release, dispose | release while resolving | no resource used after it is freed, none leaked |
| Model import worker (`model-import/worker`) | pending requests, worker generation, bounded draft cache | import, repair, extract, cancel, dispose | late answers, a worker that cannot be interrupted, eviction across stages | every request is answered once, by its own result; bounded memory |
| Renderer pipeline (`rendering`) | per pass: the current generation, its cache, resources and leases; generations being cleaned up | runPass, getOrCreateResource, invalidatePass, invalidateSource, dispose | invalidation and disposal while work runs, work that awaits its own cleanup, resources that arrive late | leased resources live, retired ones are disposed of, no stale result is retained, cleanups end |
| Renderer pipeline owner and provider (`rendering/renderer-pipeline-runtime-owner.ts`, `react/app-shell/toolcraft-pipeline-context.tsx`, `toolcraft-pipeline-export-lifetime.ts`) | leases on the runtime, runtimes being disposed of, a snapshot | acquire, release, dispose, replace | retirement in a microtask races a new lease; exports outlive the registration they use | a leased runtime is never retired, an idle one is |
| Artifact export owner and session (`export/artifact-export-owner.ts`, `react/controls-panel/actions/export-action-session.ts`) | one running job, phase; what it retains | start, cancel, dispose | hiding, replacement and disposal while it runs | one job at a time, it keeps what it uses, disposal waits for it |
| Model render host (`react/model-rendering/model-render-host.ts`) | leases, previews, disposed | retain, preview, dispose | shared by page and export | presentations end after the last user |
| Store, history, authored edits (`state`) | committed state with undo and redo stacks, playback and viewport lanes, an authored edit, the state shown | dispatch, undo, redo; gestures that move a lane and commit it; begin, update, end, cancel an edit | a command meets a gesture: two reductions, two histories to merge; patches against states that move on | undo and redo are inverses, gestures are neither lost nor recorded, what is shown follows from what is kept |
| Reducers, codecs, timeline, layers, masks, settings transfer | none of their own | pure functions and sequential commands | data shapes | covered by the unit tests |
| Model formats, geometry, topology, encoders, WebGL | none of their own | parsing, numerics, drawing | data and pure I/O | outside a model checker's reach |

How they interact. A product's upload control calls the coordinator's `importBatch`. The
coordinator begins a lease in the repository, its handler (for models: through the
worker) stages resources under the lease, the commit publishes them, and only then the
store is told of the new asset. After that, and whenever history lets go of an asset, the
coordinator asks the repository to collect garbage: it passes the refs its state, its
history and its running jobs reach, and the repository adds what other tabs have
published and what the workspaces saved in localStorage name. The persistence effect
listens to the store and saves; when a page loads, the bootstrap reads the saved
workspace and the hydrators look for its resources in the repository. An export retains
the coordinator (through its owner), the pipeline and the render host, so that the page may be
hidden or given another pipeline while it runs.

## 2. The modules

| Module | Models |
|---|---|
| `AssetRepository` | the IndexedDB repository, shared by tabs, and the workspace that calls it |
| `AssetStore` | what the repository promises: an abstract store of immutable entries |
| `SourceAssetImports` | the coordinator of one tab over a repository |
| `WorkspacePersistence` | saving the workspace from several tabs |
| `RendererPipeline` | the renderer pipeline runtime: passes, generations, caches, resources, leases |
| `BoundedWorkerCache` | the caches of the model import worker, as a record and its operations |
| `ModelImportWorker` | the worker and its client in the page |
| `RendererPipelineOwner` | the owner of a registration's runtimes, as a record and its operations |
| `ExportLifetime` | exports, the owners of what they use, and the React effects that acquire them |
| `ModelRestoration` | default and saved models restored beside the user's imports |
| `ToolcraftStore` | the store of the document: history, gestures, authored edits |
| `AssetRepositoryProofs`, `WorkspacePersistenceProofs`, `RendererPipelineProofs`, `ModelImportWorkerProofs`, `ModelRestorationProofs`, `ToolcraftStoreProofs` | theorems and proofs about the module they are named after |
| `ExportLifetimeProofs` | theorems and proofs about `ExportLifetime`: the exports, and the leases on the runtimes |
| `SourceAssetImportsProofs` | theorems and proofs about `SourceAssetImports` |
| `MC*` | values of the constants and symmetry sets for TLC |

A definition marked `Mutant` is a plausible mistake in the definition that follows it. No
specification uses it; substituted for the original, it makes the property it is meant
for fail, which shows that the property depends on that piece of code.

### AssetRepository

*State.* `entries`, `staged`, `leaseMeta`, `ownerMeta` are the three object stores; `locks` are the
liveness Web Locks, `status`, `queue`, `grant` are the lifecycle of every owner
(`indexeddb-binary-asset-lifecycle.ts`); `phase`, `leaseOwner`, `leaseRefs` are the lease objects in
memory. `roots`, `verified`, `persisted`, `base` stand for the callers: what a tab reaches, what
of that it has committed or read, the saved workspace and the tab's checkpoint of it.

*Actions.* Every repository call is three steps, as in the code: a `Request…` admits it to the
owner's queue (`runOperation`), `Grant` takes the coordination lock, makes the owner hold its
liveness lock and snapshots the held ones (`queryOwnerLiveness`), and a `…Txn` runs the
one IndexedDB transaction, metadata maintenance included. Without Web Locks `Grant` excludes
nobody and the snapshot is `Unknown`. `Heartbeat`, `BeginDispose`, `CleanupTxn`, `CleanupFails` and
`Release` are the rest of the lifecycle; `AbortTxn` and `StaleTxn` are the error paths; `Crash`, `Wipe`,
`AgeOwner` and `AgeLease` are the environment: a tab ends, the site's data is cleared, time
passes.

*Abstractions.* An expiry time is the bit `fresh`: time may clear it at any moment, a renewal sets
it, so every timing of the clocks of different tabs is included. Payloads are model values and
`areToolcraftBinaryAssetRepositoryEntriesEqual` is their equality. A lease id is used once (the
code draws UUIDs). The saved workspaces are one set of refs.

### AssetStore

Entries never change their content, batches appear as a whole with their dependencies, and
only what nothing held depends on is reclaimed. `AssetRepository` implements it with `held` being
the saved refs and those that running tabs have verified (`ImplementsStore`).

### SourceAssetImports

*State.* `pc` is where each call of `importBatch` is suspended; `generations`, `activeByTarget`,
`activeJobs`, `aborted`, `stagedRefs` are the job manager; `operation` is the operation store;
`cleanup`, `cleaner`, `todo`, `pendingRollbacks`, `collectionPending` are the cleanup manager's
serial queue; `requests`, `rows`, `lease`, `entries` are the repository, which runs the
requests of one owner in order.

*Actions.* One action is what runs between two awaits: `ImportBatch` and `RejectBatch` (planning
fails), `BeginJob` or `Superseded`, `LeaseBegun`, `StageResource`, `ResourceStaged`, `Prepared`,
`LeaseCommitted`, the error paths `PrepareFails`, `OperationFailed`, `RolledBack`; the cleanup tasks
`StartRollbacks`, `AttemptRollback`, `AttemptCollection`, `FinishTask`, `DisposeRepository`; the user's
`CancelTarget` and `RemoveAsset`; `BeginDispose` and `DisposeCleanup`. `RunFails` lets any repository
operation fail.

*Abstractions.* A handler is a choice of resources to stage and may fail anywhere. The operation
store's guard by job id is the guard by current job: job ids are never reused. Here the
repository deletes exactly what the collecting tab does not reach; what the other tabs
add is the subject of `AssetRepository`.

### WorkspacePersistence

*State.* `saved` is the item in localStorage. Per tab: `page` and `version` (no page, a page, a page
whose effect has a controller, and the schema version of its build), `workspace` (the persisted
slices), `buffered` (a scroll position that is not committed), `restoring`, `checkpoint`, `paused`
and `blocked` (why the checkpoint or the bootstrap admits no save), `scheduled`, `status`. `seen` is a
history variable: what the tab itself last loaded or saved.

*Actions.* `Load` and `LoadFails` are the bootstrap; `Mount` and `Unmount` the effect and its cleanup,
which disposes of the controller and thereby saves what is pending; `TimerFires` the debounced flush;
`Edit`, `Scroll`, `CommitScroll`, `Hydrated` what changes the state; `Hide` is `handlePageHide` with the
flush preparations; `Show`, `Close` and `Clear` are the browser.

*Abstractions.* A flush is one step. The code reads, compares and writes without yielding, but two
tabs of different processes could interleave; `src/docs/toolcraft/schema-reference.md:382` says the
guard gives no atomic transactions for simultaneous writers, so the properties here are
about writers that are not simultaneous. A failing write leaves the old item.

### RendererPipeline

The renderer's passes share nothing with the asset modules and are modelled on their own.

*State.* A *slot* is a generation of a pass. `current` is `currentGeneration`, `cleanup` how far a
slot's retirement is (`no`, `waiting` for leases, `disposing`, `done`), `cached`, `completed` and
`latest` the cache state of a slot (a cache entry is named by the run that computes it), `resource` the
resource entries (`doomed` is one that is to be disposed of as soon as its creation settles), `disposal`
the runtime's. Per run: where it is, its slot, its cache key, `leased`, `sources`
(`executionSourceKeys`), `using` (resources whose promise its work has) and the cleanups it awaits.

*Actions.* `RunHit` and `RunMiss` are `runPass`; `Succeed`, `Fail` and `Release` the continuations of
its work; `GetOrCreateResource`, `Created`, `CreateFails`, `Disposed` the resources; `InvalidatePass` and
`InvalidateSource` the client's invalidations, `InvalidateOwnPass` and `InvalidateSourceInside` those of
the execution context, after which work may await the cleanups (`Resume`) or go on; `StartCleanup` and
`EndCleanup` the asynchronous part of a retirement; `Dispose` and `EndDispose` the runtime. A
retirement of a generation without leases disposes of its resources in the same step, as in
the code.

*Abstractions.* A key has one part and names a source. The callback that disposes of a resource
may fail: the entry is gone either way and the error is only reported, so success and failure are
one step. Counters, snapshots, listeners and error reports are left out: nothing reads them back.
Work asks for resources only until it settles.

### BoundedWorkerCache and ModelImportWorker

*State.* A cache is a record: the entries of every stage in order of use (`local`), those of the
coordinator that bounds their bytes together (`order`, `retained`); both name an entry by a token. In the
page: `generation`, `active` and `job` are the client's counter, `activeJob` and what its response
lifecycle remembers; `outcome` is how each promise stands, `shown` the draft given to `onDraft`;
`preparing` are inputs being copied or verified, `tasks` drafts and results whose digests are being
computed. `binding` is the attached worker, `toWorker` and `toPage` the two message queues, `worker` where
its job is, `cache` its caches.

*Actions.* `StartJob` is each of the three requests, with a signal that may be aborted already; it
supersedes the active one (`TerminateIf`: a request that was posted takes its worker with it, since
decoding cannot be interrupted). `SnapshotDone`, `InputsVerified` and `PostJob` bring it to the worker,
`Receive` is `handleResponse` with the listeners of `error` and `messageerror`, `DraftVerified`,
`ResultCompared` and `ResultVerified` are the ends of the asynchronous verifications. The worker's
actions run up to the next message that it posts; `HandleMessage` also takes a request in the middle
of a job and answers that it is busy. A message may be damaged (`Tampering`), the thread may die
(`Stop`).

*Abstractions.* A request names a document, which is its own digest; several awaits of one digest after
another, with the same check after each, are one. Branches that no caller in `src/` reaches (the
worker's own `cancel` and `dispose` requests) and requests that fail their validation, which change
nothing, are left out. Messages of a terminated worker stay in flight and are ignored.

### RendererPipelineOwner and ExportLifetime

*State.* An owner is a record of `RendererPipelineOwner`: the current runtime by its number, the leases,
the retirement that is queued (`due`), the disposal of every runtime and the snapshot shown (`last`).
`ExportLifetime` has one per registration, export owners (`phase`, `active`; `entry` is the one the
provider rendered, `mapped` the one the store remembers), source asset owners (`lifecycle`, `leases`,
`disposalDue`) with their render hosts (`host`, `hostLeases`, `previewing`), the exports (`job`, `aborted`)
and calls of the pipeline client.

*Actions.* `Hide` and `HideHost` are the cleanups of the layout and the passive effects; `ShowSame`,
`ShowNew` and `ShowFails` connect them again, in the same turn (StrictMode) or later (Activity), and
`ShowFails` is the effect that throws because its source asset owner is being disposed of; `Replace` gives the
page another registration. What these queue is an action each: `CancelHidden`, `TeardownExports`,
`ForgetExportOwner`, `RetireIdleRuntime`, `DisposeSource`, `DisposeHost`, `RenderExportOwner`. `Start`,
`EndWork`, `ReleaseAll` and `Settle` are an export; `BeginCall`, `EndCall`, `RuntimeDisposed` and
`ResolveTerminal` the runtimes.

*Abstractions.* A microtask compares a generation with a counter, and one that was made stale does
nothing: a `...Due` variable says which valid one is queued. User events wait until the microtasks have run
(`Quiet`), as in the event loop; of one another their order is free. The listeners of an export owner are
only React's external-store subscriptions, which do not call back into it, so notifications are left out.
The coordinator and the runtimes are in modules of their own; here their disposals settle or fail.

### ModelRestoration

*State.* `asset` is the record of every model (its source and lifecycle), `edit` the last undoable change;
`pc`, `target`, `latest`, `activeByTarget`, `activeJobs`, `aborted` the jobs of imports and default
models; `completion`, `rerun`, `waiting`, `woken` the hydrator's coalescing; `phase`, `queue`, `step`,
`hydration`, `cancelled`, `worker` the rounds and their saved models. `due` and `starting` are calls of
`hydrateModels` that have not returned: the subscription to the store makes them inside the dispatch that
changed a model, so nothing else happens until they do (`Free`). A default model that the schema declares
wrongly (`Broken`) is marked unavailable inside such a call, which calls `hydrateModels` again before
`hydrationCompletion` is set: `starting` is a stack, and the history variable `nested` has the rounds that
begin so.

*Actions.* `HydrateModels`, `HydrateDefaultModel` and `RoundStarted` are such a call,
`RoundSettled`, `RoundEnded` and `Rerun` what its promises continue with; `Take` to `RestorationFails` is
`hydrateOne`; the jobs are those of `SourceAssetImports` without the repository, and `RestorationSettled`
is the rest of `hydrateDefaultModel`. `RemoveModel`, `ResetTargets`, `UndoRedo`, `CancelTarget` and
`ImportBatch` are the user, `BeginDispose` and `EndDispose` the coordinator.

*Abstractions.* The generation of an admission is replaced by who has the latest one. The order of models is
not modelled, so `ResetTargets` may change what is left alone in the code when the same ids come back in
the same order. The repository's answers are a choice; operations shown at targets and the binary
media hydrator are left out.

### ToolcraftStore

*State.* `committed` is `committedState` with its stacks of patches, `lanes` the transient playhead and viewport
(`None` where a gesture has not moved them), `edit` the authored edit, and `shown` the cached effective state,
which is a variable because the code does not always compute it anew.

*Actions.* `Dispatch` is `dispatch`: while a gesture is under way the command is reduced from the committed and
from the shown state (`Reduce`), and `MergedState` and `MergedStack` are `reduceToolcraftDurableStoreTransition` with its merge of
the two histories. `MoveTime` and `MoveViewport` are `dispatchTransient`, `CommitTime` and `CommitViewport`
`commitTransient`, `BeginEdit`, `UpdateEdit`, `EndEdit` and `CancelEdit` the authored edit; `UndoEdit` is an undo while one is
active. The reducers are operators: a plain value whose commands merge in the history (`SetValue`, `MergedPatch`), the field of
a collection's item, which is keyed when it has a track (`SetField`), keys, selection, duration, time, playback,
viewport, reset to the defaults, `settings.apply` (`Import`), `Undo` and `Redo`.

*Abstractions.* A patch is the fields that it carries, before and after; its label, time stamp and id say
nothing to a reducer. `new` in a patch marks one that the current dispatch made, which the code finds by comparing
the stacks with those it started from. The document has plain values, one item with one field, and one track. Not
modelled are layers, media, panels, validation, the saving of defaults, and callers that keep the handle of an edit after it has ended, which throws.

## 3. What TLC checks

| Run | Instance | What it shows | Distinct states |
|---|---|---|---|
| `RepositorySharing` | 2 tabs, 2 leases, 1 ref, queue of 2, crashes, failing liveness queries | `HeldResourcesPresent`, `SavedResourcesPresent`, `OpenLeaseIntact`: no collection or maintenance, however late, takes what a running tab or a saved workspace needs; `DisposalIsFinal`: nothing runs after a disposal | 3.7 M |
| `RepositoryDependencies` | a document depends on a texture, 2 tabs | `ImplementsStore`: refinement of `AssetStore` | 2.7 M |
| `RepositoryUnlocked` | no Web Locks, 2 leases, 2 contents of a ref, aborting transactions | held resources survive and `CommitIsAtomic`, with operations interleaved | 1.9 M |
| `RepositoryWiped` | 1 tab, every operation and fault, a dependency | `CommitIsAtomic` when the database is cleared between any two steps, `DisposalCompletes` under fairness | 71 k |
| `Imports` | 2 imports that share a resource, 2 targets, 1 cancel, 2 failures | `ResourcesKept`: collections of one import never delete what another committed; `NothingLeftBehind` (no busy target, lease or own resource of a cancelled import), `DisposedAfterUse`, `OnlyLatestDispatches`; `ImportsSettle`, the disposal included, under fairness | 0.66 M |
| `Persistence` | 2 tabs, 2 versions, 2 bodies, every fault | the invariants and action properties of saving | 0.5 M |
| `Pipeline` | 2 runs, 2 passes (one without a cache), failing creations and work, every helper; three scenes | `LeasedResourcesLive`, `RetainsLatest`, `DisposedLeavesNothing`, `LeaseLeavesWithGeneration`; `EverythingEnds` (cleanups and the disposal) under fairness | 0.17 M |
| `PipelineLosesLease` | the same instance | a finding: `WorkKeepsLease`, which the comment at `rendering/renderer-pipeline-runtime.ts:104` promises, is violated (section 6) | |
| `ModelWorker` | 2 requests out of 5 (3 operations, 2 documents, 2 limits), caches of 1 entry per stage and 4 bytes, every fault, 1 damaged message, 3 messages in flight | `NeverBusy`, `AnswerIsOwn`, `RejectedOnlyDamaged`, `CacheAccounting`, `EveryRequestAnswered` under fairness | 0.8 M |
| `ExportLifetime` | 2 exports, 1 call, 2 registrations of 2 runtimes, hidden once, every fault | `ExportKeepsOwners`, `RuntimesFollowLeases`, `OneExportAtATime`, `NoSpuriousCancel`; `OwnersSettle` (hidden or replaced owners are disposed of, a shown page can export) under fairness | 0.3 M |
| `Restoration` | 2 default models, 1 of them declared wrongly and either perhaps a saved one, 1 import, 2 edits, 3 rounds; four scenes | `NoRestorationForgotten`, `HydrationsContained` (one at a time, none after the disposal, nested rounds excepted), `ImportsPrevail`; `RestorationSettles`, the disposal included, under fairness | 0.33 M |
| `Store` | 1 value that is recorded and 1 that is not, 1 keyed field, 2 durations, 2 commands recorded at a time, 1 pan with zoom, 1 scrub, 1 edit; three scenes | `HistoryIsExact` (undoing and redoing give back the content each command left), `ShownIsProjected`, `GesturesApart` (a command keeps the gestures it does not touch, and does not record them) | 0.39 M |

Types of the repository, persistence, the pipeline and the worker are proved (`TypeCorrect`, section 5). The proofs about `ExportLifetime` have the types they
need among their invariants.

Why the bounds are enough. The races of the repository are between a tab that commits and
one that collects or maintains; a third tab would only be a second collector. Two operations
in a tab's queue let a collection be requested before, and run after, another operation of
that tab; two leases let one be committed while another is open or conflicts. One ref suffices
for the lease and collection properties because the code treats refs independently; two are
used where dependencies matter. Two imports are a superseded one and its superseder on one target, or two
that run side by side on two, with cleanup tasks of one queued while the other stages and commits; the
resource that both stage is what a rollback or a collection for one could take from the other. One
cancellation and two failures at every possible point reach each error path on its own and in
combination, the failed rollback and its retry included. In persistence two tabs and two versions are a conflict; what is proved
(section 5) covers any number. In the pipeline two runs are one that uses resources and one that
invalidates, or two whose results compete for the cache; two generations let an old one be cleaned
up while the new one works, the third lets that happen twice. The scenes split an instance that is too large as a
whole: one key and three generations; two keys, of which one names a resource; and two keys without resources, with
the pass that caches nothing and work that may fail. Creations may fail in every scene that has a resource.
Two requests to the worker are one and
its superseder, or one that finds what the other has cached, under the same or other limits; the cache
holds one document, so a second evicts it or is evicted; one damaged message meets every point of the protocol.
Two exports are the running one and the one that starts after it or beside its disposed owner; the tree is
hidden once, which makes two of every owner, and two registrations are the old and the new one. In the
restoration two default models, of which one is declared wrongly, and one import are the ways to a model on a target.
`Saved` is empty because a default model that was kept in a saved workspace is one (`SavedWorkspaces`) and is restored
by the same code; so either model may be a placeholder or a saved one, and both may be saved ones. Two edits bring a
model back (remove and undo, reset and undo, cancel and remove), and with two models in a fresh workspace the round of
the wrong one is nested in the other's. Three rounds are two at once and one more. Of what the user does, the scenes
allow one act on any model; two on the good one; three on the good one, alone in the workspace at first; or three of an
import there with the wrong one, absent at first, coming and going.
In the store two recorded commands are one to undo and one to merge with, to invalidate what can be redone, or to
record during a gesture. The scenes split an instance that is too large as a whole: one has playback and no gesture on the canvas,
the other the canvas and no playback; scrubbing, edits and every other command are in both. What no run has is a
playing timeline while the canvas is panned, where the code treats the two lanes independently.

`CHECK_DEADLOCK FALSE` is said where the system may stop: all tabs closed or crashed, or all
imports settled and the coordinator disposed of, or all requests, exports and edits made. The persistence model and the store never stop and are
checked for deadlock.

## 4. Fairness

`AssetRepository.FairSpec`: strong fairness of `Grant` per owner, because Web Locks queue requests
in order and nobody waits for ever while others keep releasing the lock; weak fairness of
transactions and of the steps of a disposal, because a running tab's event loop goes on
and IndexedDB settles each transaction. Nothing the user does, no crash and no failure is fair.

`SourceAssetImports.FairSpec`: weak fairness of every import's continuations, of the cleanup
queue, of the repository (which answers, with success or failure) and of the end of a disposal.
A handler that never settles would block its import in the code as well; weak
fairness of an import assumes that handlers do settle.

`RendererPipeline.FairSpec`: weak fairness of the promise continuations (`Release`, `Resume`,
cleanup, `EndDispose`) and of the callbacks that create and dispose of resources; strong fairness of
`Settle`, since work that now and then awaits a cleanup still gets to its end. Work that awaits a
cleanup which never ends does not settle. Invalidations are not fair.

`ModelImportWorker.FairSpec`: weak fairness of the page's event loop and of the worker's. It assumes that a
decoder answers some time: the client has no timeout, and a request to a decoder that never ends can only
be cancelled. `ExportLifetime.FairSpec`: weak fairness of the microtasks, of what settles (disposals, exports,
calls) and of previews; an export is assumed to end, as it must for its owner to be disposed of.
`ModelRestoration.FairSpec`: weak fairness of every job's and every round's continuations, of calls in
progress and of the disposal. In all three nothing the user does is fair.

## 5. What is proved

`tlapm` checks the following for every value of the constants, from the assumptions named in
the modules (the dependencies map payloads to sets of refs, the queue has a bound, the sentinel
values differ from what they stand beside).

*Repository* (`AssetRepositoryProofs`). `TypeCorrect`, `RowsCanBeReaped` and `DisposalLeavesNothing`.
`NoOrphanRows` is inductive with types, since the only transactions that drop a record drop
its rows in the same transaction and rows are written only under a valid lease.
`DisposalIsFinal` is not inductive alone: it needs that an owner that has finished its
cleanup has an empty queue and no grant, that every request in a queue about a lease is about a
lease of that owner, and that only transactions of an owner write its records.
`LeasesStayIntact` (`OpenLeaseIntact`) rests on `LeaseInv`. `Locking`: with Web Locks one operation at a
time is granted and its snapshot of the liveness locks still names every holder, since meanwhile holders
can only become fewer; so maintenance spares every running owner (`MaintenanceSpares`). `LeasesOwned`:
a queued operation of a lease is its owner's and the only one. `Ready`: what a request was admitted under
still holds when it runs, the dependencies of a payload are staged before it and a collection passes what
its owner will reach after the commits queued before it. `Intact`: an open lease with its record has
exactly the rows its object believes staged, with their dependencies.
`HeldStaysPresent` and `SavedStaysPresent` add `HeldInv`. `Known`: an owner that has committed or read
something has a record and its liveness lock, its published refs cover all it reaches, and what it reaches
comes from the saved workspace it loaded or from what it verified. `Supported`: entries are there with
their dependencies, and so is what is held or saved. The heart is `CollectKeeps`: a collection either hears
from every owner that holds something or deletes nothing, so what it keeps is closed under dependencies
and covers everything held. `CommitsAreAtomic` (`CommitIsAtomic`) and `RepositoryImplementsStore`
(`ImplementsStore`, assuming that the database is not cleared) follow from the same invariants: a commit
maps to `Publish`, a collection to `Reclaim`, every other step to `Rely`.

*Imports* (`SourceAssetImportsProofs`). Every safety property of `SourceAssetImports` is proved, for any imports,
targets and contents, from `NoImport` being no import. The base is `WaitInv`: every request and every task has an
owner that waits for it and for nothing else, so no two requests or tasks have the same one, and only the running
task has the cleanup manager wait; `DisposedLast` (`DisposedAfterUse`) follows. `LeaseInv` relates where an import is
to its lease, its rows and its job: a lease is rolled back only when its import has given it up. On these rest
three more: `TargetInv`, a busy target has an import of the latest admission that is current or about to begin
(`NoStuckOperation`, and `LatestDispatches`); `KeepInv`, a collection that is requested spares what the state names,
what is committed, and what the commits queued before it will add (`NothingIsLost`, for `ResourcesKept`); and
`GiveUpInv`, a committed resource that nobody names and no other import stages has a collection ahead of it that does
not yet count it as reachable, or a collection is owed (`NothingIsLeft`, for `NothingLeftBehind`).

*Persistence* (`WorkspacePersistenceProofs`). `OverwritesSeen` and `VersionsKept` rest on the
inductive invariant `Inv`: timers are set only in mounted pages, a checkpoint that admits saves
equals what the tab saw, and it never holds a workspace of another version in a page that
may save. `EditsAreKnown` and `HidingSaves` need two more facts: a page that found another version
always says so, and a hidden page buffers nothing.

*Pipeline* (`RendererPipelineProofs`). `LeasesProtect` (`LeasedResourcesLive`) and `DisposalDisposes`
(`DisposedLeavesNothing`) follow from one inductive invariant. Its core is `FormerRetired`: exactly the
slots before the current one are retired, and the current one too once disposal has begun; so a new
lease is never taken in a retired slot (`CleanupUnleased`) and nothing is created in a slot that is
being cleaned up (`CleanupOwnsResources`). Every invalidation is an instance of one lemma,
`ReplaceIInv`, about replacing a set of generations while some leases are given up. `LatestRetained`
(`RetainsLatest`) needs a second invariant on top of it, `CInv`: a completed entry belongs to a run that
has settled, a pending one to a run that works, and the latest requested run always has its entry.
`LeasesLeaveWithGenerations` (`LeaseLeavesWithGeneration`) says what is left of the comment on `invalidateSource` that
the code contradicts, whatever fails: the step that takes the lease of work that goes on retires its generation, unless
that was retired before, or the work has asked for a resource that the generation does not have. It needs `WorkInv`: in
a generation that is not retired, the source that is the key of working work has its pending entry in the cache, and
every other source names a resource that it asked for. So a generation that has those resources contains every source of
its work (`ContainsSource`), and the invalidation of any of them retires it.

*Worker* (`ModelImportWorkerProofs`). Every safety property of the worker is proved, for any requests (but not
none), documents, limits and faults, and for entry sizes that are numbers (`SizesAssumption`). `TypeCorrect` and
`WorkerNeverBusy` (`NeverBusy`) follow from `IInv`, types with `Turns`: a request that is being prepared has not been
posted, the attached worker is at work only for the active request, and a live final message, or a final one that is
being verified, belongs to the active request and finds its worker at rest. `Live` is what makes it inductive:
messages and verifications of an abandoned request may still be on their way, but name a worker that has been
replaced or a generation that has passed. `OnlyActiveWaits` says the same of promises: only the active request is
unanswered.

`CachesAccount` (`CacheAccounting`) is about `BoundedWorkerCache` by itself: every operation keeps an orderly cache
orderly (`Distinct`, `Accounted`) and within its bounds. The bytes of a sequence and the cache after n evictions are
recursive functions; what is needed of them for every n (`SumSplit`, what remains after evictions accounts for what
remains) is proved from the least n at which it would fail, which needs no induction theorem.
`AnswersAreOwn` (`AnswerIsOwn`) adds `OwnInv` and `OwnWork`: a draft or a result on its way, or being verified, is
about what its request asked for, unless it was damaged; and a value that a stage remembers for a document is that
document's. `OnlyDamagedRejected` (`RejectedOnlyDamaged`) says that the two sides follow one protocol and is the
longest: `UndamagedInv` has a *conversation*, which says for every message on its way what the client will remember
when it has heard it (`Talk`). Every message fits what is remembered before it, the worker's next message fits what
is remembered after the last, and a draft that is still being verified is the one the conversation counts on
(`Matched`).

*Exports* (`ExportLifetimeProofs`). `OneExport` (`OneExportAtATime`) rests on `ExportInv`: the only owner in
which an export can run is the one the store has (`mapped`), an owner is busy exactly while it has an export, and
every export that has not settled is the export of its owner. `ExportsKeepOwners` (`ExportKeepsOwners`) and
`CancelsAreDeserved` (`NoSpuriousCancel`) add `KeepInv`: the leases of a source asset owner are the page's and
those of the one export that has not settled, and while there are any the owner is active and no disposal of it is
queued; the same of the host's leases; and no cancellation is queued while the tree is shown. It is needed because
a disposal is decided in one microtask and carried out in a later one, between which a page or an export may come.

*Runtimes* (`ExportLifetimeProofs`, second part). `LeasesDecide` (`RuntimesFollowLeases`) rests on `LeaseInv`, which counts: the
leases of an owner are the page's, those of exports that have not released their pipeline, and those of open
calls; all of them are on the current generation unless the owner has ended, when no export is left and what the
calls use is still being disposed of (`Kept`, `Served`). Every operation of `RendererPipelineOwner` has a lemma
that it leaves an owner in order (`AcquireGood` to `ResolveGood`) and one that it serves its holders
(`AcquireServed` to `ResolveServed`); the steps of `ExportLifetime` cite these, and facts about cardinalities say
that a holder more or less is a lease more or less. `SnapshotGoesOn` follows from the same lemmas. Exports
and calls are assumed to be finitely many, and `NoExport` to be no export.

*Restoration* (`ModelRestorationProofs`). `ImportsAreKept` (`ImportsPrevail`) needs only that a model of the user
is never shown as restoring, also in what undo and redo bring back (`HistoryInv`). `OneRoundRestores`
(`HydrationsContained`) and `NothingForgotten` (`NoRestorationForgotten`) are about any schema, wrong defaults included.
The invariant of the first, `SoloInv`, says that the rounds that are being started form a stack, of which all but the
outermost are nested (`StackInv`); that a round which is not nested and at work is the one the hydrator
remembers, so there is at most one (`RoundInv`); and that a disposed coordinator has none (`DoneInv`). Nested rounds
have to be excepted, since the outer round, which returns last, takes their place in `hydrationCompletion`.
`NothingForgotten` assumes the models to be finitely many. Its invariant `AttendInv` says at every moment who
has a model that is restoring in hand (`Attended`): a call of `hydrateModels` that is due, or that a caller of the
running round will make when the round ends; a call that is being made; for a placeholder, an import with the
latest admission that is neither aborted nor replaced; for a saved model, the snapshot in the queue of a round; or
it gave way, or was restored last in a nested round (`LastNested`). A
step that changes the workspace makes a call due, every other step hands the model on. Taking up a placeholder skips
those that have a job, so `BooksInv` is needed: the jobs of a round are under way only while it is (`RoundJobs`), one
that runs has the latest admission of its target, unless the user has imported or cancelled there (`ActiveIsLatest`), what
is aborted is still active, and what runs at a target is the target's (`Books`); and what a call that is being made has
still to take up are placeholders without a job, or wrong defaults (`CallsPlaceholders`).

*Store* (`ToolcraftStoreProofs`). `ShownStaysProjected` (`ShownIsProjected`) is inductive with types: every step but the two
commits of a gesture projects what it shows, or keeps it with all that it is made of; the lemmas `CommitTimeKeeps` and `CommitViewportKeeps`
show that a commit moves the gesture into the committed state without changing the projection, but for the two exceptions.
`GesturesStayApart` (`GesturesApart`) adds `StackInv`: no lane shows what is committed, every patch on the stacks carries the same
fields before and after, a reset one the timeline, and none is marked new. Then the shown and the committed
state differ in the gestures only (`Alike`), so a command is ignored in both or in neither, records the same fields in both and puts its patch at the
same height of both stacks (`RecordedNext`), and an undo or a redo applies the same patch; if that patch carries the item at most,
neither reduction moves anything and the merge touches no lane (`StillMoved`).

`HistoryStaysExact` (`HistoryIsExact`) adds `Chained`: the patches on the undo stack lead from the first content to the committed one,
each patch connecting one content with the next (`Chain`, `Connects`), and those on the redo stack lead from the committed one
on. A recorded command puts a patch that connects the contents before and after on top, or merges it with the patch below, and the merged
patch connects the ends (`NewConnects`, `MergedConnects`, `RecordsChain`); an undo or redo moves a patch from one chain to
the other (`UndoChained`, `RedoChained`). During a gesture the chain is that of the shown reduction: the merge takes the new
patch of that one and replaces the times in it only, which no content holds (`ReducedAlike`, `MergedChain`, `NextChained`). That a
chained state can be undone to the first content goes up the recursive function `Undone` number by number (`UndoneForm`, `UndoneExact`).
A content is what is on record (`OnRecord`): a value that a command sets with `history: "skip"` is in no patch of its own, and an undo
does not bring it back, so `HistoryIsExact` is about the values and fields that no command sets so (`RecordedTargets`,
`FieldRecorded`). Two facts about the operators stand on their own: `PatchConnects` says that a patch
that carries every field in which two states differ takes each to the other; `MergedPatchIsBoth` that undoing or redoing the merged patch of two commands of one group is undoing or redoing
both, in the order each direction needs.

The theorems about the store take any commands that the code can dispatch to
the modelled parts (`StoreCommands`) and any edits that set a value or a field (`ControlCommands`), and assume that one duration is the longest
(`StoreAssumption`).

*Only model-checked.* Liveness (outside the prover's reach: `DisposalCompletes`, `ImportsSettle`, `EverythingEnds`,
`EveryRequestAnswered`, `OwnersSettle`, `RestorationSettles`). Every safety property of the passing runs is proved.

## 6. What is not modelled

The components in `PROJECT.json` say so part by part. Planned:
presentation resources, the repair controller, the binary media hydrator. Codecs, parsers, numerics,
drawing, encoding, declarations and most of the user interface are data or pure I/O. In the modelled parts:
names and bytes of resources, the schema of the database and its upgrade, wording of errors, and
notification of listeners.

What the models, and reading the code for them, show beside the properties. Two of these facts contradict a comment of
the code. The one about the pipeline is the finding of `PipelineLosesLease`; the one about the store is an exception
that `ShownIsProjected` names.

- *Repository and imports.* When two imports stage the same content and one is cancelled after its
  commit, the content may stay in the repository until the next collection (so `CancelledLeavesNothing`
  excepts what both stage). A tab whose localStorage cannot be read starts without a saved
  workspace and never saves.
- *Pipeline.* Work of two passes that each await the invalidation of the other's source waits for
  ever, since each gives up only the lease of its own generation: the code leaves this to the renderer, and
  in `Pipeline` one of the passes contains no source. The comment on `invalidateSource`
  (`rendering/renderer-pipeline-runtime.ts:104`) says: "Releases this execution lease when its generation contains the
  source, then retires every matching generation." Work whose resource could not be created keeps the parts of that
  resource's key among `executionSourceKeys`; when it then invalidates such a source it gives up its lease (line 438),
  although no generation contains the source and none is retired. What it goes on using is then disposed of as soon as
  its generation is retired. `PipelineLosesLease` shows it: a run with key `y` asks for the resource `x`, the
  creation fails, the run invalidates `x` and works on without a lease in the current generation.
  `LeaseLeavesWithGeneration` states what the code does keep.
- *Exports.* When a page is hidden and shown while an export keeps its source asset owner, the provider
  gets the render host whose disposal has begun (`react/model-rendering/model-render-provider.tsx:126`):
  its previews do nothing, and an export that starts then fails to retain it (`Start` with a host that is
  not live), until the page is hidden and shown once more.
- *Restoration.* A placeholder whose restoration gave way to an import of the user goes on saying that it is
  being restored when that import is then rejected or cancelled, until the next change of a model calls the
  hydrator; `NoRestorationForgotten` and `RestorationSettles` name this exception (`GaveWay`). A default model
  that the schema declares wrongly (nothing validates its files before they are needed) is marked unavailable
  synchronously, inside the round that is starting (`modules/built-ins/model-3d/core/model-hydrator.ts:157`), and the
  nested call begins a second round. `Restoration` has such a model. Two rounds may then restore saved models at once,
  and the disposal does not wait for the nested one: `HydrationsContained` excepts the rounds in `nested`. A restoration
  may be forgotten, too: the hydrator remembers the outer round only, and when that ends first, a default that was
  removed, and put back by undo, is looked at while its aborted job of the nested round is still active, is passed over,
  and nothing calls the hydrator again. `NoRestorationForgotten` and `RestorationSettles` name this second exception
  (`Overlooked`): a placeholder whose latest restoration was of a nested round and is over. Not in the model, but read in the code: a superseded
  replacement of a default model returns without finishing its operation
  (`source-assets/source-asset-import-runner.ts:340`), stale default jobs set a target idle that a newer
  import may be using (`modules/built-ins/model-3d/core/model-hydrator.ts:172`), and the document that a
  restoration regenerates is in no job's staged refs until it is dispatched
  (`model-import/model-persistence-hydration.ts:280`).
- *Store.* An undo that takes back the duration while the playhead is scrubbed leaves it beyond the duration;
  committing it clamps the committed time and keeps the shown one. The comment at
  `state/toolcraft-external-store.ts:356` contradicts this: "The effective values did not change, so retain the cached
  snapshot identity." They do change in this case, and `ShownIsProjected`, which holds in every other, names it as its
  exception. A preview of a keyed field without a selected key is keyed at the
  committed time, the command that ends the edit at the scrubbed one (`FollowsTime`). An undo of a change of the
  timeline brings back the time, the selection and the playback of that moment too, and a settings import
  during a pan records where the pan was. Values set without a record stay when what was recorded around them is
  undone: the application does so with the values of a keyframe that is selected (`app/engine/use-keyframe-focus.ts:123`) and
  `HistoryIsExact` leaves such values out (`OnRecord`).

## 7. Plan

In this order; each module gets its runs, mutants and, where it is listed, proofs.

1. `PresentationResources`: reference counts and pending resolutions, released or disposed of meanwhile.
2. `SourceAssetImports` with the operations of default replacements, and the restoration with the
   repository: which operation is shown at a target, and what a collection may take.
3. The repair controller and the binary media hydrator.
4. Proofs about these modules, along with their runs.
