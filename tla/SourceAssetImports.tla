------------------------- MODULE SourceAssetImports -------------------------
(***************************************************************************)
(* The source asset coordinator of one tab: the import runner, its job     *)
(* manager, the cleanup manager and disposal                               *)
(* (src/src/toolcraft/runtime/source-assets/source-asset-*.ts).            *)
(*                                                                         *)
(* Importing a batch reserves an admission for its upload target, which    *)
(* supersedes the import running there.  The import then begins a lease,   *)
(* lets its handler stage resources, commits the lease and dispatches the  *)
(* new assets to the workspace state.  It checks that it is still current  *)
(* after every await.  Rollbacks and collections go through one serial     *)
(* cleanup queue.  Everything runs on one thread; an action is what runs   *)
(* between two awaits.  Repository operations run in the order of their    *)
(* requests, as AssetRepository shows for one owner, and may fail.         *)
(***************************************************************************)
EXTENDS Naturals, Sequences, FiniteSets

CONSTANTS
    Imports,      \* calls of importBatch
    Targets,      \* upload targets
    Refs,         \* names of binary resources
    Content,      \* Content[i]: the resources that import i stages
    MaxCancels,   \* bound: calls of cancelTarget
    MaxFailures   \* bound: failing repository operations

CONSTANTS NoImport, NoTarget

ASSUME ContentAssumption == Content \in [Imports -> SUBSET Refs]
ASSUME BoundsAssumption == MaxCancels \in Nat /\ MaxFailures \in Nat
ASSUME NoImportAssumption == NoImport \notin Imports

VARIABLES
    pc,             \* where every import is suspended
    target,         \* the upload target of every import
    admission,      \* the generation every import was admitted with
    outcome,        \* what importBatch resolved to
    \* The job manager.
    generations,    \* generation of every target
    activeByTarget, \* the job that is active on a target
    activeJobs,     \* jobs begun and not removed
    aborted,        \* jobs whose abort signal has fired
    stagedRefs,     \* stagedResourceRefs of every job
    disposed,       \* progress of the coordinator's disposal
    \* The operation store: the job a target shows as busy, if any.
    operation,
    \* The cleanup manager.
    cleanup,        \* tasks of the serial queue, the first one running
    cleaner,        \* what the running task awaits
    todo,           \* leases the running task has still to roll back
    pendingRollbacks, collectionPending,
    \* The repository.
    requests,       \* operations requested and not yet run
    rows,           \* resources staged under the lease of every import
    lease,          \* state of that lease
    entries,        \* committed resources
    \* The workspace.
    stateRefs,      \* resources named by the state and its history
    dropped,        \* history: resources the user has removed
    cancels, failures

jobVars     == <<generations, activeByTarget, activeJobs, aborted, stagedRefs>>
cleanerVars == <<cleanup, cleaner, todo, pendingRollbacks, collectionPending>>
repoVars    == <<requests, rows, lease, entries>>
userVars    == <<stateRefs, dropped, cancels>>
vars == <<pc, target, admission, outcome, jobVars, disposed, operation,
          cleanerVars, repoVars, userVars, failures>>

Idle == NoImport     \* an operation whose phase is "idle"

Tasks ==
    [kind : {"retry", "rollback", "collect"}, import : Imports]
      \cup [kind : {"dispose"}, import : {NoImport}]

RepoRequests ==
    [op : {"begin", "commit", "rollback"}, import : Imports]
      \cup [op : {"put"}, import : Imports, ref : Refs]
      \cup [op : {"collect"}, refs : SUBSET Refs]

Init ==
    /\ pc = [i \in Imports |-> "new"]
    /\ target = [i \in Imports |-> NoTarget]
    /\ admission = [i \in Imports |-> 0]
    /\ outcome = [i \in Imports |-> "none"]
    /\ generations = [t \in Targets |-> 0]
    /\ activeByTarget = [t \in Targets |-> NoImport]
    /\ activeJobs = {}
    /\ aborted = {}
    /\ stagedRefs = [i \in Imports |-> {}]
    /\ disposed = "no"
    /\ operation = [t \in Targets |-> Idle]
    /\ cleanup = <<>>
    /\ cleaner = "idle"
    /\ todo = {}
    /\ pendingRollbacks = {}
    /\ collectionPending = FALSE
    /\ requests = <<>>
    /\ rows = [i \in Imports |-> {}]
    /\ lease = [i \in Imports |-> "none"]
    /\ entries = {}
    /\ stateRefs = {}
    /\ dropped = {}
    /\ cancels = 0
    /\ failures = 0

(***************************************************************************)
(* The job manager.                                                        *)
(***************************************************************************)
IsAdmissionCurrent(i) ==
    disposed = "no" /\ generations[target[i]] = admission[i]

\* Mutant: a job that was begun counts as current until it is removed.
IsBegun(i) == disposed = "no" /\ i \in activeJobs

IsCurrent(i) ==
    /\ disposed = "no"
    /\ i \notin aborted
    /\ generations[target[i]] = admission[i]
    /\ activeByTarget[target[i]] = i

RemoveJob(i) ==
    /\ activeJobs' = activeJobs \ {i}
    /\ activeByTarget' = IF activeByTarget[target[i]] = i
                         THEN [activeByTarget EXCEPT ![target[i]] = NoImport]
                         ELSE activeByTarget
    /\ UNCHANGED <<generations, aborted, stagedRefs>>

\* Mutant: a job whose lease never began leaves its operation as it is.
FinishOperationOfLease(i) ==
    operation' = IF IsCurrent(i) /\ lease[i] # "none"
                 THEN [operation EXCEPT ![target[i]] = Idle] ELSE operation

\* finishOperation: a superseded job leaves the operation to its successor.
FinishOperation(i) ==
    operation' = IF IsCurrent(i) THEN [operation EXCEPT ![target[i]] = Idle]
                 ELSE operation

GoTo(i, where) == pc' = [pc EXCEPT ![i] = where]

Request(req) ==
    /\ requests' = Append(requests, req)
    /\ UNCHANGED <<rows, lease, entries>>

Enqueue(kind, i) ==
    /\ cleanup' = Append(cleanup, [kind |-> kind, import |-> i])
    /\ UNCHANGED <<cleaner, todo, pendingRollbacks, collectionPending>>

(***************************************************************************)
(* importBatch.  Until its first await it runs with the caller: planning   *)
(* may reject the batch, after the admission has superseded the old job.   *)
(***************************************************************************)
ReserveAdmission(i, t) ==
    /\ disposed = "no"
    /\ pc[i] = "new"
    /\ target' = [target EXCEPT ![i] = t]
    /\ generations' = [generations EXCEPT ![t] = @ + 1]
    /\ admission' = [admission EXCEPT ![i] = generations[t] + 1]
    /\ aborted' = aborted \cup ({activeByTarget[t]} \ {NoImport})
    /\ UNCHANGED <<activeByTarget, activeJobs, stagedRefs, disposed>>

ImportBatch(i, t) ==
    /\ ReserveAdmission(i, t)
    /\ Enqueue("retry", i)
    /\ GoTo(i, "retrying")
    /\ UNCHANGED <<outcome, operation, repoVars, userVars, failures>>

RejectBatch(i, t) ==
    /\ ReserveAdmission(i, t)
    /\ operation' = [operation EXCEPT ![t] = Idle]
    /\ outcome' = [outcome EXCEPT ![i] = "rejected"]
    /\ GoTo(i, "done")
    /\ UNCHANGED <<cleanerVars, repoVars, userVars, failures>>

\* The pending rollbacks have been retried: begin the job.
BeginJob(i) ==
    /\ pc[i] = "retried"
    /\ IsAdmissionCurrent(i)
    /\ activeByTarget' = [activeByTarget EXCEPT ![target[i]] = i]
    /\ activeJobs' = activeJobs \cup {i}
    /\ operation' = [operation EXCEPT ![target[i]] = i]
    /\ Request([op |-> "begin", import |-> i])
    /\ GoTo(i, "beginning")
    /\ UNCHANGED <<target, admission, outcome, generations, aborted, stagedRefs,
                   disposed, cleanerVars, userVars, failures>>

Superseded(i) ==
    /\ pc[i] = "retried"
    /\ ~IsAdmissionCurrent(i)
    /\ outcome' = [outcome EXCEPT ![i] = "cancelled"]
    /\ GoTo(i, "done")
    /\ UNCHANGED <<target, admission, jobVars, disposed, operation, cleanerVars,
                   repoVars, userVars, failures>>

\* Anything that goes wrong before the commit rolls the lease back.
RollBack(i) ==
    /\ IF lease[i] = "none"
       THEN GoTo(i, "rolledBack") /\ UNCHANGED cleanerVars
       ELSE GoTo(i, "rollingBack") /\ Enqueue("rollback", i)
    /\ UNCHANGED repoVars

Continue(i, request, where) ==
    IF IsCurrent(i)
    THEN Request(request) /\ GoTo(i, where) /\ UNCHANGED cleanerVars
    ELSE RollBack(i)

Unmoved(i) ==
    UNCHANGED <<target, admission, outcome, disposed, operation, userVars, failures>>

LeaseBegun(i) ==
    /\ pc[i] = "begun"
    /\ IF IsCurrent(i) THEN GoTo(i, "preparing") /\ UNCHANGED <<cleanerVars, repoVars>>
                       ELSE RollBack(i)
    /\ UNCHANGED jobVars
    /\ Unmoved(i)

\* The handler stages a resource.
StageResource(i, r) ==
    /\ pc[i] = "preparing"
    /\ r \in Content[i] \ stagedRefs[i]
    /\ Continue(i, [op |-> "put", import |-> i, ref |-> r], "staging")
    /\ UNCHANGED jobVars
    /\ Unmoved(i)

ResourceStaged(i) ==
    /\ pc[i] = "staged"
    /\ stagedRefs' = [stagedRefs EXCEPT ![i] = rows[i]]
    /\ IF IsCurrent(i) THEN GoTo(i, "preparing") /\ UNCHANGED <<cleanerVars, repoVars>>
                       ELSE RollBack(i)
    /\ UNCHANGED <<generations, activeByTarget, activeJobs, aborted>>
    /\ Unmoved(i)

\* The handler or the validation of what it prepared throws.
PrepareFails(i) ==
    /\ pc[i] = "preparing"
    /\ RollBack(i)
    /\ UNCHANGED jobVars
    /\ Unmoved(i)

Prepared(i) ==
    /\ pc[i] = "preparing"
    /\ stagedRefs[i] = Content[i]
    /\ Continue(i, [op |-> "commit", import |-> i], "committing")
    /\ UNCHANGED jobVars
    /\ Unmoved(i)

OperationFailed(i) ==
    /\ pc[i] = "failed"
    /\ RollBack(i)
    /\ UNCHANGED jobVars
    /\ Unmoved(i)

\* The lease is rolled back, or its rollback is left pending.
RolledBack(i) ==
    /\ pc[i] = "rolledBack"
    /\ outcome' = [outcome EXCEPT ![i] = IF IsCurrent(i) THEN "rejected" ELSE "cancelled"]
    /\ FinishOperation(i)
    /\ RemoveJob(i)
    /\ GoTo(i, "done")
    /\ UNCHANGED <<target, admission, disposed, cleanerVars, repoVars, userVars, failures>>

\* The lease is committed.  Dispatching the assets may throw.
Dispatch(i) ==
    /\ stateRefs' = stateRefs \cup Content[i]
    /\ outcome' = [outcome EXCEPT ![i] = "committed"]

LeaseCommitted(i) ==
    /\ pc[i] = "committed"
    /\ \/ /\ IsCurrent(i)
          /\ Dispatch(i)
       \/ /\ IsCurrent(i)
          /\ outcome' = [outcome EXCEPT ![i] = "rejected"]
          /\ stateRefs' = stateRefs
       \/ /\ ~IsCurrent(i)
          /\ outcome' = [outcome EXCEPT ![i] = "cancelled"]
          /\ stateRefs' = stateRefs
    /\ FinishOperation(i)
    /\ RemoveJob(i)
    /\ Enqueue("collect", i)
    /\ GoTo(i, "collecting")
    /\ UNCHANGED <<target, admission, disposed, repoVars, dropped, cancels, failures>>

(***************************************************************************)
(* The cleanup manager runs its tasks one after another.                   *)
(***************************************************************************)
\* Mutant: the jobs are not asked.
ReachableFromState == stateRefs

ReachableRefs == stateRefs \cup UNION {stagedRefs[i] : i \in activeJobs}

Task == Head(cleanup)

CleanerUnmoved ==
    UNCHANGED <<target, admission, outcome, jobVars, operation, userVars, failures>>

StartRollbacks ==
    /\ cleaner = "idle"
    /\ cleanup # <<>>
    /\ Task.kind # "collect"
    /\ pendingRollbacks' = IF Task.kind = "rollback"
                           THEN pendingRollbacks \cup {Task.import} ELSE pendingRollbacks
    /\ todo' = IF Task.kind = "rollback" THEN {Task.import} ELSE pendingRollbacks
    /\ cleaner' = "rollbacks"
    /\ UNCHANGED <<pc, cleanup, collectionPending, repoVars, disposed>>
    /\ CleanerUnmoved

AttemptRollback(i) ==
    /\ cleaner = "rollbacks"
    /\ i \in todo
    /\ Request([op |-> "rollback", import |-> i])
    /\ todo' = todo \ {i}
    /\ cleaner' = "awaiting"
    /\ UNCHANGED <<pc, cleanup, pendingRollbacks, collectionPending, disposed>>
    /\ CleanerUnmoved

AttemptCollection ==
    /\ \/ cleaner = "idle" /\ cleanup # <<>> /\ Task.kind = "collect"
       \/ cleaner = "rollbacks" /\ todo = {} /\ Task.kind = "dispose" /\ collectionPending
    /\ Request([op |-> "collect", refs |-> ReachableRefs])
    /\ collectionPending' = TRUE
    /\ cleaner' = "awaiting"
    /\ UNCHANGED <<pc, cleanup, todo, pendingRollbacks, disposed>>
    /\ CleanerUnmoved

\* Mutant: the import that waits for its rollback is never woken.
AwokenUnlessRollingBack(where) ==
    CASE where = "retrying" -> "retried"
      [] where = "collecting" -> "done"
      [] OTHER -> where

\* The task ends and wakes the import that awaits it.
Awoken(where) ==
    CASE where = "retrying" -> "retried"
      [] where = "rollingBack" -> "rolledBack"
      [] where = "collecting" -> "done"
      [] OTHER -> where

FinishTask ==
    /\ \/ cleaner = "rollbacks" /\ todo = {} /\ Task.kind \in {"retry", "rollback"}
       \/ cleaner = "collected" /\ Task.kind = "collect"
    /\ cleanup' = Tail(cleanup)
    /\ cleaner' = "idle"
    /\ pc' = [pc EXCEPT ![Task.import] = Awoken(@)]
    /\ UNCHANGED <<todo, pendingRollbacks, collectionPending, repoVars, disposed>>
    /\ CleanerUnmoved

\* The last task of the queue: the repository is disposed, with what it
\* has staged; operations still requested of it are refused.
DisposeRepository ==
    /\ \/ cleaner = "rollbacks" /\ todo = {} /\ Task.kind = "dispose" /\ ~collectionPending
       \/ cleaner = "collected" /\ Task.kind = "dispose"
    /\ cleanup' = Tail(cleanup)
    /\ cleaner' = "idle"
    /\ rows' = [i \in Imports |-> {}]
    /\ lease' = [i \in Imports |-> IF lease[i] = "open" THEN "ended" ELSE lease[i]]
    /\ disposed' = "done"
    /\ UNCHANGED <<pc, todo, pendingRollbacks, collectionPending, requests, entries>>
    /\ CleanerUnmoved

(***************************************************************************)
(* The repository runs the operation requested first.                      *)
(***************************************************************************)
RepoUnmoved ==
    UNCHANGED <<target, admission, outcome, jobVars, disposed, operation,
                cleanup, todo, userVars>>

Run(op) ==
    /\ requests # <<>>
    /\ Head(requests).op = op
    /\ requests' = Tail(requests)

RunBegin ==
    /\ Run("begin")
    /\ LET i == Head(requests).import
       IN lease' = [lease EXCEPT ![i] = "open"] /\ GoTo(i, "begun")
    /\ UNCHANGED <<rows, entries, cleaner, pendingRollbacks, collectionPending, failures>>
    /\ RepoUnmoved

RunPut ==
    /\ Run("put")
    /\ LET i == Head(requests).import
       IN rows' = [rows EXCEPT ![i] = @ \cup {Head(requests).ref}] /\ GoTo(i, "staged")
    /\ UNCHANGED <<lease, entries, cleaner, pendingRollbacks, collectionPending, failures>>
    /\ RepoUnmoved

RunCommit ==
    /\ Run("commit")
    /\ LET i == Head(requests).import
       IN /\ entries' = entries \cup rows[i]
          /\ rows' = [rows EXCEPT ![i] = {}]
          /\ lease' = [lease EXCEPT ![i] = "ended"]
          /\ GoTo(i, "committed")
    /\ UNCHANGED <<cleaner, pendingRollbacks, collectionPending, failures>>
    /\ RepoUnmoved

RunRollback ==
    /\ Run("rollback")
    /\ LET i == Head(requests).import
       IN /\ rows' = [rows EXCEPT ![i] = {}]
          /\ lease' = [lease EXCEPT ![i] = "ended"]
          /\ pendingRollbacks' = pendingRollbacks \ {i}
    /\ cleaner' = "rollbacks"
    /\ UNCHANGED <<pc, entries, collectionPending, failures>>
    /\ RepoUnmoved

RunCollect ==
    /\ Run("collect")
    /\ entries' = entries \cap Head(requests).refs
    /\ collectionPending' = FALSE
    /\ cleaner' = "collected"
    /\ UNCHANGED <<pc, rows, lease, pendingRollbacks, failures>>
    /\ RepoUnmoved

RunFails ==
    /\ requests # <<>>
    /\ failures < MaxFailures
    /\ failures' = failures + 1
    /\ requests' = Tail(requests)
    /\ LET req == Head(requests)
       IN IF req.op \in {"begin", "put", "commit"}
          THEN GoTo(req.import, "failed") /\ cleaner' = cleaner
          ELSE /\ pc' = pc
               /\ cleaner' = IF req.op = "rollback" THEN "rollbacks" ELSE "collected"
    /\ UNCHANGED <<rows, lease, entries, pendingRollbacks, collectionPending>>
    /\ RepoUnmoved

(***************************************************************************)
(* The user and the owner of the coordinator.                              *)
(***************************************************************************)
CancelTarget(t) ==
    /\ cancels < MaxCancels
    /\ disposed = "no"
    /\ cancels' = cancels + 1
    /\ generations' = [generations EXCEPT ![t] = @ + 1]
    /\ aborted' = aborted \cup ({activeByTarget[t]} \ {NoImport})
    /\ activeByTarget' = [activeByTarget EXCEPT ![t] = NoImport]
    /\ operation' = [operation EXCEPT ![t] = Idle]
    /\ UNCHANGED <<pc, target, admission, outcome, activeJobs, stagedRefs, disposed,
                   cleanerVars, repoVars, stateRefs, dropped, failures>>

\* An asset and its undo history are removed from the workspace.
RemoveAsset(r) ==
    /\ r \in stateRefs
    /\ stateRefs' = stateRefs \ {r}
    /\ dropped' = dropped \cup {r}
    /\ UNCHANGED <<pc, target, admission, outcome, jobVars, disposed, operation,
                   cleanerVars, repoVars, cancels, failures>>

\* dispose: no more admissions, every job is aborted.
BeginDispose ==
    /\ disposed = "no"
    /\ disposed' = "waiting"
    /\ aborted' = aborted \cup activeJobs
    /\ activeByTarget' = [t \in Targets |-> NoImport]
    /\ UNCHANGED <<pc, target, admission, outcome, generations, activeJobs, stagedRefs,
                   operation, cleanerVars, repoVars, userVars, failures>>

Inflight == {i \in Imports : pc[i] \notin {"new", "done"}}

\* Mutant: disposal does not wait.
JobsSettledAlways == TRUE

\* Every import in flight has settled.
JobsSettled == Inflight = {}

DisposeCleanup ==
    /\ disposed = "waiting"
    /\ JobsSettled
    /\ disposed' = "cleanup"
    /\ operation' = [t \in Targets |-> Idle]
    /\ Enqueue("dispose", NoImport)
    /\ UNCHANGED <<pc, target, admission, outcome, jobVars, repoVars, userVars, failures>>

Import(i) ==
    \/ BeginJob(i) \/ Superseded(i) \/ LeaseBegun(i) \/ ResourceStaged(i)
    \/ Prepared(i) \/ PrepareFails(i) \/ OperationFailed(i) \/ RolledBack(i)
    \/ LeaseCommitted(i)
    \/ \E r \in Refs : StageResource(i, r)

Cleaner ==
    \/ StartRollbacks \/ AttemptCollection \/ FinishTask \/ DisposeRepository
    \/ \E i \in Imports : AttemptRollback(i)

Repo == RunBegin \/ RunPut \/ RunCommit \/ RunRollback \/ RunCollect \/ RunFails

User ==
    \/ \E i \in Imports, t \in Targets : ImportBatch(i, t) \/ RejectBatch(i, t)
    \/ \E t \in Targets : CancelTarget(t)
    \/ \E r \in Refs : RemoveAsset(r)
    \/ BeginDispose

Next == (\E i \in Imports : Import(i)) \/ Cleaner \/ Repo \/ User \/ DisposeCleanup

Spec == Init /\ [][Next]_vars

(***************************************************************************)
(* The event loop runs every continuation, the repository answers, and a   *)
(* handler that is asked to stop settles.                                  *)
(***************************************************************************)
Fairness ==
    /\ \A i \in Imports : WF_vars(Import(i))
    /\ WF_vars(Cleaner)
    /\ WF_vars(Repo)
    /\ WF_vars(DisposeCleanup)

FairSpec == Spec /\ Fairness

-----------------------------------------------------------------------------
TypeOK ==
    /\ pc \in [Imports -> {"new", "retrying", "retried", "beginning", "begun", "preparing",
                           "staging", "staged", "committing", "committed", "collecting",
                           "failed", "rollingBack", "rolledBack", "done"}]
    /\ target \in [Imports -> Targets \cup {NoTarget}]
    /\ admission \in [Imports -> Nat]
    /\ outcome \in [Imports -> {"none", "rejected", "cancelled", "committed"}]
    /\ generations \in [Targets -> Nat]
    /\ activeByTarget \in [Targets -> Imports \cup {NoImport}]
    /\ activeJobs \in SUBSET Imports
    /\ aborted \in SUBSET Imports
    /\ stagedRefs \in [Imports -> SUBSET Refs]
    /\ disposed \in {"no", "waiting", "cleanup", "done"}
    /\ operation \in [Targets -> Imports \cup {Idle}]
    /\ cleanup \in Seq(Tasks)
    /\ cleaner \in {"idle", "rollbacks", "awaiting", "collected"}
    /\ todo \in SUBSET Imports
    /\ pendingRollbacks \in SUBSET Imports
    /\ collectionPending \in BOOLEAN
    /\ requests \in Seq(RepoRequests)
    /\ rows \in [Imports -> SUBSET Refs]
    /\ lease \in [Imports -> {"none", "open", "ended"}]
    /\ entries \in SUBSET Refs
    /\ stateRefs \in SUBSET Refs
    /\ dropped \in SUBSET Refs
    /\ cancels \in Nat
    /\ failures \in Nat

(***************************************************************************)
(* Every resource the workspace names is in the repository: a collection   *)
(* requested for one import never deletes what another has committed and   *)
(* is about to dispatch (getReachableRefs counts the jobs' staged refs).   *)
(***************************************************************************)
StateResourcesPresent == stateRefs \subseteq entries

(***************************************************************************)
(* A resource of a running import is either staged or committed from the   *)
(* moment it is staged until the import lets go of it.                     *)
(***************************************************************************)
JobResourcesSafe ==
    \A i \in activeJobs : pc[i] \in {"preparing", "staging", "committing", "committed"} =>
        stagedRefs[i] \subseteq rows[i] \cup entries

\* The two together: nothing that is named, or about to be, is lost.
ResourcesKept == StateResourcesPresent /\ JobResourcesSafe

(***************************************************************************)
(* An upload target is shown busy only while an import works on it: a      *)
(* superseded, cancelled or failed import never leaves it busy.  (Disposal *)
(* empties the operation store itself.)                                    *)
(***************************************************************************)
NoStuckOperation ==
    disposed = "no" => \A t \in Targets : operation[t] # Idle =>
        \E i \in Inflight : target[i] = t

(***************************************************************************)
(* A settled import has ended its lease, or the cleanup manager still owes *)
(* the rollback and retries it.                                            *)
(***************************************************************************)
NoLeakedLease ==
    \A i \in Imports : pc[i] = "done" /\ lease[i] = "open" => i \in pendingRollbacks

(***************************************************************************)
(* When all imports have settled and no collection is owed, the repository *)
(* holds nothing but what the workspace names or the user has removed: a   *)
(* cancelled import leaves no resource behind, even one committed already, *)
(* unless another import stages the same.                                  *)
(***************************************************************************)
Shared ==
    {r \in Refs : \E i, j \in Imports : i # j /\ r \in Content[i] \cap Content[j]}

Quiet == Inflight = {} /\ cleanup = <<>> /\ ~collectionPending

CancelledLeavesNothing == Quiet => entries \subseteq stateRefs \cup dropped \cup Shared

\* However imports end, no busy target, no lease and no resource is left of
\* them that nobody will take care of.
NothingLeftBehind == NoStuckOperation /\ NoLeakedLease /\ CancelledLeavesNothing

(***************************************************************************)
(* The repository is disposed only after everything that uses it settled.  *)
(***************************************************************************)
DisposedAfterUse ==
    disposed = "done" => Inflight = {} /\ requests = <<>> /\ cleanup = <<>>

(***************************************************************************)
(* Only the import admitted last on its target, neither cancelled nor      *)
(* disposed since, changes the workspace, however late its commit ends.    *)
(***************************************************************************)
OnlyLatestDispatches ==
    [][\A i \in Imports : outcome[i] # "committed" /\ outcome'[i] = "committed" =>
         /\ disposed = "no"
         /\ generations[target[i]] = admission[i]
         /\ \A j \in Imports : target[j] = target[i] => admission[j] <= admission[i]]_vars

(***************************************************************************)
(* Every import settles, and a disposal that has begun completes.          *)
(***************************************************************************)
ImportsSettle ==
    /\ \A i \in Imports : pc[i] # "new" ~> pc[i] = "done"
    /\ disposed # "no" ~> disposed = "done"
=============================================================================
