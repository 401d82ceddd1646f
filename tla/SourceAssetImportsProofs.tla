----------------------- MODULE SourceAssetImportsProofs -----------------------
(***************************************************************************)
(* Proofs about the source asset coordinator: what its imports commit is   *)
(* kept, what they abandon is given up, and disposal comes last.           *)
(***************************************************************************)
EXTENDS SourceAssetImports, SequenceTheorems, TLAPS

-----------------------------------------------------------------------------
(***************************************************************************)
(* Who waits for what.  Every request and every task has its owner, which  *)
(* waits for it and for nothing else.                                      *)
(***************************************************************************)
\* The import a request is made for; the cleanup manager has those of none.
Owner(q) == IF q.op \in {"begin", "put", "commit"} THEN q.import ELSE NoImport

\* What a request says of where the imports are, p, and of the cleaner, c.
RequestAwaited(q, p, c) ==
    /\ q.op = "begin" => p[q.import] = "beginning"
    /\ q.op = "put" => p[q.import] = "staging"
    /\ q.op = "commit" => p[q.import] = "committing"
    /\ q.op \in {"rollback", "collect"} => c = "awaiting"

RequestsAwaited ==
    /\ \A n \in 1 .. Len(requests) : RequestAwaited(requests[n], pc, cleaner)
    /\ \A m, n \in 1 .. Len(requests) : Owner(requests[m]) = Owner(requests[n]) => m = n

\* What a task says of where the imports are and of the disposal, d.
TaskAwaited(k, p, d) ==
    /\ k.kind = "retry" => p[k.import] = "retrying"
    /\ k.kind = "rollback" => p[k.import] = "rollingBack"
    /\ k.kind = "collect" => p[k.import] = "collecting"
    /\ k.kind = "dispose" => d = "cleanup"

TasksAwaited ==
    /\ \A n \in 1 .. Len(cleanup) : TaskAwaited(cleanup[n], pc, disposed)
    /\ \A m, n \in 1 .. Len(cleanup) : cleanup[m].import = cleanup[n].import => m = n

\* The task that runs.
CleanerAtWork ==
    /\ cleaner # "idle" => cleanup # <<>>
    /\ cleaner = "rollbacks" => Task.kind # "collect"
    /\ cleaner = "collected" => Task.kind \in {"collect", "dispose"}
    /\ \A n \in 1 .. Len(requests) :
          /\ requests[n].op = "rollback" => Task.kind # "collect"
          /\ requests[n].op = "collect" => Task.kind \in {"collect", "dispose"}

DisposalLast ==
    /\ disposed \in {"cleanup", "done"} => Inflight = {}
    /\ disposed = "done" => cleanup = <<>> /\ requests = <<>>

WaitInv == TypeOK /\ RequestsAwaited /\ TasksAwaited /\ CleanerAtWork /\ DisposalLast

(***************************************************************************)
(* Leases.  A lease is rolled back only when its import has given it up;   *)
(* until it ends its rows are what the import has staged.                  *)
(***************************************************************************)
Requested == {requests[n] : n \in 1 .. Len(requests)}

Abandoned == {"rollingBack", "rolledBack", "done"}

Begun == {"beginning", "begun", "preparing", "staging", "staged", "committing", "committed",
          "failed", "rollingBack", "rolledBack"}

JobsBegun == activeJobs = {i \in Imports : pc[i] \in Begun}

LeasesFollow ==
    \A i \in Imports :
        /\ pc[i] \in {"new", "retrying", "retried", "beginning"} => lease[i] = "none"
        /\ pc[i] \in {"begun", "preparing", "staging", "staged", "committing"} => lease[i] = "open"
        /\ pc[i] \in {"committed", "collecting"} => lease[i] = "ended"
        /\ pc[i] \in {"rolledBack", "done"} /\ lease[i] = "open" => i \in pendingRollbacks
        /\ pc[i] = "rollingBack" => lease[i] # "none"
        /\ lease[i] # "open" => rows[i] = {}

RollbacksAbandoned ==
    /\ \A i \in pendingRollbacks \cup todo : pc[i] \in Abandoned
    /\ \A q \in Requested : q.op = "rollback" => pc[q.import] \in Abandoned
    /\ cleaner # "idle" /\ Task.kind = "rollback" =>
          lease[Task.import] # "open" \/ Task.import \in pendingRollbacks

StagedRows ==
    \A i \in Imports :
        /\ rows[i] \subseteq Content[i] /\ stagedRefs[i] \subseteq Content[i]
        /\ pc[i] \in {"new", "retrying", "retried", "beginning", "begun"} => stagedRefs[i] = {}
        /\ pc[i] \in {"preparing", "staging", "committing"} => stagedRefs[i] \subseteq rows[i]
        /\ pc[i] \in {"committing", "committed"} => stagedRefs[i] = Content[i]

PutsOwn == \A q \in Requested : q.op = "put" => q.ref \in Content[q.import]

LeaseInv == JobsBegun /\ LeasesFollow /\ RollbacksAbandoned /\ StagedRows /\ PutsOwn

(***************************************************************************)
(* Targets.  A target shown busy has an import of the latest admission.    *)
(***************************************************************************)
Unstarted == {"new", "retrying", "retried"}

Ahead(j, t) ==
    /\ target[j] = t
    /\ admission[j] = generations[t]
    /\ \/ pc[j] \in {"retrying", "retried"}
       \/ j \in activeJobs /\ j \notin aborted /\ activeByTarget[t] = j

TargetInv ==
    /\ \A t \in Targets : activeByTarget[t] # NoImport =>
          activeByTarget[t] \in activeJobs /\ target[activeByTarget[t]] = t
    /\ \A i \in aborted : pc[i] \notin Unstarted
    /\ \A i \in Imports : pc[i] # "new" => target[i] \in Targets
    /\ \A i \in Imports : target[i] \in Targets => admission[i] <= generations[target[i]]
    /\ disposed = "no" =>
          \A t \in Targets : operation[t] # Idle => \E j \in Imports : Ahead(j, t)

(***************************************************************************)
(* What is kept.  A collection that is requested spares what the state     *)
(* names, what a commit ahead of it will add, and what is committed.       *)
(***************************************************************************)
Spared(refs, n) ==
    /\ stateRefs \subseteq refs
    /\ \A i \in Imports : pc[i] = "committed" => Content[i] \subseteq refs
    /\ \A m \in 1 .. n : requests[m].op = "commit" => Content[requests[m].import] \subseteq refs

KeepInv ==
    /\ stateRefs \subseteq entries
    /\ \A i \in Imports : pc[i] = "committed" => Content[i] \subseteq entries
    /\ \A n \in 1 .. Len(requests) :
          requests[n].op = "collect" => Spared(requests[n].refs, n)

(***************************************************************************)
(* What is given up.  A committed resource that nobody names and only one  *)
(* import stages is still to be collected: its import has a collection     *)
(* ahead, or one is owed.                                                  *)
(***************************************************************************)
Unclaimed == entries \ (stateRefs \cup dropped \cup Shared)

CollectsSoon(j) ==
    \/ pc[j] = "committed"
    \/ \E n \in 1 .. Len(cleanup) :
          /\ cleanup[n].kind = "collect" /\ cleanup[n].import = j
          /\ n > 1 \/ cleaner = "idle"

GiveUpInv ==
    /\ \A r \in entries : \E j \in Imports :
          r \in Content[j] /\ pc[j] \in {"committed", "collecting", "done"}
    /\ \A r \in Unclaimed :
          collectionPending \/ \E j \in Imports : r \in Content[j] /\ CollectsSoon(j)
    /\ \A q \in Requested : q.op = "collect" =>
          \A r \in Unclaimed \cap q.refs :
              \E j \in Imports : r \in Content[j] /\ CollectsSoon(j)

-----------------------------------------------------------------------------
(***************************************************************************)
(* Queues.                                                                 *)
(***************************************************************************)
LEMMA AppendAt ==
    ASSUME NEW S, NEW s \in Seq(S), NEW e \in S
    PROVE  /\ Append(s, e) \in Seq(S)
           /\ Append(s, e) # <<>>
           /\ Len(s) \in Nat /\ Len(Append(s, e)) = Len(s) + 1
           /\ \A n \in 1 .. Len(s) : Append(s, e)[n] = s[n]
           /\ Append(s, e)[Len(s) + 1] = e
           /\ s # <<>> => Head(Append(s, e)) = Head(s)
  <1>1. /\ Append(s, e) \in Seq(S)
        /\ Len(s) \in Nat /\ Len(Append(s, e)) = Len(s) + 1
        /\ \A n \in 1 .. Len(s) : Append(s, e)[n] = s[n]
        /\ Append(s, e)[Len(s) + 1] = e
    OBVIOUS
  <1>2. Append(s, e) # <<>>
    BY <1>1, EmptySeq
  <1>3. ASSUME s # <<>> PROVE Head(Append(s, e)) = Head(s)
    <2>1. Len(s) >= 1
      BY <1>3, EmptySeq
    <2>2. Head(s) = s[1] /\ Head(Append(s, e)) = Append(s, e)[1]
      BY <1>1, <1>2, <1>3
    <2>. QED BY <1>1, <2>1, <2>2
  <1>. QED BY <1>1, <1>2, <1>3

LEMMA TailAt ==
    ASSUME NEW S, NEW s \in Seq(S), s # <<>>
    PROVE  /\ Tail(s) \in Seq(S)
           /\ Len(s) \in Nat /\ Len(s) >= 1 /\ Len(Tail(s)) = Len(s) - 1
           /\ Head(s) = s[1] /\ s[1] \in S
           /\ \A n \in 1 .. Len(Tail(s)) : n + 1 \in 1 .. Len(s) /\ Tail(s)[n] = s[n + 1]
  OBVIOUS

LEMMA At ==
    ASSUME NEW S, NEW s \in Seq(S)
    PROVE  /\ Len(s) \in Nat
           /\ \A n \in 1 .. Len(s) : s[n] \in S
           /\ s # <<>> => Len(s) >= 1
  BY EmptySeq, ElementOfSeq

\* What the fields of requests and tasks are.
LEMMA RequestFields ==
    ASSUME NEW q \in RepoRequests
    PROVE  /\ q.op \in {"begin", "put", "commit", "rollback", "collect"}
           /\ q.op # "collect" => q.import \in Imports
           /\ q.op = "put" => q.ref \in Refs
           /\ q.op = "collect" => q.refs \in SUBSET Refs
  BY DEF RepoRequests

LEMMA RequestsMade ==
    ASSUME NEW i \in Imports
    PROVE  /\ [op |-> "begin", import |-> i] \in RepoRequests
           /\ [op |-> "commit", import |-> i] \in RepoRequests
           /\ [op |-> "rollback", import |-> i] \in RepoRequests
           /\ \A r \in Refs : [op |-> "put", import |-> i, ref |-> r] \in RepoRequests
  BY DEF RepoRequests

LEMMA TaskFields ==
    ASSUME NEW k \in Tasks
    PROVE  /\ k.kind \in {"retry", "rollback", "collect", "dispose"}
           /\ k.kind # "dispose" => k.import \in Imports
           /\ k.kind = "dispose" => k.import = NoImport
  BY DEF Tasks

LEMMA TasksMade ==
    /\ \A i \in Imports, k \in {"retry", "rollback", "collect"} : [kind |-> k, import |-> i] \in Tasks
    /\ [kind |-> "dispose", import |-> NoImport] \in Tasks
  BY DEF Tasks

-----------------------------------------------------------------------------
(***************************************************************************)
(* Types.                                                                  *)
(***************************************************************************)
LEMMA InitTyped == Init => TypeOK
  <1>1. <<>> \in Seq(Tasks) /\ <<>> \in Seq(RepoRequests)
    OBVIOUS
  <1>. SUFFICES ASSUME Init PROVE TypeOK
    OBVIOUS
  <1>2. /\ pc \in [Imports -> {"new"}] /\ target \in [Imports -> {NoTarget}]
        /\ admission \in [Imports -> {0}] /\ outcome \in [Imports -> {"none"}]
        /\ stagedRefs \in [Imports -> {{}}] /\ rows \in [Imports -> {{}}]
        /\ lease \in [Imports -> {"none"}]
    BY DEF Init
  <1>3. /\ generations \in [Targets -> {0}] /\ activeByTarget \in [Targets -> {NoImport}]
        /\ operation \in [Targets -> {NoImport}]
    BY DEF Init, Idle
  <1>. QED BY <1>1, <1>2, <1>3 DEF Init, TypeOK, Idle

LEMMA RollBackTyped ==
    ASSUME TypeOK, NEW i \in Imports, RollBack(i)
    PROVE  /\ pc' \in [Imports -> {"new", "retrying", "retried", "beginning", "begun", "preparing",
                           "staging", "staged", "committing", "committed", "collecting",
                           "failed", "rollingBack", "rolledBack", "done"}]
           /\ cleanup' \in Seq(Tasks)
           /\ UNCHANGED <<cleaner, todo, pendingRollbacks, collectionPending, repoVars>>
  <1>1. Append(cleanup, [kind |-> "rollback", import |-> i]) \in Seq(Tasks)
    BY TasksMade, AppendAt DEF TypeOK
  <1>. QED BY <1>1 DEF TypeOK, RollBack, GoTo, Enqueue, cleanerVars

LEMMA ImportTyped ==
    ASSUME TypeOK, NEW i \in Imports, Import(i)
    PROVE  TypeOK'
  <1>1. CASE BeginJob(i)
    <2>1. requests' \in Seq(RepoRequests)
      BY <1>1, RequestsMade, AppendAt DEF TypeOK, BeginJob, Request
    <2>. QED BY <1>1, <2>1 DEF TypeOK, BeginJob, Request, GoTo, cleanerVars, userVars
  <1>2. CASE Superseded(i)
    BY <1>2 DEF TypeOK, Superseded, GoTo, jobVars, cleanerVars, repoVars, userVars
  <1>3. CASE LeaseBegun(i)
    BY <1>3, RollBackTyped DEF TypeOK, LeaseBegun, GoTo, Unmoved, jobVars, cleanerVars, repoVars, userVars
  <1>4. CASE ResourceStaged(i)
    BY <1>4, RollBackTyped DEF TypeOK, ResourceStaged, GoTo, Unmoved, jobVars, cleanerVars, repoVars, userVars
  <1>5. CASE Prepared(i)
    <2>1. CASE RollBack(i)
      BY <1>5, <2>1, RollBackTyped DEF TypeOK, Prepared, Unmoved, jobVars, repoVars, userVars
    <2>2. CASE IsCurrent(i) /\ Request([op |-> "commit", import |-> i]) /\ GoTo(i, "committing")
               /\ UNCHANGED cleanerVars
      <3>1. requests' \in Seq(RepoRequests)
        BY <2>2, RequestsMade, AppendAt DEF TypeOK, Request
      <3>. QED BY <1>5, <2>2, <3>1 DEF TypeOK, Prepared, Request, GoTo, Unmoved, jobVars, cleanerVars, userVars
    <2>. QED BY <1>5, <2>1, <2>2 DEF Prepared, Continue
  <1>6. CASE PrepareFails(i) \/ OperationFailed(i)
    BY <1>6, RollBackTyped DEF TypeOK, PrepareFails, OperationFailed, Unmoved, jobVars, repoVars, userVars
  <1>7. CASE RolledBack(i)
    BY <1>7 DEF TypeOK, RolledBack, FinishOperation, RemoveJob, GoTo, Idle, cleanerVars, repoVars, userVars
  <1>8. CASE LeaseCommitted(i)
    <2>1. cleanup' \in Seq(Tasks)
      BY <1>8, TasksMade, AppendAt DEF TypeOK, LeaseCommitted, Enqueue
    <2>2. stateRefs' \in SUBSET Refs /\ outcome' \in [Imports -> {"none", "rejected", "cancelled", "committed"}]
      BY <1>8, ContentAssumption DEF TypeOK, LeaseCommitted, Dispatch
    <2>. QED BY <1>8, <2>1, <2>2
             DEF TypeOK, LeaseCommitted, FinishOperation, RemoveJob, Enqueue, GoTo, Idle, repoVars
  <1>9. ASSUME NEW r \in Refs, StageResource(i, r) PROVE TypeOK'
    <2>1. CASE RollBack(i)
      BY <1>9, <2>1, RollBackTyped DEF TypeOK, StageResource, Unmoved, jobVars, repoVars, userVars
    <2>2. CASE IsCurrent(i) /\ Request([op |-> "put", import |-> i, ref |-> r]) /\ GoTo(i, "staging")
               /\ UNCHANGED cleanerVars
      <3>1. requests' \in Seq(RepoRequests)
        BY <2>2, RequestsMade, AppendAt DEF TypeOK, Request
      <3>. QED BY <1>9, <2>2, <3>1 DEF TypeOK, StageResource, Request, GoTo, Unmoved, jobVars, cleanerVars, userVars
    <2>. QED BY <1>9, <2>1, <2>2 DEF StageResource, Continue
  <1>. QED BY <1>1, <1>2, <1>3, <1>4, <1>5, <1>6, <1>7, <1>8, <1>9 DEF Import

LEMMA CleanerTyped ==
    ASSUME TypeOK, CleanerAtWork, Cleaner
    PROVE  TypeOK'
  <1>1. CASE StartRollbacks
    <2>1. Task \in Tasks
      BY <1>1, TailAt DEF TypeOK, StartRollbacks, Task
    <2>2. todo' \in SUBSET Imports /\ pendingRollbacks' \in SUBSET Imports
      BY <1>1, <2>1, TaskFields DEF TypeOK, StartRollbacks
    <2>. QED BY <1>1, <2>2 DEF TypeOK, StartRollbacks, CleanerUnmoved, jobVars, repoVars, userVars
  <1>2. CASE AttemptCollection
    <2>1. [op |-> "collect", refs |-> ReachableRefs] \in RepoRequests
      BY DEF TypeOK, ReachableRefs, RepoRequests
    <2>2. requests' \in Seq(RepoRequests)
      BY <1>2, <2>1, AppendAt DEF TypeOK, AttemptCollection, Request
    <2>. QED BY <1>2, <2>2 DEF TypeOK, AttemptCollection, Request, CleanerUnmoved, jobVars, userVars
  <1>3. CASE FinishTask
    <2>1. cleanup' \in Seq(Tasks)
      BY <1>3, TailAt DEF TypeOK, CleanerAtWork, FinishTask
    <2>2. pc' \in [Imports -> {"new", "retrying", "retried", "beginning", "begun", "preparing",
                           "staging", "staged", "committing", "committed", "collecting",
                           "failed", "rollingBack", "rolledBack", "done"}]
      BY <1>3 DEF TypeOK, FinishTask, Awoken
    <2>. QED BY <1>3, <2>1, <2>2 DEF TypeOK, FinishTask, CleanerUnmoved, jobVars, repoVars, userVars
  <1>4. CASE DisposeRepository
    <2>1. cleanup' \in Seq(Tasks)
      BY <1>4, TailAt DEF TypeOK, CleanerAtWork, DisposeRepository
    <2>. QED BY <1>4, <2>1 DEF TypeOK, DisposeRepository, CleanerUnmoved, jobVars, userVars
  <1>5. ASSUME NEW i \in Imports, AttemptRollback(i) PROVE TypeOK'
    <2>1. requests' \in Seq(RepoRequests)
      BY <1>5, RequestsMade, AppendAt DEF TypeOK, AttemptRollback, Request
    <2>. QED BY <1>5, <2>1 DEF TypeOK, AttemptRollback, Request, CleanerUnmoved, jobVars, userVars
  <1>. QED BY <1>1, <1>2, <1>3, <1>4, <1>5 DEF Cleaner

LEMMA RepoTyped ==
    ASSUME TypeOK, Repo
    PROVE  TypeOK'
  <1>1. requests # <<>> /\ requests' = Tail(requests)
    BY DEF Repo, RunBegin, RunPut, RunCommit, RunRollback, RunCollect, RunFails, Run
  <1>2. requests' \in Seq(RepoRequests) /\ Head(requests) \in RepoRequests
    BY <1>1, TailAt DEF TypeOK
  <1>. DEFINE q == Head(requests)
  <1>3. CASE RunBegin
    BY <1>2, <1>3 DEF TypeOK, RunBegin, GoTo, RepoUnmoved, jobVars, userVars
  <1>4. CASE RunPut
    <2>1. q.ref \in Refs
      BY <1>2, <1>4, RequestFields DEF RunPut, Run
    <2>. QED BY <1>2, <1>4, <2>1 DEF TypeOK, RunPut, GoTo, RepoUnmoved, jobVars, userVars
  <1>5. CASE RunCommit
    <2>1. q.import \in Imports
      BY <1>2, <1>5, RequestFields DEF RunCommit, Run
    <2>. QED BY <1>2, <1>5, <2>1 DEF TypeOK, RunCommit, GoTo, RepoUnmoved, jobVars, userVars
  <1>6. CASE RunRollback
    BY <1>2, <1>6 DEF TypeOK, RunRollback, RepoUnmoved, jobVars, userVars
  <1>7. CASE RunCollect
    BY <1>2, <1>7 DEF TypeOK, RunCollect, RepoUnmoved, jobVars, userVars
  <1>8. CASE RunFails
    <2>1. /\ pc' = pc \/ pc' = [pc EXCEPT ![q.import] = "failed"]
          /\ cleaner' \in {cleaner, "rollbacks", "collected"}
          /\ failures' = failures + 1
      BY <1>8 DEF RunFails, GoTo
    <2>2. pc' \in [Imports -> {"new", "retrying", "retried", "beginning", "begun", "preparing",
                           "staging", "staged", "committing", "committed", "collecting",
                           "failed", "rollingBack", "rolledBack", "done"}]
      BY <2>1 DEF TypeOK
    <2>. HIDE DEF q
    <2>. QED BY <1>2, <1>8, <2>1, <2>2 DEF TypeOK, RunFails, RepoUnmoved, jobVars, userVars
  <1>. QED BY <1>3, <1>4, <1>5, <1>6, <1>7, <1>8 DEF Repo

LEMMA UserTyped ==
    ASSUME TypeOK, User \/ DisposeCleanup
    PROVE  TypeOK'
  <1>1. ASSUME NEW i \in Imports, NEW t \in Targets, ImportBatch(i, t) PROVE TypeOK'
    <2>1. cleanup' \in Seq(Tasks)
      BY <1>1, TasksMade, AppendAt DEF TypeOK, ImportBatch, Enqueue
    <2>. QED BY <1>1, <2>1
             DEF TypeOK, ImportBatch, ReserveAdmission, Enqueue, GoTo, repoVars, userVars
  <1>2. ASSUME NEW i \in Imports, NEW t \in Targets, RejectBatch(i, t) PROVE TypeOK'
    BY <1>2 DEF TypeOK, RejectBatch, ReserveAdmission, Idle, GoTo, cleanerVars, repoVars, userVars
  <1>3. ASSUME NEW t \in Targets, CancelTarget(t) PROVE TypeOK'
    BY <1>3 DEF TypeOK, CancelTarget, Idle, cleanerVars, repoVars
  <1>4. ASSUME NEW r \in Refs, RemoveAsset(r) PROVE TypeOK'
    BY <1>4 DEF TypeOK, RemoveAsset, jobVars, cleanerVars, repoVars
  <1>5. CASE BeginDispose
    BY <1>5 DEF TypeOK, BeginDispose, cleanerVars, repoVars, userVars
  <1>6. CASE DisposeCleanup
    <2>1. cleanup' \in Seq(Tasks)
      BY <1>6, TasksMade, AppendAt DEF TypeOK, DisposeCleanup, Enqueue
    <2>. QED BY <1>6, <2>1 DEF TypeOK, DisposeCleanup, Enqueue, Idle, jobVars, repoVars, userVars
  <1>. QED BY <1>1, <1>2, <1>3, <1>4, <1>5, <1>6 DEF User

LEMMA NextTyped ==
    ASSUME TypeOK, CleanerAtWork, [Next]_vars
    PROVE  TypeOK'
  <1>1. CASE UNCHANGED vars
    BY <1>1 DEF TypeOK, vars, jobVars, cleanerVars, repoVars, userVars
  <1>. QED BY <1>1, ImportTyped, CleanerTyped, RepoTyped, UserTyped DEF Next

-----------------------------------------------------------------------------
(***************************************************************************)
(* Requests and tasks are awaited.                                         *)
(***************************************************************************)
Requesting == {"beginning", "staging", "committing"}
Queued == {"retrying", "rollingBack", "collecting"}

\* A step after which all others than e still wait.
OthersAwait(e) ==
    /\ \A i \in Imports : pc[i] \in Requesting /\ i # e => pc'[i] = pc[i]
    /\ cleaner = "awaiting" /\ e # NoImport => cleaner' = "awaiting"

LEMMA OwnerAwaits ==
    ASSUME NEW q \in RepoRequests, NEW e, RequestAwaited(q, pc, cleaner), Owner(q) # e, OthersAwait(e)
    PROVE  RequestAwaited(q, pc', cleaner')
  BY RequestFields DEF RequestAwaited, Owner, OthersAwait, Requesting

LEMMA RequestsStay ==
    ASSUME TypeOK, RequestsAwaited, requests' = requests,
           \A i \in Imports : pc[i] \in Requesting => pc'[i] = pc[i],
           cleaner = "awaiting" => cleaner' = "awaiting"
    PROVE  RequestsAwaited'
  <1>1. ASSUME NEW n \in 1 .. Len(requests) PROVE requests[n] \in RepoRequests
    BY At DEF TypeOK
  <1>. QED BY <1>1, RequestFields DEF RequestsAwaited, RequestAwaited, Requesting, Owner

LEMMA RequestAdded ==
    ASSUME TypeOK, RequestsAwaited, NEW q \in RepoRequests, requests' = Append(requests, q),
           OthersAwait(Owner(q)), RequestAwaited(q, pc', cleaner'),
           IF Owner(q) = NoImport THEN cleaner # "awaiting" ELSE pc[Owner(q)] \notin Requesting
    PROVE  RequestsAwaited'
  <1>1. /\ Len(requests) \in Nat /\ Len(requests') = Len(requests) + 1
        /\ \A n \in 1 .. Len(requests) : requests'[n] = requests[n]
        /\ requests'[Len(requests) + 1] = q
    BY AppendAt DEF TypeOK
  <1>2. ASSUME NEW n \in 1 .. Len(requests)
        PROVE  /\ requests[n] \in RepoRequests /\ Owner(requests[n]) # Owner(q)
               /\ RequestAwaited(requests[n], pc', cleaner')
    <2>1. requests[n] \in RepoRequests
      BY At DEF TypeOK
    <2>2. RequestAwaited(requests[n], pc, cleaner)
      BY DEF RequestsAwaited
    <2>3. Owner(requests[n]) # Owner(q)
      BY <2>1, <2>2, RequestFields, NoImportAssumption DEF RequestAwaited, Owner, Requesting
    <2>. HIDE DEF Owner
    <2>. QED BY <2>1, <2>2, <2>3, OwnerAwaits
  <1>3. \A n \in 1 .. Len(requests') : RequestAwaited(requests'[n], pc', cleaner')
    BY <1>1, <1>2
  <1>4. \A m, n \in 1 .. Len(requests') : Owner(requests'[m]) = Owner(requests'[n]) => m = n
    BY <1>1, <1>2 DEF RequestsAwaited
  <1>. QED BY <1>3, <1>4 DEF RequestsAwaited, Owner

LEMMA RequestTaken ==
    ASSUME TypeOK, RequestsAwaited, requests # <<>>, requests' = Tail(requests),
           OthersAwait(Owner(Head(requests)))
    PROVE  RequestsAwaited'
  <1>1. /\ Len(requests) \in Nat /\ Len(requests) >= 1 /\ Len(requests') = Len(requests) - 1
        /\ Head(requests) = requests[1]
        /\ \A n \in 1 .. Len(requests') :
              n + 1 \in 1 .. Len(requests) /\ requests'[n] = requests[n + 1]
    BY TailAt DEF TypeOK
  <1>2. ASSUME NEW n \in 1 .. Len(requests') PROVE RequestAwaited(requests'[n], pc', cleaner')
    <2>1. n + 1 \in 1 .. Len(requests) /\ requests'[n] = requests[n + 1] /\ n + 1 # 1
      BY <1>1
    <2>2. requests[n + 1] \in RepoRequests /\ RequestAwaited(requests[n + 1], pc, cleaner)
      BY <2>1, At DEF TypeOK, RequestsAwaited
    <2>3. Owner(requests[n + 1]) # Owner(requests[1])
      BY <1>1, <2>1 DEF RequestsAwaited
    <2>. QED BY <1>1, <2>1, <2>2, <2>3, OwnerAwaits
  <1>3. \A m, n \in 1 .. Len(requests') : Owner(requests'[m]) = Owner(requests'[n]) => m = n
    BY <1>1 DEF RequestsAwaited
  <1>. QED BY <1>2, <1>3 DEF RequestsAwaited, Owner

\* The same for the tasks of the cleanup manager.
OthersQueued(e) ==
    /\ \A i \in Imports : pc[i] \in Queued /\ i # e => pc'[i] = pc[i]
    /\ disposed = "cleanup" /\ e # NoImport => disposed' = "cleanup"

LEMMA ImportQueued ==
    ASSUME NEW k \in Tasks, NEW e, TaskAwaited(k, pc, disposed), k.import # e, OthersQueued(e)
    PROVE  TaskAwaited(k, pc', disposed')
  BY TaskFields DEF TaskAwaited, OthersQueued, Queued

LEMMA TasksStay ==
    ASSUME TypeOK, TasksAwaited, cleanup' = cleanup,
           \A i \in Imports : pc[i] \in Queued => pc'[i] = pc[i],
           disposed = "cleanup" => disposed' = "cleanup"
    PROVE  TasksAwaited'
  <1>1. ASSUME NEW n \in 1 .. Len(cleanup) PROVE cleanup[n] \in Tasks
    BY At DEF TypeOK
  <1>. QED BY <1>1, TaskFields DEF TasksAwaited, TaskAwaited, Queued

LEMMA TaskAdded ==
    ASSUME TypeOK, TasksAwaited, NEW k \in Tasks, cleanup' = Append(cleanup, k),
           OthersQueued(k.import), TaskAwaited(k, pc', disposed'),
           IF k.import = NoImport THEN disposed # "cleanup" ELSE pc[k.import] \notin Queued
    PROVE  TasksAwaited'
  <1>1. /\ Len(cleanup) \in Nat /\ Len(cleanup') = Len(cleanup) + 1
        /\ \A n \in 1 .. Len(cleanup) : cleanup'[n] = cleanup[n]
        /\ cleanup'[Len(cleanup) + 1] = k
    BY AppendAt DEF TypeOK
  <1>2. ASSUME NEW n \in 1 .. Len(cleanup)
        PROVE  cleanup[n].import # k.import /\ TaskAwaited(cleanup[n], pc', disposed')
    <2>1. cleanup[n] \in Tasks
      BY At DEF TypeOK
    <2>2. TaskAwaited(cleanup[n], pc, disposed)
      BY DEF TasksAwaited
    <2>3. cleanup[n].import # k.import
      BY <2>1, <2>2, TaskFields, NoImportAssumption DEF TaskAwaited, Queued
    <2>. QED BY <2>1, <2>2, <2>3, ImportQueued
  <1>3. \A n \in 1 .. Len(cleanup') : TaskAwaited(cleanup'[n], pc', disposed')
    BY <1>1, <1>2
  <1>4. \A m, n \in 1 .. Len(cleanup') : cleanup'[m].import = cleanup'[n].import => m = n
    BY <1>1, <1>2 DEF TasksAwaited
  <1>. QED BY <1>3, <1>4 DEF TasksAwaited

LEMMA TaskTaken ==
    ASSUME TypeOK, TasksAwaited, cleanup # <<>>, cleanup' = Tail(cleanup),
           OthersQueued(Task.import)
    PROVE  TasksAwaited'
  <1>1. /\ Len(cleanup) \in Nat /\ Len(cleanup) >= 1 /\ Len(cleanup') = Len(cleanup) - 1
        /\ Task = cleanup[1]
        /\ \A n \in 1 .. Len(cleanup') :
              n + 1 \in 1 .. Len(cleanup) /\ cleanup'[n] = cleanup[n + 1]
    BY TailAt DEF TypeOK, Task
  <1>2. ASSUME NEW n \in 1 .. Len(cleanup') PROVE TaskAwaited(cleanup'[n], pc', disposed')
    <2>1. n + 1 \in 1 .. Len(cleanup) /\ cleanup'[n] = cleanup[n + 1] /\ n + 1 # 1
      BY <1>1
    <2>2. cleanup[n + 1] \in Tasks /\ TaskAwaited(cleanup[n + 1], pc, disposed)
      BY <2>1, At DEF TypeOK, TasksAwaited
    <2>3. cleanup[n + 1].import # cleanup[1].import
      BY <1>1, <2>1 DEF TasksAwaited
    <2>. QED BY <1>1, <2>1, <2>2, <2>3, ImportQueued
  <1>3. \A m, n \in 1 .. Len(cleanup') : cleanup'[m].import = cleanup'[n].import => m = n
    BY <1>1 DEF TasksAwaited
  <1>. QED BY <1>2, <1>3 DEF TasksAwaited

-----------------------------------------------------------------------------
\* An import moves while nothing has it wait: it takes one request or one task, or none.
Free == {"retried", "begun", "preparing", "staged", "failed", "rolledBack", "committed"}

Kinds == {"retry", "rollback", "collect"}

Moves(i, where) ==
    /\ pc' = [pc EXCEPT ![i] = where]
    /\ \/ requests' = requests /\ cleanup' = cleanup /\ where \notin Requesting \cup Queued
       \/ /\ cleanup' = cleanup
          /\ \E q \in RepoRequests :
                /\ requests' = Append(requests, q)
                /\ q.op \in {"begin", "put", "commit"} /\ q.import = i
                /\ RequestAwaited(q, pc', cleaner')
       \/ /\ requests' = requests
          /\ \E k \in Tasks :
                /\ cleanup' = Append(cleanup, k) /\ k.import = i
                /\ TaskAwaited(k, pc', disposed')

LEMMA RollBackMoves ==
    ASSUME TypeOK, NEW i \in Imports, RollBack(i)
    PROVE  /\ \E where : Moves(i, where)
           /\ UNCHANGED <<cleaner, todo, pendingRollbacks, collectionPending, rows, lease, entries>>
  <1>1. UNCHANGED <<requests, cleaner, todo, pendingRollbacks, collectionPending, rows, lease, entries>>
    BY DEF RollBack, Enqueue, cleanerVars, repoVars
  <1>2. CASE lease[i] = "none"
    BY <1>1, <1>2 DEF RollBack, GoTo, Moves, cleanerVars, Requesting, Queued
  <1>3. CASE lease[i] # "none"
    <2>. DEFINE k == [kind |-> "rollback", import |-> i]
    <2>1. k \in Tasks /\ k.import = i /\ k.kind = "rollback"
      BY TasksMade
    <2>2. pc' = [pc EXCEPT ![i] = "rollingBack"] /\ cleanup' = Append(cleanup, k)
      BY <1>3 DEF RollBack, GoTo, Enqueue
    <2>3. TaskAwaited(k, pc', disposed')
      BY <2>1, <2>2 DEF TaskAwaited, TypeOK
    <2>. HIDE DEF k
    <2>. QED BY <1>1, <2>1, <2>2, <2>3 DEF Moves
  <1>. QED BY <1>1, <1>2, <1>3

LEMMA RequestMoves ==
    ASSUME TypeOK, NEW i \in Imports, NEW q \in RepoRequests, NEW where,
           q.import = i, Request(q), GoTo(i, where), UNCHANGED cleanup,
           <<q.op, where>> \in {<<"begin", "beginning">>, <<"put", "staging">>,
                                <<"commit", "committing">>}
    PROVE  Moves(i, where)
  <1>1. pc' = [pc EXCEPT ![i] = where] /\ pc'[i] = where /\ requests' = Append(requests, q)
    BY DEF GoTo, Request, TypeOK
  <1>2. RequestAwaited(q, pc', cleaner')
    BY <1>1 DEF RequestAwaited
  <1>. QED BY <1>1, <1>2 DEF Moves

LEMMA ContinueMoves ==
    ASSUME TypeOK, NEW i \in Imports, NEW q \in RepoRequests, NEW where,
           q.import = i, Continue(i, q, where),
           <<q.op, where>> \in {<<"put", "staging">>, <<"commit", "committing">>}
    PROVE  /\ \E w : Moves(i, w)
           /\ UNCHANGED <<cleaner, todo, pendingRollbacks, collectionPending, rows, lease, entries>>
  BY RollBackMoves, RequestMoves DEF Continue, Request, cleanerVars

LEMMA ImportMoves ==
    ASSUME TypeOK, NEW i \in Imports, Import(i)
    PROVE  /\ pc[i] \in Free
           /\ \E where : Moves(i, where)
           /\ UNCHANGED <<cleaner, todo, pendingRollbacks, collectionPending, disposed,
                          target, admission, generations, rows, lease, entries>>
  <1>1. CASE BeginJob(i)
    <2>1. Moves(i, "beginning")
      BY <1>1, RequestsMade, RequestMoves DEF BeginJob, cleanerVars
    <2>. QED BY <1>1, <2>1 DEF BeginJob, Request, Free, cleanerVars
  <1>2. CASE Superseded(i)
    <2>1. Moves(i, "done")
      BY <1>2 DEF Superseded, GoTo, Moves, cleanerVars, repoVars, Requesting, Queued
    <2>. QED BY <1>2, <2>1 DEF Superseded, Free, jobVars, cleanerVars, repoVars
  <1>3. CASE LeaseBegun(i) \/ ResourceStaged(i)
    <2>1. pc[i] \in Free /\ UNCHANGED <<disposed, target, admission, generations>>
      BY <1>3 DEF LeaseBegun, ResourceStaged, Unmoved, Free, jobVars
    <2>2. CASE RollBack(i)
      BY <2>1, <2>2, RollBackMoves
    <2>3. CASE GoTo(i, "preparing") /\ UNCHANGED <<cleanerVars, repoVars>>
      <3>1. Moves(i, "preparing")
        BY <2>3 DEF GoTo, Moves, cleanerVars, repoVars, Requesting, Queued
      <3>. QED BY <2>1, <2>3, <3>1 DEF cleanerVars, repoVars
    <2>. QED BY <1>3, <2>2, <2>3 DEF LeaseBegun, ResourceStaged
  <1>4. CASE Prepared(i)
    BY <1>4, RequestsMade, ContinueMoves DEF Prepared, Unmoved, Free, jobVars
  <1>5. CASE PrepareFails(i) \/ OperationFailed(i)
    BY <1>5, RollBackMoves DEF PrepareFails, OperationFailed, Unmoved, Free, jobVars
  <1>6. CASE RolledBack(i)
    <2>1. Moves(i, "done")
      BY <1>6 DEF RolledBack, GoTo, Moves, cleanerVars, repoVars, Requesting, Queued
    <2>. QED BY <1>6, <2>1 DEF RolledBack, RemoveJob, Free, cleanerVars, repoVars
  <1>7. CASE LeaseCommitted(i)
    <2>. DEFINE k == [kind |-> "collect", import |-> i]
    <2>1. k \in Tasks /\ k.import = i /\ k.kind = "collect"
      BY TasksMade
    <2>2. pc' = [pc EXCEPT ![i] = "collecting"] /\ cleanup' = Append(cleanup, k) /\ requests' = requests
      BY <1>7 DEF LeaseCommitted, GoTo, Enqueue, repoVars
    <2>3. TaskAwaited(k, pc', disposed')
      BY <2>1, <2>2 DEF TaskAwaited, TypeOK
    <2>. HIDE DEF k
    <2>4. Moves(i, "collecting")
      BY <2>1, <2>2, <2>3 DEF Moves
    <2>. QED BY <1>7, <2>4 DEF LeaseCommitted, RemoveJob, Enqueue, Free, repoVars
  <1>8. ASSUME NEW r \in Refs, StageResource(i, r)
        PROVE  /\ pc[i] \in Free
               /\ \E where : Moves(i, where)
               /\ UNCHANGED <<cleaner, todo, pendingRollbacks, collectionPending, disposed,
                              target, admission, generations, rows, lease, entries>>
    BY <1>8, RequestsMade, ContinueMoves DEF StageResource, Unmoved, Free, jobVars
  <1>. QED BY <1>1, <1>2, <1>3, <1>4, <1>5, <1>6, <1>7, <1>8 DEF Import

LEMMA MovesWait ==
    ASSUME WaitInv, NEW i \in Imports, NEW where, Moves(i, where), pc[i] \in Free,
           UNCHANGED <<cleaner, disposed>>
    PROVE  RequestsAwaited' /\ TasksAwaited' /\ CleanerAtWork' /\ DisposalLast'
  <1>1. pc' = [pc EXCEPT ![i] = where]
    BY DEF Moves
  <1>2. /\ \A j \in Imports : pc[j] \in Requesting \cup Queued => pc'[j] = pc[j]
        /\ pc[i] \notin Requesting \cup Queued
    BY <1>1 DEF Free, Requesting, Queued, WaitInv, TypeOK
  <1>3. i # NoImport
    BY NoImportAssumption
  <1>4. RequestsAwaited'
    <2>1. CASE requests' = requests
      BY <1>2, <2>1, RequestsStay DEF WaitInv
    <2>2. ASSUME NEW q \in RepoRequests, requests' = Append(requests, q),
                 q.op \in {"begin", "put", "commit"}, q.import = i,
                 RequestAwaited(q, pc', cleaner')
          PROVE  RequestsAwaited'
      <3>1. Owner(q) = i
        BY <2>2 DEF Owner
      <3>2. OthersAwait(Owner(q))
        BY <1>2 DEF OthersAwait
      <3>. HIDE DEF Owner
      <3>. QED BY <1>2, <1>3, <2>2, <3>1, <3>2, RequestAdded DEF WaitInv
    <2>. QED BY <2>1, <2>2 DEF Moves
  <1>5. TasksAwaited'
    <2>1. CASE cleanup' = cleanup
      BY <1>2, <2>1, TasksStay DEF WaitInv
    <2>2. ASSUME NEW k \in Tasks, cleanup' = Append(cleanup, k), k.import = i,
                 TaskAwaited(k, pc', disposed')
          PROVE  TasksAwaited'
      <3>1. OthersQueued(k.import)
        BY <1>2 DEF OthersQueued
      <3>. QED BY <1>2, <1>3, <2>2, <3>1, TaskAdded DEF WaitInv
    <2>. QED BY <2>1, <2>2 DEF Moves
  <1>6. CleanerAtWork'
    <2>1. cleanup' = cleanup \/ \E k \in Tasks : cleanup' = Append(cleanup, k)
      BY DEF Moves
    <2>2. cleanup # <<>> => cleanup' # <<>> /\ Task' = Task
      <3>1. ASSUME NEW k \in Tasks, cleanup' = Append(cleanup, k), cleanup # <<>>
            PROVE  cleanup' # <<>> /\ Task' = Task
        BY <3>1, AppendAt DEF WaitInv, TypeOK, Task
      <3>. QED BY <2>1, <3>1 DEF Task
    <2>3. ASSUME NEW n \in 1 .. Len(requests'), requests'[n].op \in {"rollback", "collect"}
          PROVE  n \in 1 .. Len(requests) /\ requests'[n] = requests[n] /\ cleanup # <<>>
      <3>1. n \in 1 .. Len(requests) /\ requests'[n] = requests[n]
        <4>1. CASE requests' = requests
          BY <2>3, <4>1
        <4>2. ASSUME NEW q \in RepoRequests, requests' = Append(requests, q),
                     q.op \in {"begin", "put", "commit"}
              PROVE  n \in 1 .. Len(requests) /\ requests'[n] = requests[n]
          <5>1. /\ Len(requests) \in Nat /\ Len(requests') = Len(requests) + 1
                /\ \A m \in 1 .. Len(requests) : requests'[m] = requests[m]
                /\ requests'[Len(requests) + 1] = q
            BY <4>2, AppendAt DEF WaitInv, TypeOK
          <5>. QED BY <2>3, <4>2, <5>1
        <4>. QED BY <4>1, <4>2 DEF Moves
      <3>2. cleaner = "awaiting"
        BY <2>3, <3>1 DEF WaitInv, RequestsAwaited, RequestAwaited
      <3>. QED BY <3>1, <3>2 DEF WaitInv, CleanerAtWork
    <2>. QED BY <2>2, <2>3 DEF WaitInv, CleanerAtWork
  <1>7. DisposalLast'
    BY DEF WaitInv, DisposalLast, Inflight, Free
  <1>. QED BY <1>4, <1>5, <1>6, <1>7

LEMMA ImportWait == ASSUME WaitInv, NEW i \in Imports, Import(i) PROVE WaitInv'
  <1>1. TypeOK
    BY DEF WaitInv
  <1>2. PICK where : Moves(i, where)
    BY <1>1, ImportMoves
  <1>3. pc[i] \in Free /\ UNCHANGED <<cleaner, disposed>>
    BY <1>1, ImportMoves
  <1>. QED BY <1>1, <1>2, <1>3, MovesWait, ImportTyped DEF WaitInv

\* The first request and the task that runs.
LEMMA FirstRequest ==
    ASSUME WaitInv, requests # <<>>
    PROVE  /\ Head(requests) \in RepoRequests /\ 1 \in 1 .. Len(requests)
           /\ Head(requests) = requests[1] /\ RequestAwaited(Head(requests), pc, cleaner)
  <1>1. 1 \in 1 .. Len(requests) /\ Head(requests) = requests[1] /\ requests[1] \in RepoRequests
    BY TailAt DEF WaitInv, TypeOK
  <1>. QED BY <1>1 DEF WaitInv, RequestsAwaited

LEMMA FirstTask ==
    ASSUME WaitInv, cleanup # <<>>
    PROVE  /\ Task \in Tasks /\ 1 \in 1 .. Len(cleanup) /\ Task = cleanup[1]
           /\ TaskAwaited(Task, pc, disposed)
  <1>1. 1 \in 1 .. Len(cleanup) /\ Task = cleanup[1] /\ Task \in Tasks
    BY TailAt DEF WaitInv, TypeOK, Task
  <1>. QED BY <1>1 DEF WaitInv, TasksAwaited

\* A request of the cleanup manager, which now awaits it.
LEMMA CleanerRequests ==
    ASSUME WaitInv, NEW q \in RepoRequests, q.op \in {"rollback", "collect"}, Request(q),
           cleaner # "awaiting", cleaner' = "awaiting", cleanup # <<>>,
           q.op = "rollback" => Task.kind # "collect",
           q.op = "collect" => Task.kind \in {"collect", "dispose"},
           UNCHANGED <<pc, cleanup, disposed>>
    PROVE  RequestsAwaited' /\ TasksAwaited' /\ CleanerAtWork' /\ DisposalLast'
  <1>1. requests' = Append(requests, q) /\ Owner(q) = NoImport
    BY DEF Request, Owner
  <1>2. RequestsAwaited'
    <2>1. OthersAwait(Owner(q)) /\ RequestAwaited(q, pc', cleaner')
      BY DEF OthersAwait, RequestAwaited
    <2>. HIDE DEF Owner
    <2>. QED BY <1>1, <2>1, RequestAdded DEF WaitInv
  <1>3. TasksAwaited'
    BY TasksStay DEF WaitInv
  <1>4. CleanerAtWork'
    <2>1. /\ Len(requests) \in Nat /\ Len(requests') = Len(requests) + 1
          /\ \A n \in 1 .. Len(requests) : requests'[n] = requests[n]
          /\ requests'[Len(requests) + 1] = q
      BY <1>1, AppendAt DEF WaitInv, TypeOK
    <2>2. Task' = Task
      BY DEF Task
    <2>. QED BY <2>1, <2>2 DEF WaitInv, CleanerAtWork
  <1>5. DisposalLast'
    <2>1. disposed # "done"
      BY DEF WaitInv, DisposalLast
    <2>. QED BY <2>1 DEF WaitInv, DisposalLast, Inflight
  <1>. QED BY <1>2, <1>3, <1>4, <1>5

\* The task that ran is over.
LEMMA TaskEnds ==
    ASSUME WaitInv, cleaner \in {"rollbacks", "collected"}, cleaner' = "idle",
           cleanup # <<>>, cleanup' = Tail(cleanup), requests' = requests,
           \A i \in Imports : pc[i] \in Requesting => pc'[i] = pc[i],
           OthersQueued(Task.import)
    PROVE  RequestsAwaited' /\ TasksAwaited' /\ CleanerAtWork'
  <1>1. RequestsAwaited'
    BY RequestsStay DEF WaitInv
  <1>2. TasksAwaited'
    BY TaskTaken DEF WaitInv
  <1>3. \A n \in 1 .. Len(requests) : requests[n].op \notin {"rollback", "collect"}
    BY DEF WaitInv, RequestsAwaited, RequestAwaited
  <1>. QED BY <1>1, <1>2, <1>3 DEF CleanerAtWork

LEMMA CleanerWait == ASSUME WaitInv, Cleaner PROVE WaitInv'
  <1>1. TypeOK'
    BY CleanerTyped DEF WaitInv
  <1>2. CASE StartRollbacks
    <2>1. UNCHANGED <<pc, cleanup, requests, disposed, Task>>
      BY <1>2 DEF StartRollbacks, repoVars, Task
    <2>2. RequestsAwaited'
      BY <1>2, <2>1, RequestsStay DEF WaitInv, StartRollbacks
    <2>3. TasksAwaited'
      BY <2>1, TasksStay DEF WaitInv
    <2>. QED BY <1>1, <1>2, <2>1, <2>2, <2>3
             DEF WaitInv, StartRollbacks, CleanerAtWork, DisposalLast, Inflight
  <1>3. ASSUME NEW i \in Imports, AttemptRollback(i) PROVE WaitInv'
    <2>. DEFINE q == [op |-> "rollback", import |-> i]
    <2>1. q \in RepoRequests /\ q.op = "rollback"
      BY RequestsMade
    <2>2. /\ Request(q) /\ cleaner = "rollbacks" /\ cleaner' = "awaiting"
          /\ UNCHANGED <<pc, cleanup, disposed>>
      BY <1>3 DEF AttemptRollback
    <2>3. cleanup # <<>> /\ Task.kind # "collect"
      BY <2>2 DEF WaitInv, CleanerAtWork
    <2>. HIDE DEF q
    <2>. QED BY <1>1, <2>1, <2>2, <2>3, CleanerRequests DEF WaitInv
  <1>4. CASE AttemptCollection
    <2>1. PICK q \in RepoRequests : q = [op |-> "collect", refs |-> ReachableRefs]
      <3>1. [op |-> "collect", refs |-> ReachableRefs] \in RepoRequests
        BY DEF WaitInv, TypeOK, ReachableRefs, RepoRequests
      <3>. QED BY <3>1
    <2>2. /\ Request(q) /\ cleaner \in {"idle", "rollbacks"} /\ cleaner' = "awaiting"
          /\ UNCHANGED <<pc, cleanup, disposed>> /\ Task.kind \in {"collect", "dispose"}
      BY <1>4, <2>1 DEF AttemptCollection
    <2>3. cleanup # <<>> /\ q.op = "collect"
      BY <1>4, <2>1 DEF AttemptCollection, WaitInv, CleanerAtWork
    <2>. QED BY <1>1, <2>2, <2>3, CleanerRequests DEF WaitInv
  <1>5. CASE FinishTask
    <2>1. /\ cleaner \in {"rollbacks", "collected"} /\ cleaner' = "idle"
          /\ cleanup # <<>> /\ cleanup' = Tail(cleanup)
          /\ requests' = requests /\ disposed' = disposed
          /\ Task.kind \in {"retry", "rollback", "collect"}
      BY <1>5 DEF FinishTask, WaitInv, CleanerAtWork, repoVars
    <2>2. pc' = [pc EXCEPT ![Task.import] = Awoken(@)]
      BY <1>5 DEF FinishTask
    <2>3. \A i \in Imports : pc[i] \in Requesting => pc'[i] = pc[i]
      BY <2>2 DEF WaitInv, TypeOK, Awoken, Requesting
    <2>4. OthersQueued(Task.import)
      BY <2>1, <2>2 DEF WaitInv, TypeOK, OthersQueued
    <2>5. Task.import \in Imports /\ pc[Task.import] \in Queued
      BY <2>1, FirstTask, TaskFields DEF TaskAwaited, Queued
    <2>6. DisposalLast'
      BY <2>1, <2>5 DEF WaitInv, DisposalLast, Inflight, Queued
    <2>. QED BY <1>1, <2>1, <2>3, <2>4, <2>6, TaskEnds DEF WaitInv
  <1>6. CASE DisposeRepository
    <2>1. /\ cleaner \in {"rollbacks", "collected"} /\ cleaner' = "idle"
          /\ cleanup # <<>> /\ cleanup' = Tail(cleanup) /\ Task.kind = "dispose"
          /\ UNCHANGED <<pc, requests>> /\ disposed' = "done"
      BY <1>6 DEF DisposeRepository, WaitInv, CleanerAtWork, CleanerUnmoved
    <2>2. Task.import = NoImport /\ disposed = "cleanup"
      BY <2>1, FirstTask, TaskFields DEF TaskAwaited
    <2>3. OthersQueued(Task.import)
      BY <2>1, <2>2 DEF OthersQueued
    <2>4. Inflight = {}
      BY <2>2 DEF WaitInv, DisposalLast
    <2>5. requests = <<>>
      <3>1. ASSUME requests # <<>> PROVE FALSE
        <4>1. RequestAwaited(Head(requests), pc, cleaner) /\ Head(requests) \in RepoRequests
          BY <3>1, FirstRequest
        <4>. QED BY <2>1, <2>4, <4>1, RequestFields DEF RequestAwaited, Inflight
      <3>. QED BY <3>1
    <2>6. cleanup' = <<>>
      <3>1. /\ Len(cleanup) \in Nat /\ Len(cleanup') = Len(cleanup) - 1 /\ cleanup' \in Seq(Tasks)
            /\ Task = cleanup[1]
        BY <2>1, TailAt DEF WaitInv, TypeOK, Task
      <3>2. ASSUME Len(cleanup) >= 2 PROVE FALSE
        <4>1. 1 \in 1 .. Len(cleanup) /\ 2 \in 1 .. Len(cleanup)
          BY <3>1, <3>2
        <4>2. cleanup[2] \in Tasks /\ TaskAwaited(cleanup[2], pc, disposed) /\ cleanup[2].import # NoImport
          BY <2>2, <3>1, <4>1, At DEF WaitInv, TypeOK, TasksAwaited
        <4>. QED BY <2>4, <4>2, TaskFields DEF TaskAwaited, Inflight
      <3>. QED BY <3>1, <3>2, EmptySeq
    <2>7. DisposalLast'
      BY <2>1, <2>4, <2>5, <2>6 DEF DisposalLast, Inflight
    <2>. QED BY <1>1, <2>1, <2>3, <2>7, TaskEnds DEF WaitInv
  <1>. QED BY <1>2, <1>3, <1>4, <1>5, <1>6 DEF Cleaner

LEMMA RepoWait == ASSUME WaitInv, Repo PROVE WaitInv'
  <1>1. /\ requests # <<>> /\ requests' = Tail(requests)
        /\ UNCHANGED <<cleanup, disposed, Task>>
    BY DEF Repo, RunBegin, RunPut, RunCommit, RunRollback, RunCollect, RunFails, Run, RepoUnmoved, Task
  <1>. DEFINE q == Head(requests)
  <1>2. q \in RepoRequests /\ q = requests[1] /\ RequestAwaited(q, pc, cleaner) /\ 1 \in 1 .. Len(requests)
    BY <1>1, FirstRequest
  <1>3. \/ /\ q.op \in {"begin", "put", "commit"} /\ cleaner' = cleaner
           /\ \E where \in {"begun", "staged", "committed", "failed"} :
                 pc' = [pc EXCEPT ![q.import] = where]
        \/ q.op = "rollback" /\ cleaner' = "rollbacks" /\ pc' = pc
        \/ q.op = "collect" /\ cleaner' = "collected" /\ pc' = pc
    BY <1>2, RequestFields
       DEF Repo, RunBegin, RunPut, RunCommit, RunRollback, RunCollect, RunFails, Run, GoTo
  <1>4. RequestsAwaited'
    <2>1. OthersAwait(Owner(q))
      BY <1>3 DEF OthersAwait, Owner, WaitInv, TypeOK
    <2>. QED BY <1>1, <2>1, RequestTaken DEF WaitInv
  <1>5. TasksAwaited'
    <2>1. \A i \in Imports : pc[i] \in Queued => pc'[i] = pc[i]
      BY <1>2, <1>3 DEF RequestAwaited, Queued, WaitInv, TypeOK
    <2>. QED BY <1>1, <2>1, TasksStay DEF WaitInv
  <1>6. CleanerAtWork'
    <2>1. \A n \in 1 .. Len(requests') : n + 1 \in 1 .. Len(requests) /\ requests'[n] = requests[n + 1]
      BY <1>1, TailAt DEF WaitInv, TypeOK
    <2>2. cleaner' # "idle" => cleaner # "idle"
      BY <1>2, <1>3 DEF RequestAwaited
    <2>. QED BY <1>1, <1>2, <1>3, <2>1, <2>2 DEF WaitInv, CleanerAtWork
  <1>7. DisposalLast'
    <2>1. disposed # "done"
      BY <1>1 DEF WaitInv, DisposalLast
    <2>2. Inflight' \subseteq Inflight
      BY <1>2, <1>3 DEF RequestAwaited, Inflight, WaitInv, TypeOK
    <2>. QED BY <1>1, <2>1, <2>2 DEF WaitInv, DisposalLast
  <1>. QED BY <1>4, <1>5, <1>6, <1>7, RepoTyped DEF WaitInv

LEMMA UserWait == ASSUME WaitInv, User \/ DisposeCleanup PROVE WaitInv'
  <1>1. TypeOK'
    BY UserTyped DEF WaitInv
  <1>. SUFFICES RequestsAwaited' /\ TasksAwaited' /\ CleanerAtWork' /\ DisposalLast'
    BY <1>1 DEF WaitInv
  <1>2. ASSUME UNCHANGED <<pc, requests, cleanup, cleaner>>,
               disposed' = disposed \/ (disposed = "no" /\ disposed' = "waiting")
        PROVE  RequestsAwaited' /\ TasksAwaited' /\ CleanerAtWork' /\ DisposalLast'
    <2>1. RequestsAwaited' /\ TasksAwaited'
      BY <1>2, RequestsStay, TasksStay DEF WaitInv
    <2>. QED BY <1>2, <2>1 DEF WaitInv, CleanerAtWork, DisposalLast, Inflight, Task
  <1>3. ASSUME NEW k \in Tasks, cleanup' = Append(cleanup, k),
               UNCHANGED <<requests, cleaner>>,
               \A i \in Imports : pc[i] \in Requesting => pc'[i] = pc[i],
               TasksAwaited', DisposalLast'
        PROVE  RequestsAwaited' /\ TasksAwaited' /\ CleanerAtWork' /\ DisposalLast'
    <2>1. RequestsAwaited'
      BY <1>3, RequestsStay DEF WaitInv
    <2>2. cleanup # <<>> => cleanup' # <<>> /\ Task' = Task
      BY <1>3, AppendAt DEF WaitInv, TypeOK, Task
    <2>3. \A n \in 1 .. Len(requests) :
             requests[n].op \in {"rollback", "collect"} => cleaner = "awaiting"
      BY DEF WaitInv, RequestsAwaited, RequestAwaited
    <2>. QED BY <1>3, <2>1, <2>2, <2>3 DEF WaitInv, CleanerAtWork
  <1>4. ASSUME NEW i \in Imports, NEW t \in Targets, ImportBatch(i, t)
        PROVE  RequestsAwaited' /\ TasksAwaited' /\ CleanerAtWork' /\ DisposalLast'
    <2>1. PICK k \in Tasks : k = [kind |-> "retry", import |-> i]
      BY TasksMade
    <2>2. /\ cleanup' = Append(cleanup, k) /\ UNCHANGED <<requests, cleaner, disposed>>
          /\ pc[i] = "new" /\ pc' = [pc EXCEPT ![i] = "retrying"] /\ disposed = "no"
      BY <1>4, <2>1 DEF ImportBatch, ReserveAdmission, Enqueue, GoTo, repoVars
    <2>3. \A j \in Imports : pc[j] \in Requesting \cup Queued => pc'[j] = pc[j]
      BY <2>2 DEF WaitInv, TypeOK, Requesting, Queued
    <2>4. TaskAwaited(k, pc', disposed') /\ OthersQueued(k.import)
      BY <2>1, <2>2, <2>3 DEF TaskAwaited, OthersQueued, WaitInv, TypeOK
    <2>5. k.import = i /\ i # NoImport
      BY <2>1, NoImportAssumption
    <2>6. TasksAwaited'
      BY <2>2, <2>4, <2>5, TaskAdded DEF WaitInv, Queued
    <2>7. DisposalLast'
      BY <2>2 DEF DisposalLast
    <2>. QED BY <1>3, <2>2, <2>3, <2>6, <2>7
  <1>5. ASSUME NEW i \in Imports, NEW t \in Targets, RejectBatch(i, t)
        PROVE  RequestsAwaited' /\ TasksAwaited' /\ CleanerAtWork' /\ DisposalLast'
    <2>1. /\ UNCHANGED <<requests, cleanup, cleaner, disposed, Task>> /\ disposed = "no"
          /\ pc[i] = "new" /\ pc' = [pc EXCEPT ![i] = "done"]
      BY <1>5 DEF RejectBatch, ReserveAdmission, GoTo, repoVars, cleanerVars, Task
    <2>2. \A j \in Imports : pc[j] \in Requesting \cup Queued => pc'[j] = pc[j]
      BY <2>1 DEF WaitInv, TypeOK, Requesting, Queued
    <2>3. RequestsAwaited' /\ TasksAwaited'
      BY <2>1, <2>2, RequestsStay, TasksStay DEF WaitInv
    <2>. QED BY <2>1, <2>3 DEF WaitInv, CleanerAtWork, DisposalLast
  <1>6. ASSUME NEW t \in Targets, CancelTarget(t)
        PROVE  RequestsAwaited' /\ TasksAwaited' /\ CleanerAtWork' /\ DisposalLast'
    BY <1>2, <1>6 DEF CancelTarget, cleanerVars, repoVars
  <1>7. ASSUME NEW r \in Refs, RemoveAsset(r)
        PROVE  RequestsAwaited' /\ TasksAwaited' /\ CleanerAtWork' /\ DisposalLast'
    BY <1>2, <1>7 DEF RemoveAsset, cleanerVars, repoVars
  <1>8. CASE BeginDispose
    BY <1>2, <1>8 DEF BeginDispose, cleanerVars, repoVars
  <1>9. CASE DisposeCleanup
    <2>1. PICK k \in Tasks : k = [kind |-> "dispose", import |-> NoImport]
      BY TasksMade
    <2>2. /\ cleanup' = Append(cleanup, k) /\ UNCHANGED <<pc, requests, cleaner>>
          /\ disposed = "waiting" /\ disposed' = "cleanup" /\ Inflight = {}
      BY <1>9, <2>1 DEF DisposeCleanup, JobsSettled, Enqueue, repoVars
    <2>3. TaskAwaited(k, pc', disposed') /\ OthersQueued(k.import) /\ k.import = NoImport
      BY <2>1, <2>2 DEF TaskAwaited, OthersQueued
    <2>4. TasksAwaited'
      BY <2>2, <2>3, TaskAdded DEF WaitInv
    <2>5. DisposalLast'
      BY <2>2 DEF DisposalLast, Inflight
    <2>. QED BY <1>3, <2>2, <2>4, <2>5
  <1>. QED BY <1>4, <1>5, <1>6, <1>7, <1>8, <1>9 DEF User

LEMMA InitWait == Init => WaitInv
  BY InitTyped DEF Init, WaitInv, RequestsAwaited, TasksAwaited, CleanerAtWork, DisposalLast

LEMMA NextWait == ASSUME WaitInv, [Next]_vars PROVE WaitInv'
  <1>1. CASE UNCHANGED vars
    <2>1. UNCHANGED <<pc, requests, cleanup, cleaner, disposed, Task>>
      BY <1>1 DEF vars, cleanerVars, repoVars, Task
    <2>2. RequestsAwaited' /\ TasksAwaited'
      BY <2>1, RequestsStay, TasksStay DEF WaitInv
    <2>3. TypeOK'
      BY NextTyped DEF WaitInv
    <2>. QED BY <2>1, <2>2, <2>3 DEF WaitInv, CleanerAtWork, DisposalLast, Inflight
  <1>. QED BY <1>1, ImportWait, CleanerWait, RepoWait, UserWait DEF Next

LEMMA Waiting == Spec => []WaitInv
  BY InitWait, NextWait, PTL DEF Spec

(***************************************************************************)
(* Every variable keeps its type, for any imports, targets and resources.  *)
(***************************************************************************)
THEOREM TypeCorrect == Spec => []TypeOK
  <1>1. WaitInv => TypeOK
    BY DEF WaitInv
  <1>. QED BY <1>1, Waiting, PTL

(***************************************************************************)
(* The repository is disposed of only when no import is in flight, nothing *)
(* is requested of it and no cleanup is left.                              *)
(***************************************************************************)
THEOREM DisposedLast == Spec => []DisposedAfterUse
  <1>1. WaitInv => DisposedAfterUse
    BY DEF WaitInv, DisposalLast, DisposedAfterUse
  <1>. QED BY <1>1, Waiting, PTL

-----------------------------------------------------------------------------
(***************************************************************************)
(* Leases and what is staged under them.                                   *)
(***************************************************************************)
LEMMA RequestedAppend ==
    ASSUME TypeOK, NEW q \in RepoRequests, requests' = Append(requests, q)
    PROVE  Requested' = Requested \cup {q}
  <1>1. /\ Len(requests) \in Nat /\ Len(requests') = Len(requests) + 1
        /\ \A n \in 1 .. Len(requests) : requests'[n] = requests[n]
        /\ requests'[Len(requests) + 1] = q
    BY AppendAt DEF TypeOK
  <1>2. \A n \in 1 .. Len(requests') : n \in 1 .. Len(requests) \/ n = Len(requests) + 1
    BY <1>1
  <1>3. \A n \in 1 .. Len(requests) : n \in 1 .. Len(requests')
    BY <1>1
  <1>4. Len(requests) + 1 \in 1 .. Len(requests')
    BY <1>1
  <1>. QED BY <1>1, <1>2, <1>3, <1>4 DEF Requested

LEMMA RequestedTail ==
    ASSUME TypeOK, requests # <<>>, requests' = Tail(requests)
    PROVE  Requested' \subseteq Requested
  <1>1. \A n \in 1 .. Len(requests') : n + 1 \in 1 .. Len(requests) /\ requests'[n] = requests[n + 1]
    BY TailAt DEF TypeOK
  <1>. QED BY <1>1 DEF Requested

LEMMA RequestedTyped ==
    ASSUME WaitInv, NEW q \in Requested
    PROVE  q \in RepoRequests /\ RequestAwaited(q, pc, cleaner)
  BY At DEF WaitInv, TypeOK, Requested, RequestsAwaited

\* What every step of an import keeps.
LEMMA ImportRollbacks ==
    ASSUME WaitInv, LeaseInv, NEW i \in Imports, Import(i)
    PROVE  RollbacksAbandoned'
  <1>1. /\ pc[i] \in Free
        /\ UNCHANGED <<cleaner, todo, pendingRollbacks, lease>>
    BY ImportMoves DEF WaitInv
  <1>2. PICK where : Moves(i, where)
    BY ImportMoves DEF WaitInv
  <1>3. pc' = [pc EXCEPT ![i] = where]
    BY <1>2 DEF Moves
  <1>4. pc[i] \in Abandoned => where \in Abandoned
    <2>1. pc[i] \in Abandoned => pc[i] = "rolledBack"
      BY <1>1 DEF Free, Abandoned
    <2>2. pc[i] = "rolledBack" => pc'[i] = "done"
      BY DEF Import, BeginJob, Superseded, LeaseBegun, ResourceStaged, Prepared, PrepareFails,
             OperationFailed, RolledBack, LeaseCommitted, StageResource, GoTo, WaitInv, TypeOK
    <2>. QED BY <1>3, <2>1, <2>2 DEF Abandoned, WaitInv, TypeOK
  <1>5. \A j \in Imports : pc[j] \in Abandoned => pc'[j] \in Abandoned
    BY <1>3, <1>4 DEF WaitInv, TypeOK
  <1>6. \A q \in Requested' : q.op = "rollback" => q \in Requested
    <2>1. ASSUME NEW q \in RepoRequests, requests' = Append(requests, q),
                 q.op \in {"begin", "put", "commit"}
          PROVE  \A o \in Requested' : o.op = "rollback" => o \in Requested
      BY <2>1, RequestedAppend DEF WaitInv
    <2>. QED BY <1>2, <2>1 DEF Moves, Requested
  <1>7. \A q \in Requested' : q.op = "rollback" => pc'[q.import] \in Abandoned
    BY <1>5, <1>6, RequestedTyped, RequestFields DEF LeaseInv, RollbacksAbandoned
  <1>8. \A j \in pendingRollbacks' \cup todo' : pc'[j] \in Abandoned
    BY <1>1, <1>5 DEF LeaseInv, RollbacksAbandoned, WaitInv, TypeOK
  <1>9. cleaner # "idle" => Task' = Task
    <2>1. ASSUME NEW k \in Tasks, cleanup' = Append(cleanup, k), cleanup # <<>>
          PROVE  Task' = Task
      BY <2>1, AppendAt DEF WaitInv, TypeOK, Task
    <2>. QED BY <1>2, <2>1 DEF Moves, Task, WaitInv, CleanerAtWork
  <1>. QED BY <1>1, <1>7, <1>8, <1>9 DEF LeaseInv, RollbacksAbandoned

\* Where an import goes, with its lease, its job and what it has staged.
Goes(i, where) ==
    /\ pc' = [pc EXCEPT ![i] = where]
    /\ \/ pc[i] = "retried" /\ where \in {"beginning", "done"}
       \/ pc[i] \in {"begun", "staged"} /\ where = "preparing"
       \/ pc[i] = "preparing" /\ where \in {"staging", "committing"}
       \/ /\ pc[i] \in {"begun", "staged", "preparing", "failed"}
          /\ where = IF lease[i] = "none" THEN "rolledBack" ELSE "rollingBack"
       \/ pc[i] = "rolledBack" /\ where = "done"
       \/ pc[i] = "committed" /\ where = "collecting"
    /\ activeJobs' = IF where = "beginning" THEN activeJobs \cup {i}
                     ELSE IF where \in {"done", "collecting"} THEN activeJobs \ {i}
                     ELSE activeJobs
    /\ stagedRefs' = IF pc[i] = "staged" THEN [stagedRefs EXCEPT ![i] = rows[i]] ELSE stagedRefs
    /\ where = "committing" => stagedRefs[i] = Content[i]

LEMMA RollBackGoes ==
    ASSUME NEW i \in Imports, RollBack(i), UNCHANGED activeJobs,
           pc[i] \in {"begun", "staged", "preparing", "failed"},
           stagedRefs' = IF pc[i] = "staged" THEN [stagedRefs EXCEPT ![i] = rows[i]] ELSE stagedRefs
    PROVE  \E where : Goes(i, where)
  <1>1. CASE lease[i] = "none"
    <2>1. Goes(i, "rolledBack")
      BY <1>1 DEF RollBack, GoTo, Goes
    <2>. QED BY <2>1
  <1>2. CASE lease[i] # "none"
    <2>1. Goes(i, "rollingBack")
      BY <1>2 DEF RollBack, GoTo, Goes
    <2>. QED BY <2>1
  <1>. QED BY <1>1, <1>2

LEMMA ImportGoes ==
    ASSUME WaitInv, LeaseInv, NEW i \in Imports, Import(i)
    PROVE  \E where : Goes(i, where)
  <1>1. CASE BeginJob(i)
    <2>1. Goes(i, "beginning")
      BY <1>1 DEF BeginJob, GoTo, Goes
    <2>. QED BY <2>1
  <1>2. CASE Superseded(i)
    <2>1. Goes(i, "done")
      BY <1>2 DEF Superseded, GoTo, jobVars, LeaseInv, JobsBegun, Begun, Goes
    <2>. QED BY <2>1
  <1>3. CASE LeaseBegun(i) \/ ResourceStaged(i)
    <2>1. CASE RollBack(i)
      BY <1>3, <2>1, RollBackGoes DEF LeaseBegun, ResourceStaged, jobVars
    <2>2. CASE GoTo(i, "preparing")
      <3>1. Goes(i, "preparing")
        BY <1>3, <2>2 DEF LeaseBegun, ResourceStaged, jobVars, GoTo, Goes
      <3>. QED BY <3>1
    <2>. QED BY <1>3, <2>1, <2>2 DEF LeaseBegun, ResourceStaged
  <1>4. CASE Prepared(i)
    <2>1. CASE RollBack(i)
      BY <1>4, <2>1, RollBackGoes DEF Prepared, jobVars
    <2>2. CASE GoTo(i, "committing")
      <3>1. Goes(i, "committing")
        BY <1>4, <2>2 DEF Prepared, jobVars, GoTo, Goes
      <3>. QED BY <3>1
    <2>. QED BY <1>4, <2>1, <2>2 DEF Prepared, Continue
  <1>5. CASE PrepareFails(i) \/ OperationFailed(i)
    BY <1>5, RollBackGoes DEF PrepareFails, OperationFailed, jobVars
  <1>6. CASE RolledBack(i)
    <2>1. Goes(i, "done")
      BY <1>6 DEF RolledBack, RemoveJob, GoTo, Goes
    <2>. QED BY <2>1
  <1>7. CASE LeaseCommitted(i)
    <2>1. Goes(i, "collecting")
      BY <1>7 DEF LeaseCommitted, RemoveJob, GoTo, Goes
    <2>. QED BY <2>1
  <1>8. ASSUME NEW r \in Refs, StageResource(i, r) PROVE \E where : Goes(i, where)
    <2>1. CASE RollBack(i)
      BY <1>8, <2>1, RollBackGoes DEF StageResource, jobVars
    <2>2. CASE GoTo(i, "staging")
      <3>1. Goes(i, "staging")
        BY <1>8, <2>2 DEF StageResource, jobVars, GoTo, Goes
      <3>. QED BY <3>1
    <2>. QED BY <1>8, <2>1, <2>2 DEF StageResource, Continue
  <1>. QED BY <1>1, <1>2, <1>3, <1>4, <1>5, <1>6, <1>7, <1>8 DEF Import

LEMMA ImportLease ==
    ASSUME WaitInv, LeaseInv, NEW i \in Imports, Import(i)
    PROVE  LeaseInv'
  <1>1. PICK where : Goes(i, where)
    BY ImportGoes
  <1>2. UNCHANGED <<rows, lease, pendingRollbacks>>
    BY ImportMoves DEF WaitInv
  <1>3. /\ \A j \in Imports \ {i} : pc'[j] = pc[j] /\ stagedRefs'[j] = stagedRefs[j]
        /\ pc'[i] = where
        /\ stagedRefs'[i] = IF pc[i] = "staged" THEN rows[i] ELSE stagedRefs[i]
    BY <1>1 DEF Goes, WaitInv, TypeOK
  <1>4. JobsBegun'
    BY <1>1, <1>3 DEF Goes, LeaseInv, JobsBegun, Begun
  <1>5. LeasesFollow'
    BY <1>1, <1>2, <1>3 DEF Goes, LeaseInv, LeasesFollow
  <1>6. StagedRows'
    BY <1>1, <1>2, <1>3 DEF Goes, LeaseInv, StagedRows
  <1>7. PutsOwn'
    <2>1. CASE requests' = requests
      BY <2>1 DEF LeaseInv, PutsOwn, Requested
    <2>2. ASSUME NEW q \in RepoRequests, requests' = Append(requests, q),
                 q.op = "put" => q.ref \in Content[q.import]
          PROVE  PutsOwn'
      BY <2>2, RequestedAppend DEF WaitInv, LeaseInv, PutsOwn
    <2>3. ASSUME NEW r \in Refs, StageResource(i, r), Request([op |-> "put", import |-> i, ref |-> r])
          PROVE  PutsOwn'
      BY <2>2, <2>3, RequestsMade DEF StageResource, Request
    <2>4. ASSUME NEW o \in {"begin", "commit"}, Request([op |-> o, import |-> i])
          PROVE  PutsOwn'
      BY <2>2, <2>4, RequestsMade DEF Request
    <2>. QED BY <2>1, <2>3, <2>4
             DEF Import, BeginJob, Superseded, LeaseBegun, ResourceStaged, Prepared, PrepareFails,
                 OperationFailed, RolledBack, LeaseCommitted, StageResource, Continue, RollBack, repoVars
  <1>. QED BY <1>4, <1>5, <1>6, <1>7, ImportRollbacks DEF LeaseInv

LEMMA CleanerLease == ASSUME WaitInv, LeaseInv, Cleaner PROVE LeaseInv'
  <1>1. CASE StartRollbacks
    <2>1. UNCHANGED <<pc, activeJobs, stagedRefs, rows, lease, requests, Task, Requested>>
      BY <1>1 DEF StartRollbacks, CleanerUnmoved, jobVars, repoVars, Task, Requested
    <2>2. Task.kind = "rollback" => Task.import \in Imports /\ pc[Task.import] = "rollingBack"
      BY <1>1, FirstTask, TaskFields DEF StartRollbacks, TaskAwaited
    <2>3. pendingRollbacks' = IF Task.kind = "rollback" THEN pendingRollbacks \cup {Task.import}
                              ELSE pendingRollbacks
      BY <1>1 DEF StartRollbacks
    <2>4. todo' \subseteq pendingRollbacks'
      BY <1>1 DEF StartRollbacks
    <2>5. RollbacksAbandoned'
      BY <2>1, <2>2, <2>3, <2>4 DEF LeaseInv, RollbacksAbandoned, Abandoned
    <2>. QED BY <2>1, <2>3, <2>5 DEF LeaseInv, JobsBegun, LeasesFollow, StagedRows, PutsOwn
  <1>2. ASSUME NEW i \in Imports, AttemptRollback(i) PROVE LeaseInv'
    <2>1. UNCHANGED <<pc, activeJobs, stagedRefs, rows, lease, Task, pendingRollbacks>>
      BY <1>2 DEF AttemptRollback, Request, CleanerUnmoved, jobVars, Task
    <2>2. todo' \subseteq todo /\ i \in todo /\ cleaner # "idle"
      BY <1>2 DEF AttemptRollback
    <2>3. Requested' = Requested \cup {[op |-> "rollback", import |-> i]}
      BY <1>2, RequestsMade, RequestedAppend DEF WaitInv, AttemptRollback, Request
    <2>4. RollbacksAbandoned'
      BY <2>1, <2>2, <2>3 DEF LeaseInv, RollbacksAbandoned
    <2>5. PutsOwn'
      BY <2>3 DEF LeaseInv, PutsOwn
    <2>. QED BY <2>1, <2>4, <2>5 DEF LeaseInv, JobsBegun, LeasesFollow, StagedRows
  <1>3. CASE AttemptCollection
    <2>1. UNCHANGED <<pc, activeJobs, stagedRefs, rows, lease, Task, pendingRollbacks, todo>>
      BY <1>3 DEF AttemptCollection, Request, CleanerUnmoved, jobVars, Task
    <2>2. PICK q \in RepoRequests : q = [op |-> "collect", refs |-> ReachableRefs]
      <3>1. [op |-> "collect", refs |-> ReachableRefs] \in RepoRequests
        BY DEF WaitInv, TypeOK, ReachableRefs, RepoRequests
      <3>. QED BY <3>1
    <2>3. Requested' = Requested \cup {q} /\ q.op = "collect"
      BY <1>3, <2>2, RequestedAppend DEF WaitInv, AttemptCollection, Request
    <2>4. cleaner # "idle" \/ Task.kind = "collect"
      BY <1>3 DEF AttemptCollection
    <2>5. RollbacksAbandoned'
      BY <2>1, <2>3, <2>4 DEF LeaseInv, RollbacksAbandoned
    <2>6. PutsOwn'
      BY <2>3 DEF LeaseInv, PutsOwn
    <2>. QED BY <2>1, <2>5, <2>6 DEF LeaseInv, JobsBegun, LeasesFollow, StagedRows
  <1>4. CASE FinishTask
    <2>1. /\ UNCHANGED <<activeJobs, stagedRefs, rows, lease, Requested, pendingRollbacks, todo>>
          /\ cleaner' = "idle" /\ cleaner # "idle" /\ Task.kind \in {"retry", "rollback", "collect"}
      BY <1>4 DEF FinishTask, CleanerUnmoved, jobVars, repoVars, Requested
    <2>2. PICK i \in Imports : i = Task.import
      BY <2>1, FirstTask, TaskFields DEF WaitInv, CleanerAtWork
    <2>3. pc' = [pc EXCEPT ![i] = Awoken(@)]
      BY <1>4, <2>2 DEF FinishTask
    <2>4. /\ pc[i] \in Queued
          /\ pc[i] = "rollingBack" => Task.kind = "rollback"
      BY <2>1, <2>2, FirstTask DEF WaitInv, CleanerAtWork, TaskAwaited, Queued
    <2>5. /\ \A j \in Imports \ {i} : pc'[j] = pc[j]
          /\ pc[i] = "retrying" => pc'[i] = "retried"
          /\ pc[i] = "rollingBack" => pc'[i] = "rolledBack"
          /\ pc[i] = "collecting" => pc'[i] = "done"
      BY <2>3 DEF WaitInv, TypeOK, Awoken
    <2>6. JobsBegun'
      BY <2>1, <2>4, <2>5 DEF LeaseInv, JobsBegun, Begun, Queued
    <2>7. pc[i] = "rollingBack" => lease[i] # "open" \/ i \in pendingRollbacks
      BY <2>1, <2>2, <2>4 DEF LeaseInv, RollbacksAbandoned
    <2>8. LeasesFollow'
      BY <2>1, <2>4, <2>5, <2>7 DEF LeaseInv, LeasesFollow, Queued
    <2>9. RollbacksAbandoned'
      <3>1. \A j \in Imports : pc[j] \in Abandoned => pc'[j] \in Abandoned
        BY <2>4, <2>5 DEF Abandoned, Queued
      <3>. QED BY <2>1, <3>1, RequestedTyped, RequestFields
               DEF LeaseInv, RollbacksAbandoned, WaitInv, TypeOK
    <2>10. StagedRows'
      BY <2>1, <2>4, <2>5 DEF LeaseInv, StagedRows, Queued
    <2>. QED BY <2>1, <2>6, <2>8, <2>9, <2>10 DEF LeaseInv, PutsOwn
  <1>5. CASE DisposeRepository
    <2>1. /\ UNCHANGED <<pc, activeJobs, stagedRefs, Requested, pendingRollbacks, todo>>
          /\ cleaner' = "idle" /\ cleaner # "idle" /\ Task.kind = "dispose"
          /\ rows' = [i \in Imports |-> {}]
          /\ lease' = [i \in Imports |-> IF lease[i] = "open" THEN "ended" ELSE lease[i]]
      BY <1>5 DEF DisposeRepository, CleanerUnmoved, jobVars, Requested
    <2>2. Inflight = {}
      BY <2>1, FirstTask DEF WaitInv, CleanerAtWork, TaskAwaited, DisposalLast
    <2>3. \A i \in Imports : pc[i] \in {"new", "done"}
      BY <2>2 DEF Inflight
    <2>4. RollbacksAbandoned'
      BY <2>1 DEF LeaseInv, RollbacksAbandoned
    <2>. QED BY <2>1, <2>3, <2>4 DEF LeaseInv, JobsBegun, LeasesFollow, StagedRows, PutsOwn
  <1>. QED BY <1>1, <1>2, <1>3, <1>4, <1>5 DEF Cleaner

LEMMA RepoLease == ASSUME WaitInv, LeaseInv, Repo PROVE LeaseInv'
  <1>1. /\ requests # <<>> /\ requests' = Tail(requests)
        /\ UNCHANGED <<activeJobs, stagedRefs, todo, Task>>
    BY DEF Repo, RunBegin, RunPut, RunCommit, RunRollback, RunCollect, RunFails, Run, RepoUnmoved,
           jobVars, Task
  <1>2. PICK q \in RepoRequests : q = Head(requests) /\ RequestAwaited(q, pc, cleaner) /\ q \in Requested
    BY <1>1, FirstRequest DEF Requested
  <1>3. Requested' \subseteq Requested
    BY <1>1, RequestedTail DEF WaitInv
  <1>4. q.op # "collect" => q.import \in Imports
    BY RequestFields
  <1>5. PutsOwn'
    BY <1>3 DEF LeaseInv, PutsOwn
  <1>6. ASSUME UNCHANGED pendingRollbacks,
               \A j \in Imports : pc[j] \in Abandoned => pc'[j] = pc[j] /\ lease'[j] = lease[j],
               cleaner' = cleaner \/ cleaner = "awaiting"
        PROVE  RollbacksAbandoned'
    <2>1. \A o \in Requested' : o.op = "rollback" => o.import \in Imports
      BY <1>3, RequestedTyped, RequestFields
    <2>2. \A o \in Requested' : o.op = "rollback" => pc'[o.import] \in Abandoned
      BY <1>3, <1>6, <2>1 DEF LeaseInv, RollbacksAbandoned
    <2>3. \A j \in pendingRollbacks' \cup todo' : pc'[j] \in Abandoned
      BY <1>1, <1>6 DEF LeaseInv, RollbacksAbandoned, WaitInv, TypeOK
    <2>4. cleaner # "idle" /\ Task.kind = "rollback" => Task.import \in Imports /\ pc[Task.import] \in Abandoned
      BY FirstTask, TaskFields DEF WaitInv, CleanerAtWork, TaskAwaited, Abandoned
    <2>5. cleaner' # "idle" /\ Task.kind = "rollback" => lease'[Task.import] # "open" \/ Task.import \in pendingRollbacks
      BY <1>6, <2>4 DEF LeaseInv, RollbacksAbandoned
    <2>. QED BY <1>1, <1>6, <2>2, <2>3, <2>5 DEF RollbacksAbandoned
  <1>7. CASE RunBegin
    <2>1. PICK i \in Imports : i = q.import /\ pc[i] = "beginning"
      BY <1>2, <1>4, <1>7 DEF RunBegin, Run, RequestAwaited
    <2>2. /\ pc' = [pc EXCEPT ![i] = "begun"] /\ lease' = [lease EXCEPT ![i] = "open"]
          /\ UNCHANGED <<rows, pendingRollbacks, cleaner>>
      BY <1>2, <1>7, <2>1 DEF RunBegin, GoTo
    <2>3. RollbacksAbandoned'
      BY <1>6, <2>1, <2>2 DEF Abandoned, WaitInv, TypeOK
    <2>. QED BY <1>1, <1>5, <2>1, <2>2, <2>3
             DEF WaitInv, TypeOK, LeaseInv, JobsBegun, Begun, LeasesFollow, StagedRows
  <1>8. CASE RunPut
    <2>1. PICK i \in Imports : i = q.import /\ pc[i] = "staging" /\ q.ref \in Content[i]
      BY <1>2, <1>4, <1>8 DEF RunPut, Run, RequestAwaited, LeaseInv, PutsOwn
    <2>2. /\ pc' = [pc EXCEPT ![i] = "staged"] /\ rows' = [rows EXCEPT ![i] = @ \cup {q.ref}]
          /\ UNCHANGED <<lease, pendingRollbacks, cleaner>>
      BY <1>2, <1>8, <2>1 DEF RunPut, GoTo
    <2>3. RollbacksAbandoned'
      BY <1>6, <2>1, <2>2 DEF Abandoned, WaitInv, TypeOK
    <2>. QED BY <1>1, <1>5, <2>1, <2>2, <2>3
             DEF WaitInv, TypeOK, LeaseInv, JobsBegun, Begun, LeasesFollow, StagedRows
  <1>9. CASE RunCommit
    <2>1. PICK i \in Imports : i = q.import /\ pc[i] = "committing"
      BY <1>2, <1>4, <1>9 DEF RunCommit, Run, RequestAwaited
    <2>2. /\ pc' = [pc EXCEPT ![i] = "committed"] /\ rows' = [rows EXCEPT ![i] = {}]
          /\ lease' = [lease EXCEPT ![i] = "ended"]
          /\ UNCHANGED <<pendingRollbacks, cleaner>>
      BY <1>2, <1>9, <2>1 DEF RunCommit, GoTo
    <2>3. RollbacksAbandoned'
      BY <1>6, <2>1, <2>2 DEF Abandoned, WaitInv, TypeOK
    <2>. QED BY <1>1, <1>5, <2>1, <2>2, <2>3
             DEF WaitInv, TypeOK, LeaseInv, JobsBegun, Begun, LeasesFollow, StagedRows
  <1>10. CASE RunRollback
    <2>1. PICK i \in Imports : i = q.import /\ pc[i] \in Abandoned
      BY <1>2, <1>4, <1>10 DEF RunRollback, Run, LeaseInv, RollbacksAbandoned
    <2>2. /\ pc' = pc /\ rows' = [rows EXCEPT ![i] = {}]
          /\ lease' = [lease EXCEPT ![i] = "ended"]
          /\ pendingRollbacks' = pendingRollbacks \ {i}
          /\ cleaner = "awaiting"
      BY <1>2, <1>10, <2>1 DEF RunRollback, Run, RequestAwaited
    <2>3. cleaner # "idle" /\ Task.kind = "rollback" => Task.import \in Imports
      BY FirstTask, TaskFields DEF WaitInv, CleanerAtWork
    <2>4. RollbacksAbandoned'
      BY <1>1, <1>3, <2>1, <2>2, <2>3 DEF WaitInv, TypeOK, LeaseInv, RollbacksAbandoned
    <2>. QED BY <1>1, <1>5, <2>1, <2>2, <2>4
             DEF WaitInv, TypeOK, LeaseInv, JobsBegun, Begun, LeasesFollow, StagedRows, Abandoned
  <1>11. CASE RunCollect
    <2>1. UNCHANGED <<pc, rows, lease, pendingRollbacks>> /\ cleaner = "awaiting"
      BY <1>2, <1>11 DEF RunCollect, Run, RequestAwaited
    <2>2. RollbacksAbandoned'
      BY <1>6, <2>1
    <2>. QED BY <1>1, <1>5, <2>1, <2>2 DEF LeaseInv, JobsBegun, LeasesFollow, StagedRows
  <1>12. CASE RunFails
    <2>1. UNCHANGED <<rows, lease, pendingRollbacks>>
      BY <1>12 DEF RunFails
    <2>2. CASE q.op \in {"begin", "put", "commit"}
      <3>1. PICK i \in Imports : i = q.import /\ pc[i] \in {"beginning", "staging", "committing"}
        BY <1>2, <1>4, <2>2 DEF RequestAwaited
      <3>2. pc' = [pc EXCEPT ![i] = "failed"] /\ cleaner' = cleaner
        BY <1>2, <1>12, <2>2, <3>1 DEF RunFails, GoTo
      <3>3. RollbacksAbandoned'
        BY <1>6, <2>1, <3>1, <3>2 DEF Abandoned, WaitInv, TypeOK
      <3>. QED BY <1>1, <1>5, <2>1, <3>1, <3>2, <3>3
               DEF WaitInv, TypeOK, LeaseInv, JobsBegun, Begun, LeasesFollow, StagedRows
    <2>3. CASE q.op \notin {"begin", "put", "commit"}
      <3>1. pc' = pc /\ cleaner = "awaiting"
        BY <1>2, <1>12, <2>3, RequestFields DEF RunFails, RequestAwaited
      <3>2. RollbacksAbandoned'
        BY <1>6, <2>1, <3>1
      <3>. QED BY <1>1, <1>5, <2>1, <3>1, <3>2 DEF LeaseInv, JobsBegun, LeasesFollow, StagedRows
    <2>. QED BY <2>2, <2>3
  <1>. QED BY <1>7, <1>8, <1>9, <1>10, <1>11, <1>12 DEF Repo

LEMMA UserLease == ASSUME WaitInv, LeaseInv, User \/ DisposeCleanup PROVE LeaseInv'
  <1>1. UNCHANGED <<activeJobs, stagedRefs, rows, lease, Requested, cleaner, todo, pendingRollbacks>>
    BY DEF User, ImportBatch, RejectBatch, ReserveAdmission, CancelTarget, RemoveAsset, BeginDispose,
           DisposeCleanup, Enqueue, jobVars, repoVars, cleanerVars, Requested
  <1>2. cleaner # "idle" => Task' = Task
    <2>1. ASSUME NEW k \in Tasks, cleanup' = Append(cleanup, k), cleanup # <<>> PROVE Task' = Task
      BY <2>1, AppendAt DEF WaitInv, TypeOK, Task
    <2>2. cleanup' = cleanup \/ \E k \in Tasks : cleanup' = Append(cleanup, k)
      BY TasksMade
         DEF User, ImportBatch, RejectBatch, CancelTarget, RemoveAsset, BeginDispose,
             DisposeCleanup, Enqueue, cleanerVars
    <2>. QED BY <2>1, <2>2 DEF Task, WaitInv, CleanerAtWork
  <1>3. \/ pc' = pc
        \/ \E i \in Imports : pc[i] = "new" /\ (pc' = [pc EXCEPT ![i] = "retrying"]
                                                \/ pc' = [pc EXCEPT ![i] = "done"])
    BY DEF User, ImportBatch, RejectBatch, ReserveAdmission, CancelTarget, RemoveAsset, BeginDispose,
           DisposeCleanup, GoTo
  <1>4. RollbacksAbandoned'
    <2>1. \A j \in Imports : pc[j] \in Abandoned => pc'[j] \in Abandoned
      BY <1>3 DEF Abandoned, WaitInv, TypeOK
    <2>. QED BY <1>1, <1>2, <2>1, RequestedTyped, RequestFields
             DEF LeaseInv, RollbacksAbandoned, WaitInv, TypeOK
  <1>5. CASE pc' = pc
    BY <1>1, <1>4, <1>5 DEF LeaseInv, JobsBegun, LeasesFollow, StagedRows, PutsOwn
  <1>6. ASSUME NEW i \in Imports, pc[i] = "new",
               pc' = [pc EXCEPT ![i] = "retrying"] \/ pc' = [pc EXCEPT ![i] = "done"]
        PROVE  LeaseInv'
    BY <1>1, <1>4, <1>6
       DEF WaitInv, TypeOK, LeaseInv, JobsBegun, Begun, LeasesFollow, StagedRows, PutsOwn
  <1>. QED BY <1>3, <1>5, <1>6

LEMMA InitLease == Init => LeaseInv
  BY DEF Init, LeaseInv, JobsBegun, Begun, LeasesFollow, RollbacksAbandoned, StagedRows, PutsOwn,
         Requested

LEMMA NextLease == ASSUME WaitInv, LeaseInv, [Next]_vars PROVE LeaseInv'
  <1>1. CASE UNCHANGED vars
    <2>1. UNCHANGED <<pc, activeJobs, stagedRefs, rows, lease, requests, Requested, cleaner, todo,
                      pendingRollbacks, cleanup, Task>>
      BY <1>1 DEF vars, jobVars, cleanerVars, repoVars, Requested, Task
    <2>. QED BY <2>1
             DEF LeaseInv, JobsBegun, LeasesFollow, RollbacksAbandoned, StagedRows, PutsOwn
  <1>. QED BY <1>1, ImportLease, CleanerLease, RepoLease, UserLease DEF Next

-----------------------------------------------------------------------------
(***************************************************************************)
(* Targets.                                                                *)
(***************************************************************************)
\* An import that is ahead on its target has not settled.
LEMMA AheadBusy ==
    ASSUME LeaseInv, NEW j \in Imports, NEW t, Ahead(j, t)
    PROVE  pc[j] \in Begun \cup {"retrying", "retried"}
  BY DEF Ahead, LeaseInv, JobsBegun

\* Steps that leave the targets alone, and the imports as far as they matter here.
LEMMA TargetsKept ==
    ASSUME TypeOK, TargetInv,
           UNCHANGED <<target, admission, generations, activeByTarget, activeJobs, aborted, operation>>,
           disposed' = "no" => disposed = "no",
           \A i \in Imports :
              \/ pc'[i] = pc[i]
              \/ pc[i] \notin Unstarted /\ pc'[i] \notin Unstarted
              \/ pc[i] = "retrying" /\ pc'[i] = "retried"
    PROVE  TargetInv'
  <1>1. \A j \in Imports, t \in Targets : Ahead(j, t) => Ahead(j, t)'
    BY DEF Ahead, Unstarted
  <1>2. disposed' = "no" =>
          \A t \in Targets : operation'[t] # Idle => \E j \in Imports : Ahead(j, t)'
    BY <1>1 DEF TargetInv
  <1>3. \A i \in aborted : pc'[i] \notin Unstarted
    BY DEF TargetInv, TypeOK, Unstarted
  <1>4. \A i \in Imports : pc'[i] # "new" => target[i] \in Targets
    BY DEF TargetInv, Unstarted
  <1>. QED BY <1>2, <1>3, <1>4 DEF TargetInv

LEMMA ImportTargets ==
    ASSUME WaitInv, LeaseInv, TargetInv, NEW i \in Imports, Import(i)
    PROVE  TargetInv'
  <1>1. UNCHANGED <<disposed, target, admission, generations>> /\ pc[i] \in Free
    BY ImportMoves DEF WaitInv
  <1>2. PICK where : Goes(i, where)
    BY ImportGoes
  <1>3. pc'[i] = where /\ where \notin Unstarted /\ \A j \in Imports \ {i} : pc'[j] = pc[j]
    BY <1>2 DEF Goes, Unstarted, WaitInv, TypeOK
  <1>4. target[i] \in Targets
    BY <1>1 DEF TargetInv, Free
  <1>5. \A j \in Imports : pc'[j] # "new" => target[j] \in Targets
    BY <1>3, <1>4 DEF TargetInv
  <1>6. \A j \in aborted : pc'[j] \notin Unstarted
    BY <1>3 DEF TargetInv, WaitInv, TypeOK
  <1>7. CASE BeginJob(i)
    <2>1. /\ aborted' = aborted /\ activeJobs' = activeJobs \cup {i}
          /\ activeByTarget' = [activeByTarget EXCEPT ![target[i]] = i]
          /\ operation' = [operation EXCEPT ![target[i]] = i]
          /\ pc[i] = "retried" /\ generations[target[i]] = admission[i]
      BY <1>7 DEF BeginJob, IsAdmissionCurrent
    <2>2. Ahead(i, target[i])'
      BY <1>1, <1>4, <2>1 DEF Ahead, TargetInv, Unstarted, WaitInv, TypeOK
    <2>3. ASSUME NEW t \in Targets \ {target[i]}, NEW j \in Imports, Ahead(j, t) PROVE Ahead(j, t)'
      BY <1>1, <1>3, <2>1, <2>3 DEF Ahead, WaitInv, TypeOK
    <2>4. \A t \in Targets \ {target[i]} : operation'[t] = operation[t]
      BY <2>1 DEF WaitInv, TypeOK
    <2>5. disposed' = "no" =>
            \A t \in Targets : operation'[t] # Idle => \E j \in Imports : Ahead(j, t)'
      BY <1>1, <2>2, <2>3, <2>4 DEF TargetInv
    <2>6. \A t \in Targets : activeByTarget'[t] # NoImport =>
            activeByTarget'[t] \in activeJobs' /\ target'[activeByTarget'[t]] = t
      BY <1>1, <2>1 DEF TargetInv, WaitInv, TypeOK
    <2>. QED BY <1>1, <1>5, <1>6, <2>1, <2>5, <2>6 DEF TargetInv
  <1>8. CASE RolledBack(i) \/ LeaseCommitted(i)
    <2>1. /\ aborted' = aborted /\ activeJobs' = activeJobs \ {i}
          /\ activeByTarget' = IF activeByTarget[target[i]] = i
                               THEN [activeByTarget EXCEPT ![target[i]] = NoImport] ELSE activeByTarget
          /\ operation' = IF IsCurrent(i) THEN [operation EXCEPT ![target[i]] = Idle] ELSE operation
          /\ pc[i] \in {"rolledBack", "committed"}
      BY <1>8 DEF RolledBack, LeaseCommitted, RemoveJob, FinishOperation
    <2>2. \A t \in Targets : activeByTarget'[t] # NoImport =>
             /\ activeByTarget'[t] = activeByTarget[t] /\ activeByTarget[t] # i
             /\ activeByTarget'[t] \in activeJobs' /\ target'[activeByTarget'[t]] = t
      BY <1>1, <2>1 DEF TargetInv, WaitInv, TypeOK
    <2>3. ASSUME disposed' = "no", NEW t \in Targets, operation'[t] # Idle
          PROVE  \E j \in Imports : Ahead(j, t)'
      <3>1. operation[t] # Idle
        BY <2>1, <2>3 DEF WaitInv, TypeOK
      <3>2. PICK j \in Imports : Ahead(j, t)
        BY <1>1, <2>3, <3>1 DEF TargetInv
      <3>3. j # i
        <4>1. ASSUME j = i PROVE FALSE
          <5>1. IsCurrent(i) /\ target[i] = t
            BY <1>1, <2>1, <2>3, <3>2, <4>1 DEF IsCurrent, Ahead
          <5>. QED BY <2>1, <2>3, <5>1 DEF WaitInv, TypeOK
        <4>. QED BY <4>1
      <3>4. activeByTarget[t] = j => activeByTarget'[t] = j
        BY <2>1, <3>3 DEF WaitInv, TypeOK
      <3>5. Ahead(j, t)'
        BY <1>1, <1>3, <2>1, <3>2, <3>3, <3>4 DEF Ahead
      <3>. QED BY <3>5
    <2>. QED BY <1>1, <1>5, <1>6, <2>1, <2>2, <2>3 DEF TargetInv
  <1>9. CASE Superseded(i)
    <2>1. /\ UNCHANGED <<activeByTarget, activeJobs, aborted, operation>>
          /\ pc[i] = "retried" /\ ~IsAdmissionCurrent(i)
      BY <1>9 DEF Superseded, jobVars
    <2>2. ASSUME disposed' = "no", NEW t \in Targets, operation'[t] # Idle
          PROVE  \E j \in Imports : Ahead(j, t)'
      <3>1. PICK j \in Imports : Ahead(j, t)
        BY <1>1, <2>1, <2>2 DEF TargetInv
      <3>2. j # i
        BY <1>1, <2>1, <2>2, <3>1 DEF Ahead, IsAdmissionCurrent
      <3>3. Ahead(j, t)'
        BY <1>1, <1>3, <2>1, <3>1, <3>2 DEF Ahead
      <3>. QED BY <3>3
    <2>. QED BY <1>1, <1>5, <1>6, <2>1, <2>2 DEF TargetInv
  <1>10. ASSUME UNCHANGED <<activeByTarget, activeJobs, aborted, operation>>, pc[i] # "retried"
         PROVE  TargetInv'
    <2>1. pc[i] \notin Unstarted
      BY <1>1, <1>10 DEF Free, Unstarted
    <2>. QED BY <1>1, <1>3, <1>10, <2>1, TargetsKept DEF WaitInv
  <1>. QED BY <1>7, <1>8, <1>9, <1>10
           DEF Import, LeaseBegun, ResourceStaged, Prepared, PrepareFails, OperationFailed,
               StageResource, Unmoved, jobVars

LEMMA CleanerTargets ==
    ASSUME WaitInv, LeaseInv, TargetInv, Cleaner
    PROVE  TargetInv'
  <1>1. /\ UNCHANGED <<target, admission, generations, activeByTarget, activeJobs, aborted, operation>>
        /\ disposed' = "no" => disposed = "no"
    BY DEF Cleaner, StartRollbacks, AttemptRollback, AttemptCollection, FinishTask, DisposeRepository,
           CleanerUnmoved, jobVars
  <1>2. \A i \in Imports :
           \/ pc'[i] = pc[i]
           \/ pc[i] \notin Unstarted /\ pc'[i] \notin Unstarted
           \/ pc[i] = "retrying" /\ pc'[i] = "retried"
    BY DEF Cleaner, StartRollbacks, AttemptRollback, AttemptCollection, FinishTask, DisposeRepository,
           Awoken, Unstarted, WaitInv, TypeOK
  <1>. QED BY <1>1, <1>2, TargetsKept DEF WaitInv

LEMMA RepoTargets ==
    ASSUME WaitInv, LeaseInv, TargetInv, Repo
    PROVE  TargetInv'
  <1>1. /\ UNCHANGED <<target, admission, generations, activeByTarget, activeJobs, aborted, operation,
                       disposed>>
        /\ requests # <<>>
    BY DEF Repo, RunBegin, RunPut, RunCommit, RunRollback, RunCollect, RunFails, Run, RepoUnmoved, jobVars
  <1>2. PICK q \in RepoRequests : q = Head(requests) /\ RequestAwaited(q, pc, cleaner)
    BY <1>1, FirstRequest
  <1>3. \/ pc' = pc
        \/ /\ q.op \in {"begin", "put", "commit"}
           /\ \E where \in {"begun", "staged", "committed", "failed"} :
                 pc' = [pc EXCEPT ![q.import] = where]
    BY <1>2 DEF Repo, RunBegin, RunPut, RunCommit, RunRollback, RunCollect, RunFails, Run, GoTo
  <1>4. \A i \in Imports : pc'[i] = pc[i] \/ (pc[i] \notin Unstarted /\ pc'[i] \notin Unstarted)
    <2>1. ASSUME q.op \in {"begin", "put", "commit"},
                 NEW where \in {"begun", "staged", "committed", "failed"},
                 pc' = [pc EXCEPT ![q.import] = where]
          PROVE  \A i \in Imports : pc'[i] = pc[i] \/ (pc[i] \notin Unstarted /\ pc'[i] \notin Unstarted)
      <3>1. pc[q.import] \notin Unstarted /\ where \notin Unstarted
        BY <1>2, <2>1 DEF RequestAwaited, Unstarted
      <3>. QED BY <2>1, <3>1 DEF WaitInv, TypeOK
    <2>. QED BY <1>3, <2>1
  <1>. QED BY <1>1, <1>4, TargetsKept DEF WaitInv

LEMMA UserTargets ==
    ASSUME WaitInv, LeaseInv, TargetInv, User \/ DisposeCleanup
    PROVE  TargetInv'
  <1>1. ASSUME NEW i \in Imports, NEW t \in Targets, ReserveAdmission(i, t),
               \E where \in {"retrying", "done"} : pc' = [pc EXCEPT ![i] = where],
               \A u \in Targets \ {t} : operation'[u] = operation[u],
               operation'[t] # Idle => pc'[i] = "retrying"
        PROVE  TargetInv'
    <2>1. /\ disposed = "no" /\ disposed' = disposed /\ pc[i] = "new"
          /\ target' = [target EXCEPT ![i] = t]
          /\ generations' = [generations EXCEPT ![t] = @ + 1]
          /\ admission' = [admission EXCEPT ![i] = generations[t] + 1]
          /\ aborted' = aborted \cup ({activeByTarget[t]} \ {NoImport})
          /\ UNCHANGED <<activeByTarget, activeJobs>>
      BY <1>1 DEF ReserveAdmission
    <2>2. i \notin activeJobs /\ i \notin aborted /\ \A u \in Targets : activeByTarget[u] # i
      BY <2>1, NoImportAssumption DEF LeaseInv, JobsBegun, Begun, TargetInv, Unstarted
    <2>3. \A u \in Targets : activeByTarget'[u] # NoImport =>
             activeByTarget'[u] \in activeJobs' /\ target'[activeByTarget'[u]] = u
      BY <2>1, <2>2 DEF TargetInv, WaitInv, TypeOK
    <2>4. \A j \in Imports \ {i} : pc'[j] = pc[j] /\ target'[j] = target[j] /\ admission'[j] = admission[j]
      BY <1>1, <2>1 DEF WaitInv, TypeOK
    <2>5. pc'[i] \in {"retrying", "done"} /\ target'[i] = t /\ admission'[i] = generations'[t]
          /\ generations'[t] = generations[t] + 1 /\ generations[t] \in Nat
          /\ \A u \in Targets \ {t} : generations'[u] = generations[u]
      BY <1>1, <2>1 DEF WaitInv, TypeOK
    <2>6. \A j \in aborted' : pc'[j] \notin Unstarted
      <3>1. ASSUME NEW j \in Imports, j = activeByTarget[t] PROVE pc[j] \notin Unstarted /\ j # i
        BY <2>2, <3>1, NoImportAssumption DEF TargetInv, LeaseInv, JobsBegun, Begun, Unstarted
      <3>2. \A j \in aborted : j \in Imports /\ j # i /\ pc[j] \notin Unstarted
        BY <2>2 DEF TargetInv, WaitInv, TypeOK
      <3>3. \A j \in aborted' : j \in aborted \/ (j \in Imports /\ j = activeByTarget[t])
        BY <2>1 DEF WaitInv, TypeOK
      <3>. QED BY <2>4, <3>1, <3>2, <3>3
    <2>7. \A j \in Imports : pc'[j] # "new" => target'[j] \in Targets
      BY <2>4, <2>5 DEF TargetInv
    <2>8. \A j \in Imports : target'[j] \in Targets => admission'[j] <= generations'[target'[j]]
      <3>1. ASSUME NEW j \in Imports, j # i, target[j] \in Targets
            PROVE  admission[j] <= generations'[target[j]]
        <4>1. admission[j] <= generations[target[j]] /\ admission[j] \in Nat
          BY <3>1 DEF TargetInv, WaitInv, TypeOK
        <4>. QED BY <2>5, <3>1, <4>1
      <3>2. admission'[i] \in Nat /\ target'[i] = t
        BY <2>5
      <3>. QED BY <2>4, <2>5, <3>1, <3>2
    <2>9. ASSUME NEW u \in Targets, operation'[u] # Idle PROVE \E j \in Imports : Ahead(j, u)'
      <3>1. CASE u = t
        <4>1. Ahead(i, t)'
          BY <1>1, <2>5, <2>9, <3>1 DEF Ahead
        <4>. QED BY <3>1, <4>1
      <3>2. CASE u # t
        <4>1. PICK j \in Imports : Ahead(j, u)
          BY <1>1, <2>1, <2>9, <3>2 DEF TargetInv
        <4>2. j # i
          BY <2>1, <2>2, <4>1 DEF Ahead
        <4>3. j \in activeJobs /\ j \notin aborted /\ activeByTarget[u] = j => j \notin aborted'
          BY <2>1, <3>2, <4>1, NoImportAssumption DEF Ahead, TargetInv
        <4>4. Ahead(j, u)'
          BY <2>1, <2>4, <2>5, <3>2, <4>1, <4>2, <4>3 DEF Ahead
        <4>. QED BY <4>4
      <3>. QED BY <3>1, <3>2
    <2>. QED BY <2>3, <2>6, <2>7, <2>8, <2>9 DEF TargetInv
  <1>2. ASSUME NEW i \in Imports, NEW t \in Targets, ImportBatch(i, t) PROVE TargetInv'
    BY <1>1, <1>2 DEF ImportBatch, GoTo, WaitInv, TypeOK, ReserveAdmission
  <1>3. ASSUME NEW i \in Imports, NEW t \in Targets, RejectBatch(i, t) PROVE TargetInv'
    <2>1. operation'[t] = Idle /\ \A u \in Targets \ {t} : operation'[u] = operation[u]
      BY <1>3 DEF RejectBatch, WaitInv, TypeOK
    <2>. QED BY <1>1, <1>3, <2>1 DEF RejectBatch, GoTo
  <1>4. ASSUME NEW t \in Targets, CancelTarget(t) PROVE TargetInv'
    <2>1. /\ disposed' = disposed /\ UNCHANGED <<pc, target, admission, activeJobs>>
          /\ generations' = [generations EXCEPT ![t] = @ + 1]
          /\ aborted' = aborted \cup ({activeByTarget[t]} \ {NoImport})
          /\ activeByTarget' = [activeByTarget EXCEPT ![t] = NoImport]
          /\ operation' = [operation EXCEPT ![t] = Idle]
      BY <1>4 DEF CancelTarget
    <2>2. /\ generations'[t] = generations[t] + 1 /\ generations[t] \in Nat
          /\ activeByTarget'[t] = NoImport /\ operation'[t] = Idle
          /\ \A u \in Targets \ {t} : /\ generations'[u] = generations[u]
                                      /\ activeByTarget'[u] = activeByTarget[u]
                                      /\ operation'[u] = operation[u]
      BY <2>1 DEF WaitInv, TypeOK
    <2>3. \A u \in Targets : activeByTarget'[u] # NoImport =>
             activeByTarget'[u] \in activeJobs' /\ target'[activeByTarget'[u]] = u
      BY <2>1, <2>2 DEF TargetInv
    <2>4. \A j \in aborted' : pc'[j] \notin Unstarted
      <3>1. activeByTarget[t] # NoImport => pc[activeByTarget[t]] \notin Unstarted
        BY DEF TargetInv, LeaseInv, JobsBegun, Begun, Unstarted
      <3>. QED BY <2>1, <3>1 DEF TargetInv
    <2>5. \A j \in Imports : target'[j] \in Targets => admission'[j] <= generations'[target'[j]]
      BY <2>1, <2>2 DEF TargetInv, WaitInv, TypeOK
    <2>6. ASSUME disposed' = "no", NEW u \in Targets, operation'[u] # Idle
          PROVE  \E j \in Imports : Ahead(j, u)'
      <3>1. u # t /\ operation[u] # Idle
        BY <2>2, <2>6
      <3>2. PICK j \in Imports : Ahead(j, u)
        BY <2>1, <2>6, <3>1 DEF TargetInv
      <3>3. j \in activeJobs /\ j \notin aborted /\ activeByTarget[u] = j => j \notin aborted'
        BY <2>1, <3>1, <3>2, NoImportAssumption DEF Ahead, TargetInv
      <3>4. Ahead(j, u)'
        BY <2>1, <2>2, <3>1, <3>2, <3>3 DEF Ahead
      <3>. QED BY <3>4
    <2>. QED BY <2>1, <2>3, <2>4, <2>5, <2>6 DEF TargetInv
  <1>5. ASSUME NEW r \in Refs, RemoveAsset(r) PROVE TargetInv'
    BY <1>5, TargetsKept DEF RemoveAsset, jobVars, WaitInv
  <1>6. CASE BeginDispose
    <2>1. /\ disposed' = "waiting" /\ UNCHANGED <<pc, target, admission, generations, activeJobs>>
          /\ aborted' = aborted \cup activeJobs
          /\ activeByTarget' = [t \in Targets |-> NoImport]
      BY <1>6 DEF BeginDispose
    <2>2. \A j \in aborted' : pc'[j] \notin Unstarted
      BY <2>1 DEF TargetInv, LeaseInv, JobsBegun, Begun, Unstarted
    <2>. QED BY <2>1, <2>2 DEF TargetInv
  <1>7. CASE DisposeCleanup
    BY <1>7 DEF DisposeCleanup, jobVars, TargetInv
  <1>. QED BY <1>2, <1>3, <1>4, <1>5, <1>6, <1>7 DEF User

LEMMA InitTargets == Init => TargetInv
  BY DEF Init, TargetInv, Idle

LEMMA NextTargets ==
    ASSUME WaitInv, LeaseInv, TargetInv, [Next]_vars
    PROVE  TargetInv'
  <1>1. CASE UNCHANGED vars
    BY <1>1, TargetsKept DEF vars, jobVars, WaitInv
  <1>. QED BY <1>1, ImportTargets, CleanerTargets, RepoTargets, UserTargets DEF Next

-----------------------------------------------------------------------------
(***************************************************************************)
(* What is kept.                                                           *)
(***************************************************************************)
LEMMA CommittedStaged ==
    ASSUME WaitInv, LeaseInv
    PROVE  /\ \A i \in Imports : pc[i] \in {"committing", "committed"} =>
                  i \in activeJobs /\ stagedRefs[i] = Content[i]
           /\ \A n \in 1 .. Len(requests) : requests[n].op = "commit" =>
                  requests[n].import \in Imports /\ pc[requests[n].import] = "committing"
  <1>1. \A n \in 1 .. Len(requests) : requests[n].op = "commit" =>
           requests[n].import \in Imports /\ pc[requests[n].import] = "committing"
    BY At, RequestFields DEF WaitInv, TypeOK, RequestsAwaited, RequestAwaited
  <1>. QED BY <1>1 DEF LeaseInv, JobsBegun, Begun, StagedRows

\* Steps that neither commit nor collect, nor request a collection.
LEMMA KeepsOn ==
    ASSUME WaitInv, LeaseInv, KeepInv, entries' = entries,
           \/ requests' = requests
           \/ \E q \in RepoRequests : requests' = Append(requests, q) /\ q.op # "collect"
           \/ requests # <<>> /\ requests' = Tail(requests),
           \A r \in stateRefs' :
              r \in stateRefs \/ \E i \in Imports : pc[i] = "committed" /\ r \in Content[i],
           \A i \in Imports : pc'[i] = "committed" => pc[i] = "committed"
    PROVE  KeepInv'
  <1>1. ASSUME NEW refs, NEW n, Spared(refs, n)
        PROVE  /\ stateRefs' \subseteq refs
               /\ \A i \in Imports : pc'[i] = "committed" => Content[i] \subseteq refs
    BY <1>1 DEF Spared
  <1>2. /\ stateRefs' \subseteq entries'
        /\ \A i \in Imports : pc'[i] = "committed" => Content[i] \subseteq entries'
    BY DEF KeepInv
  <1>3. CASE requests' = requests
    BY <1>1, <1>2, <1>3 DEF KeepInv, Spared
  <1>4. ASSUME NEW q \in RepoRequests, requests' = Append(requests, q), q.op # "collect"
        PROVE  KeepInv'
    <2>1. /\ Len(requests) \in Nat /\ Len(requests') = Len(requests) + 1
          /\ \A n \in 1 .. Len(requests) : requests'[n] = requests[n]
          /\ requests'[Len(requests) + 1] = q
      BY <1>4, AppendAt DEF WaitInv, TypeOK
    <2>2. ASSUME NEW n \in 1 .. Len(requests'), requests'[n].op = "collect"
          PROVE  Spared(requests[n].refs, n)' /\ n \in 1 .. Len(requests)
      <3>1. n \in 1 .. Len(requests) /\ requests'[n] = requests[n]
        BY <1>4, <2>1, <2>2
      <3>2. Spared(requests[n].refs, n)
        BY <2>2, <3>1 DEF KeepInv
      <3>3. \A m \in 1 .. n : m \in 1 .. Len(requests) /\ requests'[m] = requests[m]
        BY <2>1, <3>1
      <3>. QED BY <1>1, <3>1, <3>2, <3>3 DEF Spared
    <2>. QED BY <1>2, <2>1, <2>2 DEF KeepInv
  <1>5. CASE requests # <<>> /\ requests' = Tail(requests)
    <2>1. /\ Len(requests) \in Nat /\ Len(requests') = Len(requests) - 1
          /\ \A n \in 1 .. Len(requests') : n + 1 \in 1 .. Len(requests) /\ requests'[n] = requests[n + 1]
      BY <1>5, TailAt DEF WaitInv, TypeOK
    <2>2. ASSUME NEW n \in 1 .. Len(requests'), requests'[n].op = "collect"
          PROVE  Spared(requests[n].refs, n)'
      <3>1. Spared(requests[n + 1].refs, n + 1)
        BY <2>1, <2>2 DEF KeepInv
      <3>2. \A m \in 1 .. n : m + 1 \in 1 .. n + 1 /\ requests'[m] = requests[m + 1]
        BY <2>1
      <3>. QED BY <1>1, <2>1, <3>1, <3>2 DEF Spared
    <2>. QED BY <1>2, <2>2 DEF KeepInv
  <1>. QED BY <1>3, <1>4, <1>5

LEMMA ImportKeep ==
    ASSUME WaitInv, LeaseInv, KeepInv, NEW i \in Imports, Import(i)
    PROVE  KeepInv'
  <1>1. PICK where : Moves(i, where)
    BY ImportMoves DEF WaitInv
  <1>2. PICK w : Goes(i, w)
    BY ImportGoes
  <1>3. \A j \in Imports : pc'[j] = "committed" => pc[j] = "committed"
    BY <1>2 DEF Goes, WaitInv, TypeOK
  <1>4. entries' = entries
    BY ImportMoves DEF WaitInv
  <1>5. \/ requests' = requests
        \/ \E q \in RepoRequests : requests' = Append(requests, q) /\ q.op # "collect"
    BY <1>1 DEF Moves
  <1>6. \A r \in stateRefs' :
           r \in stateRefs \/ \E j \in Imports : pc[j] = "committed" /\ r \in Content[j]
    <2>1. stateRefs' = stateRefs \/ (pc[i] = "committed" /\ stateRefs' = stateRefs \cup Content[i])
      BY DEF Import, BeginJob, Superseded, LeaseBegun, ResourceStaged, Prepared, PrepareFails,
             OperationFailed, RolledBack, LeaseCommitted, Dispatch, StageResource, Unmoved, userVars
    <2>. QED BY <2>1
  <1>. QED BY <1>3, <1>4, <1>5, <1>6, KeepsOn

LEMMA CleanerKeep == ASSUME WaitInv, LeaseInv, KeepInv, Cleaner PROVE KeepInv'
  <1>1. stateRefs' = stateRefs /\ entries' = entries
    BY DEF Cleaner, StartRollbacks, AttemptRollback, AttemptCollection, FinishTask, DisposeRepository,
           CleanerUnmoved, Request, repoVars, userVars
  <1>2. \A i \in Imports : pc'[i] = "committed" => pc[i] = "committed"
    BY DEF Cleaner, StartRollbacks, AttemptRollback, AttemptCollection, FinishTask, DisposeRepository,
           Awoken, WaitInv, TypeOK
  <1>3. CASE AttemptCollection
    <2>1. PICK q \in RepoRequests : q = [op |-> "collect", refs |-> ReachableRefs]
      <3>1. [op |-> "collect", refs |-> ReachableRefs] \in RepoRequests
        BY DEF WaitInv, TypeOK, ReachableRefs, RepoRequests
      <3>. QED BY <3>1
    <2>2. requests' = Append(requests, q) /\ pc' = pc /\ cleaner # "awaiting" /\ q.refs = ReachableRefs
      BY <1>3, <2>1 DEF AttemptCollection, Request
    <2>3. /\ Len(requests) \in Nat /\ Len(requests') = Len(requests) + 1
          /\ \A n \in 1 .. Len(requests) : requests'[n] = requests[n]
          /\ requests'[Len(requests) + 1] = q
      BY <2>2, AppendAt DEF WaitInv, TypeOK
    <2>4. \A n \in 1 .. Len(requests) : requests[n].op # "collect"
      BY <2>2 DEF WaitInv, RequestsAwaited, RequestAwaited
    <2>5. \A i \in Imports : pc[i] \in {"committing", "committed"} => Content[i] \subseteq q.refs
      BY <2>2, CommittedStaged DEF ReachableRefs
    <2>6. \A m \in 1 .. Len(requests) + 1 :
             requests'[m].op = "commit" => Content[requests'[m].import] \subseteq q.refs
      <3>1. ASSUME NEW m \in 1 .. Len(requests), requests[m].op = "commit"
            PROVE  Content[requests[m].import] \subseteq q.refs
        BY <2>5, <3>1, CommittedStaged
      <3>2. q.op # "commit"
        BY <2>1
      <3>3. \A m \in 1 .. Len(requests) + 1 : m \in 1 .. Len(requests) \/ m = Len(requests) + 1
        BY <2>3
      <3>. QED BY <2>3, <3>1, <3>2, <3>3
    <2>7. stateRefs \subseteq q.refs
      BY <2>2 DEF ReachableRefs
    <2>8. ASSUME NEW n \in 1 .. Len(requests'), requests'[n].op = "collect"
          PROVE  n = Len(requests) + 1 /\ requests'[n] = q
      BY <2>3, <2>4, <2>8
    <2>9. ASSUME NEW n \in 1 .. Len(requests'), requests'[n].op = "collect"
          PROVE  Spared(requests[n].refs, n)'
      BY <1>1, <2>2, <2>5, <2>6, <2>7, <2>8, <2>9 DEF Spared
    <2>. QED BY <1>1, <2>2, <2>9 DEF KeepInv
  <1>4. CASE ~AttemptCollection
    <2>1. ASSUME NEW i \in Imports, AttemptRollback(i)
          PROVE  \E q \in RepoRequests : requests' = Append(requests, q) /\ q.op # "collect"
      BY <2>1, RequestsMade DEF AttemptRollback, Request
    <2>2. \/ requests' = requests
          \/ \E q \in RepoRequests : requests' = Append(requests, q) /\ q.op # "collect"
      BY <1>4, <2>1 DEF Cleaner, StartRollbacks, FinishTask, DisposeRepository, repoVars
    <2>. QED BY <1>1, <1>2, <2>2, KeepsOn
  <1>. QED BY <1>3, <1>4

LEMMA RepoKeep == ASSUME WaitInv, LeaseInv, KeepInv, Repo PROVE KeepInv'
  <1>1. /\ requests # <<>> /\ requests' = Tail(requests) /\ stateRefs' = stateRefs
    BY DEF Repo, RunBegin, RunPut, RunCommit, RunRollback, RunCollect, RunFails, Run, RepoUnmoved, userVars
  <1>2. /\ Len(requests) \in Nat /\ Len(requests') = Len(requests) - 1 /\ Head(requests) = requests[1]
        /\ \A n \in 1 .. Len(requests') : n + 1 \in 1 .. Len(requests) /\ requests'[n] = requests[n + 1]
    BY <1>1, TailAt DEF WaitInv, TypeOK
  <1>3. ASSUME NEW n \in 1 .. Len(requests'), requests'[n].op = "collect"
        PROVE  /\ Spared(requests[n + 1].refs, n + 1) /\ requests'[n] = requests[n + 1]
               /\ \A m \in 1 .. n : m + 1 \in 1 .. n + 1 /\ requests'[m] = requests[m + 1]
               /\ 1 \in 1 .. n + 1
    BY <1>2, <1>3 DEF KeepInv
  <1>4. CASE RunCommit
    <2>1. PICK i \in Imports : i = requests[1].import /\ requests[1].op = "commit" /\ pc[i] = "committing"
      BY <1>1, <1>2, <1>4, FirstRequest, RequestFields DEF RunCommit, Run, RequestAwaited
    <2>2. pc' = [pc EXCEPT ![i] = "committed"] /\ entries' = entries \cup rows[i]
      BY <1>2, <1>4, <2>1 DEF RunCommit, GoTo
    <2>3. Content[i] \subseteq rows[i]
      BY <2>1 DEF LeaseInv, StagedRows
    <2>4. \A j \in Imports : pc'[j] = "committed" => pc[j] = "committed" \/ j = i
      BY <2>2 DEF WaitInv, TypeOK
    <2>5. ASSUME NEW n \in 1 .. Len(requests'), requests'[n].op = "collect"
          PROVE  Spared(requests[n].refs, n)'
      <3>1. Content[i] \subseteq requests[n + 1].refs
        BY <1>3, <2>1, <2>5 DEF Spared
      <3>. QED BY <1>1, <1>3, <2>4, <2>5, <3>1 DEF Spared
    <2>. QED BY <1>1, <2>2, <2>3, <2>4, <2>5 DEF KeepInv
  <1>5. CASE RunCollect
    <2>1. /\ pc' = pc /\ entries' = entries \cap requests[1].refs /\ requests[1].op = "collect"
      BY <1>2, <1>5 DEF RunCollect, Run
    <2>2. Spared(requests[1].refs, 1)
      BY <1>1, <2>1, FirstRequest DEF KeepInv
    <2>3. ASSUME NEW n \in 1 .. Len(requests'), requests'[n].op = "collect"
          PROVE  Spared(requests[n].refs, n)'
      BY <1>1, <1>3, <2>1, <2>3 DEF Spared
    <2>. QED BY <1>1, <2>1, <2>2, <2>3 DEF KeepInv, Spared
  <1>6. CASE ~RunCommit /\ ~RunCollect
    <2>1. entries' = entries
      BY <1>6 DEF Repo, RunBegin, RunPut, RunRollback, RunFails
    <2>2. \A i \in Imports : pc'[i] = "committed" => pc[i] = "committed"
      BY <1>6 DEF Repo, RunBegin, RunPut, RunRollback, RunFails, GoTo, WaitInv, TypeOK
    <2>. QED BY <1>1, <2>1, <2>2, KeepsOn
  <1>. QED BY <1>4, <1>5, <1>6

LEMMA UserKeep == ASSUME WaitInv, LeaseInv, KeepInv, User \/ DisposeCleanup PROVE KeepInv'
  <1>1. entries' = entries /\ requests' = requests /\ stateRefs' \subseteq stateRefs
    BY DEF User, ImportBatch, RejectBatch, CancelTarget, RemoveAsset, BeginDispose, DisposeCleanup,
           repoVars, userVars
  <1>2. \A i \in Imports : pc'[i] = "committed" => pc[i] = "committed"
    BY DEF User, ImportBatch, RejectBatch, ReserveAdmission, CancelTarget, RemoveAsset, BeginDispose,
           DisposeCleanup, GoTo, WaitInv, TypeOK
  <1>. QED BY <1>1, <1>2, KeepsOn

LEMMA InitKeep == Init => KeepInv
  BY DEF Init, KeepInv

LEMMA NextKeep == ASSUME WaitInv, LeaseInv, KeepInv, [Next]_vars PROVE KeepInv'
  <1>1. CASE UNCHANGED vars
    BY <1>1, KeepsOn DEF vars, repoVars, userVars
  <1>. QED BY <1>1, ImportKeep, CleanerKeep, RepoKeep, UserKeep DEF Next

-----------------------------------------------------------------------------
(***************************************************************************)
(* What is given up.                                                       *)
(***************************************************************************)
Commits == {"committed", "collecting", "done"}

LEMMA GivesUp ==
    ASSUME GiveUpInv, entries' = entries,
           stateRefs \cup dropped \subseteq stateRefs' \cup dropped',
           \A j \in Imports : pc[j] \in Commits => pc'[j] \in Commits,
           \A j \in Imports : CollectsSoon(j) => CollectsSoon(j)',
           collectionPending => collectionPending',
           \A q \in Requested' : q.op = "collect" => q \in Requested
    PROVE  GiveUpInv'
  <1>1. Unclaimed' \subseteq Unclaimed
    BY DEF Unclaimed
  <1>2. \A r \in entries' : \E j \in Imports :
          r \in Content[j] /\ pc'[j] \in {"committed", "collecting", "done"}
    BY DEF GiveUpInv, Commits
  <1>. HIDE DEF CollectsSoon, Unclaimed, Requested
  <1>. QED BY <1>1, <1>2 DEF GiveUpInv

\* The collections of the queue stay ahead.
LEMMA SoonKept ==
    ASSUME WaitInv, NEW j \in Imports, CollectsSoon(j),
           pc[j] = "committed" => pc'[j] = "committed",
           cleaner = "idle" => cleaner' = "idle",
           cleanup' = cleanup \/ \E k \in Tasks : cleanup' = Append(cleanup, k)
    PROVE  CollectsSoon(j)'
  <1>1. ASSUME NEW n \in 1 .. Len(cleanup) PROVE n \in 1 .. Len(cleanup') /\ cleanup'[n] = cleanup[n]
    <2>1. ASSUME NEW k \in Tasks, cleanup' = Append(cleanup, k)
          PROVE  n \in 1 .. Len(cleanup') /\ cleanup'[n] = cleanup[n]
      <3>1. /\ Len(cleanup) \in Nat /\ Len(cleanup') = Len(cleanup) + 1
            /\ \A m \in 1 .. Len(cleanup) : cleanup'[m] = cleanup[m]
        BY <2>1, AppendAt DEF WaitInv, TypeOK
      <3>. QED BY <3>1
    <2>. QED BY <2>1
  <1>2. CASE pc[j] = "committed"
    BY <1>2 DEF CollectsSoon
  <1>3. ASSUME NEW n \in 1 .. Len(cleanup), cleanup[n].kind = "collect", cleanup[n].import = j,
               n > 1 \/ cleaner = "idle"
        PROVE  CollectsSoon(j)'
    BY <1>1, <1>3 DEF CollectsSoon
  <1>. QED BY <1>2, <1>3 DEF CollectsSoon

LEMMA ImportGiveUp ==
    ASSUME WaitInv, LeaseInv, GiveUpInv, NEW i \in Imports, Import(i)
    PROVE  GiveUpInv'
  <1>1. PICK where : Moves(i, where)
    BY ImportMoves DEF WaitInv
  <1>2. PICK w : Goes(i, w)
    BY ImportGoes
  <1>3. UNCHANGED <<entries, cleaner, collectionPending>>
    BY ImportMoves DEF WaitInv
  <1>4. stateRefs \cup dropped \subseteq stateRefs' \cup dropped'
    BY DEF Import, BeginJob, Superseded, LeaseBegun, ResourceStaged, Prepared, PrepareFails,
           OperationFailed, RolledBack, LeaseCommitted, Dispatch, StageResource, Unmoved, userVars
  <1>5. \A j \in Imports : pc[j] \in Commits => pc'[j] \in Commits
    BY <1>2 DEF Goes, Commits, WaitInv, TypeOK
  <1>6. \A q \in Requested' : q.op = "collect" => q \in Requested
    <2>1. ASSUME NEW q \in RepoRequests, requests' = Append(requests, q),
                 q.op \in {"begin", "put", "commit"}
          PROVE  \A o \in Requested' : o.op = "collect" => o \in Requested
      BY <2>1, RequestedAppend DEF WaitInv
    <2>. QED BY <1>1, <2>1 DEF Moves, Requested
  <1>7. cleanup' = cleanup \/ \E k \in Tasks : cleanup' = Append(cleanup, k)
    BY <1>1 DEF Moves
  <1>8. ASSUME NEW j \in Imports, CollectsSoon(j) PROVE CollectsSoon(j)'
    <2>1. CASE pc[j] = "committed" /\ j = i
      <3>1. PICK k \in Tasks : k = [kind |-> "collect", import |-> i]
        BY TasksMade
      <3>2. cleanup' = Append(cleanup, k)
        BY <2>1, <3>1
           DEF Import, BeginJob, Superseded, LeaseBegun, ResourceStaged, Prepared, PrepareFails,
               OperationFailed, RolledBack, LeaseCommitted, StageResource, Enqueue
      <3>3. /\ Len(cleanup) \in Nat /\ Len(cleanup') = Len(cleanup) + 1
            /\ cleanup'[Len(cleanup) + 1] = k
        BY <3>2, AppendAt DEF WaitInv, TypeOK
      <3>4. Len(cleanup) + 1 > 1 \/ cleaner' = "idle"
        <4>1. Len(cleanup) = 0 => cleanup = <<>>
          BY At DEF WaitInv, TypeOK
        <4>. QED BY <1>3, <3>3, <4>1 DEF WaitInv, CleanerAtWork
      <3>5. Len(cleanup) + 1 \in 1 .. Len(cleanup')
        BY <3>3
      <3>6. k.kind = "collect" /\ k.import = j
        BY <2>1, <3>1
      <3>. QED BY <3>3, <3>4, <3>5, <3>6 DEF CollectsSoon
    <2>2. CASE ~(pc[j] = "committed" /\ j = i)
      <3>1. pc[j] = "committed" => pc'[j] = "committed"
        BY <1>2, <2>2 DEF Goes, WaitInv, TypeOK
      <3>. QED BY <1>3, <1>7, <1>8, <3>1, SoonKept
    <2>. QED BY <2>1, <2>2
  <1>. QED BY <1>3, <1>4, <1>5, <1>6, <1>8, GivesUp

LEMMA CleanerGiveUp ==
    ASSUME WaitInv, LeaseInv, GiveUpInv, Cleaner
    PROVE  GiveUpInv'
  <1>1. UNCHANGED <<entries, stateRefs, dropped>>
    BY DEF Cleaner, StartRollbacks, AttemptRollback, AttemptCollection, FinishTask, DisposeRepository,
           CleanerUnmoved, Request, repoVars, userVars
  <1>2. /\ \A j \in Imports : pc[j] \in Commits => pc'[j] \in Commits
        /\ \A j \in Imports : pc[j] = "committed" => pc'[j] = "committed"
    BY DEF Cleaner, StartRollbacks, AttemptRollback, AttemptCollection, FinishTask, DisposeRepository,
           Awoken, Commits, WaitInv, TypeOK
  <1>3. CASE AttemptCollection
    <2>1. PICK q \in RepoRequests : q = [op |-> "collect", refs |-> ReachableRefs]
      <3>1. [op |-> "collect", refs |-> ReachableRefs] \in RepoRequests
        BY DEF WaitInv, TypeOK, ReachableRefs, RepoRequests
      <3>. QED BY <3>1
    <2>2. /\ requests' = Append(requests, q) /\ pc' = pc /\ cleaner # "awaiting"
          /\ q.refs = ReachableRefs /\ collectionPending' = TRUE
      BY <1>3, <2>1 DEF AttemptCollection, Request
    <2>3. \A o \in Requested' : o.op = "collect" => o = q
      <3>1. Requested' = Requested \cup {q}
        BY <2>2, RequestedAppend DEF WaitInv
      <3>2. \A o \in Requested : o.op # "collect"
        BY <2>2, RequestedTyped DEF RequestAwaited
      <3>. QED BY <3>1, <3>2
    <2>4. Unclaimed' = Unclaimed
      BY <1>1 DEF Unclaimed
    <2>5. ASSUME NEW r \in Unclaimed, r \in q.refs
          PROVE  \E j \in Imports : r \in Content[j] /\ CollectsSoon(j)'
      <3>1. r \in entries /\ r \notin stateRefs /\ r \notin Shared /\ r \in Refs
        BY DEF Unclaimed, WaitInv, TypeOK
      <3>2. PICK i \in activeJobs : r \in stagedRefs[i]
        BY <2>2, <2>5, <3>1 DEF ReachableRefs
      <3>3. i \in Imports /\ r \in Content[i]
        BY <3>2 DEF WaitInv, TypeOK, LeaseInv, StagedRows
      <3>4. PICK j \in Imports : r \in Content[j] /\ pc[j] \in {"committed", "collecting", "done"}
        BY <3>1 DEF GiveUpInv
      <3>5. i = j
        BY <3>1, <3>3, <3>4 DEF Shared
      <3>6. pc[j] = "committed"
        BY <3>2, <3>4, <3>5 DEF LeaseInv, JobsBegun, Begun
      <3>. QED BY <2>2, <3>4, <3>6 DEF CollectsSoon
    <2>. HIDE DEF CollectsSoon, Unclaimed, Requested
    <2>6. \A r \in Unclaimed' : collectionPending'
      BY <2>2
    <2>7. \A o \in Requested' : o.op = "collect" =>
             \A r \in Unclaimed' \cap o.refs : \E j \in Imports : r \in Content[j] /\ CollectsSoon(j)'
      BY <2>3, <2>4, <2>5
    <2>. QED BY <1>1, <2>2, <2>6, <2>7 DEF GiveUpInv
  <1>4. CASE StartRollbacks
    <2>1. UNCHANGED <<pc, cleanup, collectionPending, Requested>> /\ Task.kind # "collect"
      BY <1>4 DEF StartRollbacks, repoVars, Requested
    <2>2. cleaner = "idle" /\ cleaner' = "rollbacks" /\ cleanup # <<>>
      BY <1>4 DEF StartRollbacks
    <2>3. ASSUME NEW j \in Imports, CollectsSoon(j) PROVE CollectsSoon(j)'
      <3>1. ASSUME NEW n \in 1 .. Len(cleanup), cleanup[n].kind = "collect" PROVE n > 1
        BY <2>1, <2>2, <3>1, FirstTask
      <3>. QED BY <2>1, <2>3, <3>1 DEF CollectsSoon
    <2>. QED BY <1>1, <1>2, <2>1, <2>3, GivesUp
  <1>5. ASSUME NEW i \in Imports, AttemptRollback(i) PROVE GiveUpInv'
    <2>1. UNCHANGED <<pc, cleanup, collectionPending>> /\ cleaner # "idle"
      BY <1>5 DEF AttemptRollback
    <2>2. Requested' = Requested \cup {[op |-> "rollback", import |-> i]}
      BY <1>5, RequestsMade, RequestedAppend DEF WaitInv, AttemptRollback, Request
    <2>3. \A j \in Imports : CollectsSoon(j) => CollectsSoon(j)'
      BY <2>1, SoonKept
    <2>. QED BY <1>1, <1>2, <2>1, <2>2, <2>3, GivesUp
  <1>6. CASE FinishTask \/ DisposeRepository
    <2>1. /\ cleaner # "idle" /\ cleaner' = "idle" /\ cleanup # <<>> /\ cleanup' = Tail(cleanup)
          /\ UNCHANGED <<collectionPending, Requested>>
      BY <1>6 DEF FinishTask, DisposeRepository, repoVars, Requested, WaitInv, CleanerAtWork
    <2>2. ASSUME NEW j \in Imports, CollectsSoon(j) PROVE CollectsSoon(j)'
      <3>1. /\ Len(cleanup) \in Nat /\ Len(cleanup') = Len(cleanup) - 1
            /\ \A n \in 1 .. Len(cleanup') : cleanup'[n] = cleanup[n + 1]
        BY <2>1, TailAt DEF WaitInv, TypeOK
      <3>2. ASSUME NEW n \in 1 .. Len(cleanup), n > 1, cleanup[n].kind = "collect", cleanup[n].import = j
            PROVE  CollectsSoon(j)'
        <4>1. n - 1 \in 1 .. Len(cleanup') /\ cleanup'[n - 1] = cleanup[n]
          BY <3>1, <3>2
        <4>. QED BY <2>1, <3>2, <4>1 DEF CollectsSoon
      <3>3. CASE pc[j] = "committed"
        BY <1>2, <3>3 DEF CollectsSoon
      <3>. QED BY <2>1, <2>2, <3>2, <3>3 DEF CollectsSoon
    <2>. QED BY <1>1, <1>2, <2>1, <2>2, GivesUp
  <1>. QED BY <1>3, <1>4, <1>5, <1>6 DEF Cleaner

LEMMA RepoGiveUp ==
    ASSUME WaitInv, LeaseInv, GiveUpInv, Repo
    PROVE  GiveUpInv'
  <1>1. /\ requests # <<>> /\ requests' = Tail(requests)
        /\ UNCHANGED <<stateRefs, dropped, cleanup>>
    BY DEF Repo, RunBegin, RunPut, RunCommit, RunRollback, RunCollect, RunFails, Run, RepoUnmoved, userVars
  <1>2. Requested' \subseteq Requested
    BY <1>1, RequestedTail DEF WaitInv
  <1>3. PICK q \in RepoRequests : q = Head(requests) /\ RequestAwaited(q, pc, cleaner) /\ q \in Requested
    BY <1>1, FirstRequest DEF Requested
  <1>4. \/ /\ q.op \in {"begin", "put", "commit"} /\ cleaner' = cleaner
           /\ \E where \in {"begun", "staged", "committed", "failed"} :
                 pc' = [pc EXCEPT ![q.import] = where]
        \/ cleaner = "awaiting" /\ pc' = pc
    BY <1>3, RequestFields
       DEF Repo, RunBegin, RunPut, RunCommit, RunRollback, RunCollect, RunFails, Run, GoTo, RequestAwaited
  <1>5. \A j \in Imports : pc[j] \in Commits => pc'[j] = pc[j]
    BY <1>3, <1>4 DEF RequestAwaited, Commits, WaitInv, TypeOK
  <1>6. \A j \in Imports : CollectsSoon(j) => CollectsSoon(j)'
    BY <1>1, <1>4, <1>5, SoonKept DEF Commits
  <1>7. CASE RunCommit
    <2>1. PICK i \in Imports : i = q.import /\ pc[i] = "committing"
      BY <1>3, <1>7, RequestFields DEF RunCommit, Run, RequestAwaited
    <2>2. /\ pc' = [pc EXCEPT ![i] = "committed"] /\ entries' = entries \cup rows[i]
          /\ collectionPending' = collectionPending
      BY <1>3, <1>7, <2>1 DEF RunCommit, GoTo
    <2>3. pc'[i] = "committed" /\ rows[i] \subseteq Content[i]
      BY <2>2 DEF WaitInv, TypeOK, LeaseInv, StagedRows
    <2>4. CollectsSoon(i)'
      BY <2>3 DEF CollectsSoon
    <2>5. Unclaimed' \subseteq Unclaimed \cup rows[i]
      BY <1>1, <2>2 DEF Unclaimed
    <2>6. \A r \in entries' : \E j \in Imports :
             r \in Content[j] /\ pc'[j] \in {"committed", "collecting", "done"}
      BY <1>5, <2>2, <2>3 DEF GiveUpInv, Commits
    <2>. HIDE DEF CollectsSoon, Unclaimed, Requested
    <2>7. \A r \in Unclaimed' :
             collectionPending' \/ \E j \in Imports : r \in Content[j] /\ CollectsSoon(j)'
      BY <1>6, <2>2, <2>3, <2>4, <2>5 DEF GiveUpInv
    <2>8. \A o \in Requested' : o.op = "collect" =>
             \A r \in Unclaimed' \cap o.refs : \E j \in Imports : r \in Content[j] /\ CollectsSoon(j)'
      BY <1>2, <1>6, <2>3, <2>4, <2>5 DEF GiveUpInv
    <2>. QED BY <2>6, <2>7, <2>8 DEF GiveUpInv
  <1>8. CASE RunCollect
    <2>1. entries' = entries \cap q.refs /\ q.op = "collect"
      BY <1>3, <1>8 DEF RunCollect, Run
    <2>2. Unclaimed' \subseteq Unclaimed \cap q.refs
      BY <1>1, <2>1 DEF Unclaimed
    <2>3. \A r \in entries' : \E j \in Imports :
             r \in Content[j] /\ pc'[j] \in {"committed", "collecting", "done"}
      BY <1>5, <2>1 DEF GiveUpInv, Commits
    <2>. HIDE DEF CollectsSoon, Unclaimed, Requested
    <2>4. \A r \in Unclaimed' : \E j \in Imports : r \in Content[j] /\ CollectsSoon(j)'
      BY <1>3, <1>6, <2>1, <2>2 DEF GiveUpInv
    <2>. QED BY <2>3, <2>4 DEF GiveUpInv
  <1>9. CASE ~RunCommit /\ ~RunCollect
    <2>1. UNCHANGED <<entries, collectionPending>>
      BY <1>9 DEF Repo, RunBegin, RunPut, RunRollback, RunFails
    <2>. QED BY <1>1, <1>2, <1>5, <1>6, <2>1, GivesUp DEF Commits
  <1>. QED BY <1>7, <1>8, <1>9

LEMMA UserGiveUp ==
    ASSUME WaitInv, LeaseInv, GiveUpInv, User \/ DisposeCleanup
    PROVE  GiveUpInv'
  <1>1. /\ UNCHANGED <<entries, Requested, cleaner, collectionPending>>
        /\ stateRefs \cup dropped \subseteq stateRefs' \cup dropped'
    BY DEF User, ImportBatch, RejectBatch, CancelTarget, RemoveAsset, BeginDispose, DisposeCleanup,
           Enqueue, repoVars, cleanerVars, userVars, Requested
  <1>2. \A j \in Imports : pc[j] # "new" => pc'[j] = pc[j]
    BY DEF User, ImportBatch, RejectBatch, ReserveAdmission, CancelTarget, RemoveAsset, BeginDispose,
           DisposeCleanup, GoTo, WaitInv, TypeOK
  <1>3. cleanup' = cleanup \/ \E k \in Tasks : cleanup' = Append(cleanup, k)
    BY TasksMade
       DEF User, ImportBatch, RejectBatch, CancelTarget, RemoveAsset, BeginDispose,
           DisposeCleanup, Enqueue, cleanerVars
  <1>4. \A j \in Imports : CollectsSoon(j) => CollectsSoon(j)'
    BY <1>1, <1>2, <1>3, SoonKept
  <1>5. \A j \in Imports : pc[j] \in Commits => pc'[j] \in Commits
    BY <1>2 DEF Commits
  <1>. QED BY <1>1, <1>4, <1>5, GivesUp

LEMMA InitGiveUp == Init => GiveUpInv
  BY DEF Init, GiveUpInv, Unclaimed, Requested

LEMMA NextGiveUp == ASSUME WaitInv, LeaseInv, GiveUpInv, [Next]_vars PROVE GiveUpInv'
  <1>1. CASE UNCHANGED vars
    <2>1. UNCHANGED <<pc, entries, stateRefs, dropped, collectionPending, Requested, cleanup, cleaner>>
      BY <1>1 DEF vars, cleanerVars, repoVars, userVars, Requested
    <2>. QED BY <2>1, GivesUp, SoonKept
  <1>. QED BY <1>1, ImportGiveUp, CleanerGiveUp, RepoGiveUp, UserGiveUp DEF Next

-----------------------------------------------------------------------------
LEMMA InvariantsHold == Spec => [](LeaseInv /\ TargetInv /\ KeepInv /\ GiveUpInv)
  <1>1. WaitInv /\ LeaseInv /\ TargetInv /\ KeepInv /\ GiveUpInv /\ [Next]_vars
           => LeaseInv' /\ TargetInv' /\ KeepInv' /\ GiveUpInv'
    BY NextLease, NextTargets, NextKeep, NextGiveUp
  <1>. QED BY <1>1, InitLease, InitTargets, InitKeep, InitGiveUp, Waiting, PTL DEF Spec

(***************************************************************************)
(* For any imports, targets and contents, no collection deletes a resource *)
(* that the state names, or one that a running import has staged.          *)
(***************************************************************************)
THEOREM NothingIsLost == Spec => []ResourcesKept
  <1>1. LeaseInv /\ KeepInv => ResourcesKept
    BY DEF LeaseInv, KeepInv, StagedRows, JobsBegun, ResourcesKept, StateResourcesPresent,
           JobResourcesSafe
  <1>. QED BY <1>1, InvariantsHold, PTL

(***************************************************************************)
(* However imports end, no target is left busy, every open lease of a      *)
(* settled import is still to be rolled back, and when all is quiet the    *)
(* repository holds nothing of an import that did not reach the state.     *)
(***************************************************************************)
THEOREM NothingIsLeft == Spec => []NothingLeftBehind
  <1>1. LeaseInv /\ TargetInv => NoStuckOperation
    <2>. SUFFICES ASSUME LeaseInv, TargetInv, disposed = "no", NEW t \in Targets, operation[t] # Idle
                  PROVE  \E i \in Inflight : target[i] = t
      BY DEF NoStuckOperation
    <2>1. PICK j \in Imports : Ahead(j, t)
      BY DEF TargetInv
    <2>2. pc[j] \notin {"new", "done"} /\ target[j] = t
      BY <2>1, AheadBusy DEF Ahead, Begun
    <2>. QED BY <2>2 DEF Inflight
  <1>2. LeaseInv => NoLeakedLease
    BY DEF LeaseInv, LeasesFollow, NoLeakedLease
  <1>3. WaitInv /\ GiveUpInv => CancelledLeavesNothing
    <2>. SUFFICES ASSUME WaitInv, GiveUpInv, Quiet, NEW r \in entries
                  PROVE  r \in stateRefs \cup dropped \cup Shared
      BY DEF CancelledLeavesNothing
    <2>1. ASSUME NEW j \in Imports PROVE ~CollectsSoon(j)
      <3>1. pc[j] \in {"new", "done"} /\ cleanup = <<>>
        BY DEF Quiet, Inflight
      <3>2. \A n \in 1 .. Len(cleanup) : FALSE
        BY <3>1
      <3>. QED BY <3>1, <3>2 DEF CollectsSoon
    <2>. QED BY <2>1 DEF GiveUpInv, Unclaimed, Quiet
  <1>. QED BY <1>1, <1>2, <1>3, InvariantsHold, Waiting, PTL DEF NothingLeftBehind

(***************************************************************************)
(* Only the import admitted last on its target changes the state.          *)
(***************************************************************************)
THEOREM LatestDispatches == Spec => OnlyLatestDispatches
  <1>. DEFINE Latest ==
          \A i \in Imports : outcome[i] # "committed" /\ outcome'[i] = "committed" =>
             /\ disposed = "no"
             /\ generations[target[i]] = admission[i]
             /\ \A j \in Imports : target[j] = target[i] => admission[j] <= admission[i]
  <1>1. ASSUME WaitInv, TargetInv, [Next]_vars PROVE [Latest]_vars
    <2>. SUFFICES ASSUME NEW i \in Imports, outcome[i] # "committed", outcome'[i] = "committed",
                         ~UNCHANGED vars
                  PROVE  /\ disposed = "no"
                         /\ generations[target[i]] = admission[i]
                         /\ \A j \in Imports : target[j] = target[i] => admission[j] <= admission[i]
      OBVIOUS
    <2>1. pc[i] = "committed" /\ IsCurrent(i)
      <3>1. ASSUME NEW j \in Imports, Import(j) PROVE pc[i] = "committed" /\ IsCurrent(i)
        BY <1>1, <3>1
           DEF Import, BeginJob, Superseded, LeaseBegun, ResourceStaged, Prepared, PrepareFails,
               OperationFailed, RolledBack, LeaseCommitted, Dispatch, StageResource, Unmoved, WaitInv, TypeOK
      <3>2. CASE Cleaner
        BY <3>2 DEF Cleaner, StartRollbacks, AttemptRollback, AttemptCollection, FinishTask,
                    DisposeRepository, CleanerUnmoved
      <3>3. CASE Repo
        BY <3>3 DEF Repo, RunBegin, RunPut, RunCommit, RunRollback, RunCollect, RunFails, RepoUnmoved
      <3>4. CASE User \/ DisposeCleanup
        BY <1>1, <3>4 DEF User, ImportBatch, RejectBatch, CancelTarget, RemoveAsset, BeginDispose,
                    DisposeCleanup, WaitInv, TypeOK
      <3>. QED BY <1>1, <3>1, <3>2, <3>3, <3>4 DEF Next
    <2>2. disposed = "no" /\ generations[target[i]] = admission[i]
      BY <2>1 DEF IsCurrent
    <2>3. target[i] \in Targets
      BY <1>1, <2>1 DEF TargetInv
    <2>. QED BY <1>1, <2>2, <2>3 DEF TargetInv
  <1>2. [][Latest]_vars => OnlyLatestDispatches
    BY DEF OnlyLatestDispatches
  <1>. HIDE DEF Latest
  <1>. QED BY <1>1, <1>2, InvariantsHold, Waiting, PTL DEF Spec
=============================================================================
