-------------------------- MODULE AssetRepository --------------------------
(***************************************************************************)
(* The IndexedDB binary asset repository that the browser tabs of one      *)
(* origin share (src/src/toolcraft/runtime/source-assets/repository).      *)
(*                                                                         *)
(* An owner is one repository object: one tab, from its creation to its    *)
(* disposal or its crash; its id is a fresh UUID, so it never comes back.  *)
(* An owner stages the resources of an import under a lease, commits the   *)
(* lease, and collects garbage: a collection publishes the refs the owner  *)
(* reaches and deletes the entries nobody reaches.  What other owners      *)
(* reach is known from their records in the database, and whether they     *)
(* still run from the Web Locks they hold.                                 *)
(*                                                                         *)
(* Every operation is admitted to a queue, waits for the coordination      *)
(* lock, reads the held liveness locks, and runs one database transaction. *)
(* A record's expiry time is abstracted to its being fresh: time may make  *)
(* any record stale at any moment, a renewal makes it fresh.               *)
(***************************************************************************)
EXTENDS Naturals, Sequences

CONSTANTS
    Owners,         \* repository objects, one per tab and page load
    Leases,         \* lease ids; each is used at most once
    Refs,           \* names of binary resources
    Payloads,       \* bytes, content type and dependencies of an entry
    Dependencies,   \* Dependencies[c]: the refs that payload c depends on
    MaxQueue,       \* bound: operations of one owner that are admitted at once
    LocksAvailable, \* whether the browser has the Web Locks API
    Operations,     \* operations that the owners request in this instance
    Faults          \* failures that may happen in this instance

CONSTANTS Absent, NoRecord, NoOwner, Unknown, NotGranted

ASSUME DependenciesAssumption == Dependencies \in [Payloads -> SUBSET Refs]
ASSUME QueueAssumption == MaxQueue \in Nat \ {0}
ASSUME LocksAssumption == LocksAvailable \in BOOLEAN
ASSUME InstanceAssumption ==
    /\ Operations \subseteq {"begin", "put", "leaseGet", "commit", "rollback",
                             "get", "collect"}
    /\ Faults \subseteq {"abort", "cleanup", "query", "storage", "crash", "wipe"}

VARIABLES
    \* The database.
    entries,     \* entries store: committed payload of every ref
    staged,      \* leases store: the rows staged under every lease
    leaseMeta,   \* metadata store: the record of every lease
    ownerMeta,   \* metadata store: the record of every owner
    \* The lock manager and the lifecycle of every owner.
    locks,       \* owners that hold their liveness lock
    status,      \* lifecycle of every owner
    queue,       \* operations admitted and not yet settled
    grant,       \* liveness snapshot of the running operation's owner
    \* Lease objects in the memory of their owner.
    phase, leaseOwner, leaseRefs,
    \* The workspace: the code that calls the repository.
    roots,       \* refs that an owner's state, history and jobs reach
    verified,    \* those of them the owner has committed or has read
    persisted,   \* refs named by the workspace saved in localStorage
    base,        \* saved workspace that an owner's checkpoint expects
    wiped        \* history: the database has been cleared

dbVars    == <<entries, staged, leaseMeta, ownerMeta>>
leaseVars == <<phase, leaseOwner, leaseRefs>>
spaceVars == <<roots, verified, persisted, base>>
vars == <<dbVars, locks, status, queue, grant, leaseVars, spaceVars, wiped>>

(***************************************************************************)
(* Records and requests.                                                   *)
(***************************************************************************)
NoRows == [r \in Refs |-> Absent]

Unpublished == {"unpublished"}   \* reachableRefs: null

OwnerRecord == [reachable : (SUBSET Refs) \cup {Unpublished}, fresh : BOOLEAN]
LeaseRecord == [owner : Owners, fresh : BOOLEAN]

Requests ==
    [op : {"begin", "commit", "rollback"}, lease : Leases]
      \cup [op : {"put"}, lease : Leases, ref : Refs, payload : Payloads]
      \cup [op : {"get"}, ref : Refs]
      \cup [op : {"leaseGet"}, lease : Leases, ref : Refs]
      \cup [op : {"collect"}, refs : SUBSET Refs]

Running == {"active", "disposing"}

\* The sentinels differ from what they stand beside.
ASSUME SentinelAssumption ==
    /\ Absent \notin Payloads
    /\ NoRecord \notin OwnerRecord
    /\ NoRecord \notin LeaseRecord
    /\ NoOwner \notin Owners
    /\ \A S \in SUBSET Owners : S # Unknown /\ S # NotGranted
    /\ Unknown # NotGranted
    /\ "unpublished" \notin Refs

(***************************************************************************)
(* The refs reached from a set of refs through the entries' dependencies:  *)
(* the least set that holds them and is closed under the dependencies of   *)
(* the entries it names.                                                   *)
(***************************************************************************)
ClosedUnder(es, S) ==
    \A r \in S : es[r] # Absent => Dependencies[es[r]] \subseteq S

\* Mutant: dependencies are not followed.
ReachableDirectly(es, from) == from \cap Refs

Reachable(es, from) ==
    {r \in Refs : \A S \in SUBSET Refs :
                     from \subseteq S /\ ClosedUnder(es, S) => r \in S}

(***************************************************************************)
(* Metadata maintenance, which begins every transaction but a heartbeat's. *)
(* live is the snapshot of the liveness locks, or Unknown.                 *)
(***************************************************************************)
\* Mutant: an owner is taken for dead when liveness is unknown.
MayLiveIfSeen(p, live, q) == q = p \/ (live # Unknown /\ q \in live)

MayLive(p, live, q) == q = p \/ live = Unknown \/ q \in live

\* Mutant: a lease whose record expired is reaped although its owner runs.
LeaseKeptIfFresh(p, live, l) ==
    /\ leaseMeta[l] # NoRecord
    /\ leaseMeta[l].fresh \/ leaseMeta[l].owner = p

LeaseKept(p, live, l) ==
    /\ leaseMeta[l] # NoRecord
    /\ leaseMeta[l].fresh \/ MayLive(p, live, leaseMeta[l].owner)

OwnerReaped(p, live, q) ==
    /\ ownerMeta[q] # NoRecord
    /\ ~ownerMeta[q].fresh
    /\ ~MayLive(p, live, q)
    /\ \A l \in Leases : LeaseKept(p, live, l) => leaseMeta[l].owner # q

RenewedOwner(p) ==
    [reachable |-> IF ownerMeta[p] = NoRecord THEN Unpublished
                   ELSE ownerMeta[p].reachable,
     fresh |-> TRUE]

MaintainedOwners(p, live) ==
    [q \in Owners |-> IF q = p THEN RenewedOwner(p)
                      ELSE IF OwnerReaped(p, live, q) THEN NoRecord
                      ELSE ownerMeta[q]]

MaintainedLeases(p, live) ==
    [l \in Leases |-> IF LeaseKept(p, live, l) THEN leaseMeta[l] ELSE NoRecord]

MaintainedRows(p, live) ==
    [l \in Leases |-> IF leaseMeta[l] # NoRecord /\ ~LeaseKept(p, live, l)
                      THEN NoRows ELSE staged[l]]

\* The same, with the lease of the operation protected and renewed.
RenewedLeases(p, live, l) ==
    [MaintainedLeases(p, live) EXCEPT ![l] = [owner |-> p, fresh |-> TRUE]]

OwnLease(p, l) == leaseMeta[l] # NoRecord /\ leaseMeta[l].owner = p

\* Mutant: a lease whose record is missing passes as valid.
LeaseValidIfMissing(p, l) == leaseMeta[l] = NoRecord \/ OwnLease(p, l)

\* The lease named by an operation is still in the database and is p's.
LeaseValid(p, l) == OwnLease(p, l)

(***************************************************************************)
(* The owners a collection must hear from, and the refs they published.    *)
(* om and lm are the owner and lease records after maintenance.            *)
(***************************************************************************)
ActiveOwners(p, live, om, lm) ==
    {q \in Owners : om[q] # NoRecord /\ (om[q].fresh \/ MayLive(p, live, q))}
      \cup {lm[l].owner : l \in {k \in Leases : lm[k] # NoRecord}}

\* Some owner has no record, or has not published since its last commit.
Blocked(om, owners) ==
    \E q \in owners : om[q] = NoRecord \/ om[q].reachable = Unpublished

UnionOf(om, owners) == UNION {om[q].reachable : q \in owners}

\* Mutant: the saved workspaces are not consulted.
KeptUnsaved(om, owners) == Reachable(entries, UnionOf(om, owners))

Kept(om, owners) == Reachable(entries, UnionOf(om, owners) \cup persisted)

(***************************************************************************)
(* Initial state: an empty database, nobody running.                       *)
(***************************************************************************)
Init ==
    /\ entries = NoRows
    /\ staged = [l \in Leases |-> NoRows]
    /\ leaseMeta = [l \in Leases |-> NoRecord]
    /\ ownerMeta = [p \in Owners |-> NoRecord]
    /\ locks = {}
    /\ status = [p \in Owners |-> "new"]
    /\ queue = [p \in Owners |-> <<>>]
    /\ grant = [p \in Owners |-> NotGranted]
    /\ phase = [l \in Leases |-> "unused"]
    /\ leaseOwner = [l \in Leases |-> NoOwner]
    /\ leaseRefs = [l \in Leases |-> {}]
    /\ roots = [p \in Owners |-> {}]
    /\ verified = [p \in Owners |-> {}]
    /\ persisted = {}
    /\ base = [p \in Owners |-> {}]
    /\ wiped = FALSE

(***************************************************************************)
(* The workspace.                                                          *)
(***************************************************************************)
\* A page loads: its state comes from the saved workspace.
Open(p) ==
    /\ status[p] = "new"
    /\ status' = [status EXCEPT ![p] = "active"]
    /\ roots' = [roots EXCEPT ![p] = persisted]
    /\ base' = [base EXCEPT ![p] = persisted]
    /\ UNCHANGED <<dbVars, locks, queue, grant, leaseVars, verified, persisted,
                   wiped>>

\* A ref leaves the owner's state and its undo history.
Drop(p, r) ==
    /\ status[p] = "active"
    /\ r \in roots[p]
    /\ roots' = [roots EXCEPT ![p] = @ \ {r}]
    /\ verified' = [verified EXCEPT ![p] = @ \ {r}]
    /\ UNCHANGED <<dbVars, locks, status, queue, grant, leaseVars, persisted,
                   base, wiped>>

\* The persistence controller saves the workspace, if it still holds what
\* the checkpoint expects.
Persist(p) ==
    /\ status[p] = "active"
    /\ persisted = base[p]
    /\ persisted # roots[p]
    /\ persisted' = roots[p]
    /\ base' = [base EXCEPT ![p] = roots[p]]
    /\ UNCHANGED <<dbVars, locks, status, queue, grant, leaseVars, roots,
                   verified, wiped>>

(***************************************************************************)
(* Admission of operations.                                                *)
(***************************************************************************)
Admit(p, req) ==
    /\ req.op \in Operations
    /\ status[p] = "active"
    /\ Len(queue[p]) < MaxQueue
    /\ queue' = [queue EXCEPT ![p] = Append(@, req)]

RequestBegin(p, l) ==
    /\ phase[l] = "unused"
    /\ Admit(p, [op |-> "begin", lease |-> l])
    /\ phase' = [phase EXCEPT ![l] = "opening"]
    /\ leaseOwner' = [leaseOwner EXCEPT ![l] = p]
    /\ UNCHANGED <<dbVars, locks, status, grant, leaseRefs, spaceVars, wiped>>

\* An operation of a lease: operations of one lease run one after another.
AdmitOnLease(p, l, req) ==
    /\ phase[l] = "open"
    /\ leaseOwner[l] = p
    /\ Admit(p, req)
    /\ phase' = [phase EXCEPT ![l] = "busy"]
    /\ UNCHANGED <<dbVars, locks, status, grant, leaseOwner, leaseRefs,
                   spaceVars, wiped>>

\* The handlers stage the resources a payload depends on before it.
RequestPut(p, l, r, c) ==
    /\ r \notin Dependencies[c]
    /\ Dependencies[c] \subseteq leaseRefs[l]
    /\ AdmitOnLease(p, l, [op |-> "put", lease |-> l, ref |-> r, payload |-> c])

RequestLeaseGet(p, l, r) ==
    AdmitOnLease(p, l, [op |-> "leaseGet", lease |-> l, ref |-> r])

RequestCommit(p, l) == AdmitOnLease(p, l, [op |-> "commit", lease |-> l])

RequestRollback(p, l) == AdmitOnLease(p, l, [op |-> "rollback", lease |-> l])

RequestGet(p, r) ==
    /\ r \in roots[p]
    /\ Admit(p, [op |-> "get", ref |-> r])
    /\ UNCHANGED <<dbVars, locks, status, grant, leaseVars, spaceVars, wiped>>

\* What the caller passes: the refs its state reaches and those its running
\* jobs have staged, at the time of the call.
StagedBy(p) ==
    UNION {leaseRefs[l] : l \in {k \in Leases : leaseOwner[k] = p
                                               /\ phase[k] \in {"open", "busy"}}}

RequestCollect(p) ==
    /\ Admit(p, [op |-> "collect", refs |-> roots[p] \cup StagedBy(p)])
    /\ UNCHANGED <<dbVars, locks, status, grant, leaseVars, spaceVars, wiped>>

(***************************************************************************)
(* The coordination lock is granted to an admitted operation, which makes  *)
(* its owner hold the liveness lock and then reads the held ones.  Without *)
(* Web Locks nothing is exclusive and the snapshot is always Unknown; with *)
(* them the query may fail, which is Unknown too.                          *)
(***************************************************************************)
Uncontended == LocksAvailable => \A q \in Owners : grant[q] = NotGranted

Snapshots(p) ==
    (IF LocksAvailable THEN {locks \cup {p}} ELSE {Unknown})
      \cup (IF "query" \in Faults THEN {Unknown} ELSE {})

Grant(p) ==
    /\ queue[p] # <<>>
    /\ grant[p] = NotGranted
    /\ Uncontended
    /\ \E live \in Snapshots(p) : grant' = [grant EXCEPT ![p] = live]
    /\ locks' = locks \cup {p}
    /\ UNCHANGED <<dbVars, status, queue, leaseVars, spaceVars, wiped>>

(***************************************************************************)
(* Transactions.  Settle takes the operation off the queue and releases    *)
(* the coordination lock; the lease object learns the outcome.             *)
(***************************************************************************)
Granted(p, op) == grant[p] # NotGranted /\ Head(queue[p]).op = op

Settle(p) ==
    /\ queue' = [queue EXCEPT ![p] = Tail(@)]
    /\ grant' = [grant EXCEPT ![p] = NotGranted]
    /\ UNCHANGED <<locks, status, leaseOwner, persisted, base, wiped>>

BeginTxn(p) ==
    /\ Granted(p, "begin")
    /\ LET l == Head(queue[p]).lease
           live == grant[p]
       IN /\ ownerMeta' = MaintainedOwners(p, live)
          /\ leaseMeta' = RenewedLeases(p, live, l)
          /\ staged' = MaintainedRows(p, live)
          /\ phase' = [phase EXCEPT ![l] = "open"]
    /\ Settle(p)
    /\ UNCHANGED <<entries, leaseRefs, roots, verified>>

PutTxn(p) ==
    /\ Granted(p, "put")
    /\ LET req == Head(queue[p])
           l == req.lease
           live == grant[p]
       IN /\ LeaseValid(p, l)
          /\ staged[l][req.ref] \in {Absent, req.payload}
          /\ ownerMeta' = MaintainedOwners(p, live)
          /\ leaseMeta' = RenewedLeases(p, live, l)
          /\ staged' = [MaintainedRows(p, live) EXCEPT ![l][req.ref] = req.payload]
          /\ phase' = [phase EXCEPT ![l] = "open"]
          /\ leaseRefs' = [leaseRefs EXCEPT ![l] = @ \cup {req.ref}]
    /\ Settle(p)
    /\ UNCHANGED <<entries, roots, verified>>

LeaseGetTxn(p) ==
    /\ Granted(p, "leaseGet")
    /\ LET l == Head(queue[p]).lease
           live == grant[p]
       IN /\ LeaseValid(p, l)
          /\ ownerMeta' = MaintainedOwners(p, live)
          /\ leaseMeta' = RenewedLeases(p, live, l)
          /\ staged' = MaintainedRows(p, live)
          /\ phase' = [phase EXCEPT ![l] = "open"]
    /\ Settle(p)
    /\ UNCHANGED <<entries, leaseRefs, roots, verified>>

\* The entries after the rows of a lease are merged: a committed entry stays.
Merged(rows) ==
    [r \in Refs |-> IF entries[r] = Absent THEN rows[r] ELSE entries[r]]

\* Mutant: a ref committed with other content is silently taken as is.
ConflictingNever(rows) == FALSE

Conflicting(rows) ==
    \E r \in Refs : rows[r] # Absent /\ entries[r] \notin {Absent, rows[r]}

\* Mutant: the published refs stay after a commit.
InvalidatedOwnersNot(p, live) == MaintainedOwners(p, live)

\* Maintenance, then the owner's own published refs become null.
InvalidatedOwners(p, live) ==
    [MaintainedOwners(p, live) EXCEPT ![p].reachable = Unpublished]

\* The staged refs count among the caller's roots until the lease commits
\* and, dispatched to its state, from then on.
CommitTxn(p) ==
    /\ Granted(p, "commit")
    /\ LET l == Head(queue[p]).lease
           live == grant[p]
       IN /\ LeaseValid(p, l)
          /\ ~Conflicting(staged[l])
          /\ ownerMeta' = InvalidatedOwners(p, live)
          /\ leaseMeta' = [MaintainedLeases(p, live) EXCEPT ![l] = NoRecord]
          /\ staged' = [MaintainedRows(p, live) EXCEPT ![l] = NoRows]
          /\ entries' = Merged(staged[l])
          /\ phase' = [phase EXCEPT ![l] = "ended"]
          /\ leaseRefs' = [leaseRefs EXCEPT ![l] = {}]
          /\ roots' = [roots EXCEPT ![p] = @ \cup leaseRefs[l]]
          /\ verified' = [verified EXCEPT ![p] = @ \cup leaseRefs[l]]
    /\ Settle(p)

RollbackTxn(p) ==
    /\ Granted(p, "rollback")
    /\ LET l == Head(queue[p]).lease
           live == grant[p]
       IN /\ LeaseValid(p, l)
          /\ ownerMeta' = MaintainedOwners(p, live)
          /\ leaseMeta' = [MaintainedLeases(p, live) EXCEPT ![l] = NoRecord]
          /\ staged' = [MaintainedRows(p, live) EXCEPT ![l] = NoRows]
          /\ phase' = [phase EXCEPT ![l] = "ended"]
          /\ leaseRefs' = [leaseRefs EXCEPT ![l] = {}]
    /\ Settle(p)
    /\ UNCHANGED <<entries, roots, verified>>

GetTxn(p) ==
    /\ Granted(p, "get")
    /\ LET r == Head(queue[p]).ref
           live == grant[p]
       IN /\ ownerMeta' = MaintainedOwners(p, live)
          /\ leaseMeta' = MaintainedLeases(p, live)
          /\ staged' = MaintainedRows(p, live)
          /\ verified' = IF entries[r] # Absent /\ r \in roots[p]
                         THEN [verified EXCEPT ![p] = @ \cup {r}]
                         ELSE verified
    /\ Settle(p)
    /\ UNCHANGED <<entries, phase, leaseRefs, roots>>

\* Publishes the caller's refs; deletes what nobody reaches unless an owner
\* is unheard from or the saved workspaces cannot be read.
CollectTxn(p) ==
    /\ Granted(p, "collect")
    /\ LET live == grant[p]
           refs == Head(queue[p]).refs
           om == [MaintainedOwners(p, live) EXCEPT ![p].reachable = refs]
           lm == MaintainedLeases(p, live)
           owners == ActiveOwners(p, live, om, lm)
       IN /\ ownerMeta' = om
          /\ leaseMeta' = lm
          /\ staged' = MaintainedRows(p, live)
          /\ \/ /\ Blocked(om, owners) \/ "storage" \in Faults
                /\ entries' = entries
             \/ /\ ~Blocked(om, owners)
                /\ entries' = [r \in Refs |-> IF r \in Kept(om, owners)
                                              THEN entries[r] ELSE Absent]
    /\ Settle(p)
    /\ UNCHANGED <<phase, leaseRefs, roots, verified>>

\* The lease of the operation is gone from the database: the transaction is
\* aborted and the lease object becomes terminal.
StaleTxn(p) ==
    /\ \E op \in {"put", "leaseGet", "commit", "rollback"} : Granted(p, op)
    /\ LET l == Head(queue[p]).lease
       IN /\ ~LeaseValid(p, l)
          /\ phase' = [phase EXCEPT ![l] = "ended"]
          /\ leaseRefs' = [leaseRefs EXCEPT ![l] = {}]
    /\ Settle(p)
    /\ UNCHANGED <<dbVars, roots, verified>>

\* The first operation would give a ref a content other than the one it has.
HeadConflicts(p) ==
    LET req == Head(queue[p])
    IN \/ /\ req.op = "put"
          /\ LeaseValid(p, req.lease)
          /\ staged[req.lease][req.ref] \notin {Absent, req.payload}
       \/ /\ req.op = "commit"
          /\ LeaseValid(p, req.lease)
          /\ Conflicting(staged[req.lease])

\* The transaction fails, by a conflict of contents or in the database
\* itself, and is aborted.  A failed begin leaves no lease behind.
AbortTxn(p) ==
    /\ grant[p] # NotGranted
    /\ "abort" \in Faults \/ HeadConflicts(p)
    /\ LET req == Head(queue[p])
       IN IF req.op \in {"get", "collect"} THEN phase' = phase
          ELSE phase' = [phase EXCEPT ![req.lease] =
                            IF req.op = "begin" THEN "ended" ELSE "open"]
    /\ Settle(p)
    /\ UNCHANGED <<dbVars, leaseRefs, roots, verified>>

Txn(p) ==
    \/ BeginTxn(p) \/ PutTxn(p) \/ LeaseGetTxn(p) \/ CommitTxn(p)
    \/ RollbackTxn(p) \/ GetTxn(p) \/ CollectTxn(p) \/ StaleTxn(p) \/ AbortTxn(p)

(***************************************************************************)
(* Heartbeats renew the owner's record and those of its leases.            *)
(***************************************************************************)
Heartbeat(p) ==
    /\ status[p] = "active"
    /\ p \in locks
    /\ Uncontended
    /\ ownerMeta' = [ownerMeta EXCEPT ![p] = RenewedOwner(p)]
    /\ leaseMeta' = [l \in Leases |->
                        IF OwnLease(p, l) THEN [leaseMeta[l] EXCEPT !.fresh = TRUE]
                        ELSE leaseMeta[l]]
    /\ UNCHANGED <<entries, staged, locks, status, queue, grant, leaseVars,
                   spaceVars, wiped>>

\* Time passes: a record reaches its expiry time.
AgeOwner(q) ==
    /\ ownerMeta[q] # NoRecord
    /\ ownerMeta[q].fresh
    /\ ownerMeta' = [ownerMeta EXCEPT ![q].fresh = FALSE]
    /\ UNCHANGED <<entries, staged, leaseMeta, locks, status, queue, grant,
                   leaseVars, spaceVars, wiped>>

AgeLease(l) ==
    /\ leaseMeta[l] # NoRecord
    /\ leaseMeta[l].fresh
    /\ leaseMeta' = [leaseMeta EXCEPT ![l].fresh = FALSE]
    /\ UNCHANGED <<entries, staged, ownerMeta, locks, status, queue, grant,
                   leaseVars, spaceVars, wiped>>

(***************************************************************************)
(* The memory of an owner is lost when its tab goes.                       *)
(***************************************************************************)
Forget(p) ==
    /\ phase' = [l \in Leases |-> IF leaseOwner[l] = p THEN "ended" ELSE phase[l]]
    /\ leaseRefs' = [l \in Leases |-> IF leaseOwner[l] = p THEN {} ELSE leaseRefs[l]]
    /\ roots' = [roots EXCEPT ![p] = {}]
    /\ verified' = [verified EXCEPT ![p] = {}]
    /\ base' = [base EXCEPT ![p] = {}]
    /\ UNCHANGED <<leaseOwner, persisted>>

(***************************************************************************)
(* Disposal: admission closes, admitted operations settle, the owner's     *)
(* records and staged rows are removed, the liveness lock is released.     *)
(***************************************************************************)
BeginDispose(p) ==
    /\ status[p] = "active"
    /\ status' = [status EXCEPT ![p] = "disposing"]
    /\ UNCHANGED <<dbVars, locks, queue, grant, leaseVars, spaceVars, wiped>>

OwnLeases(p) == {l \in Leases : OwnLease(p, l)}

\* Mutant: disposal does not wait for the operations already admitted.
DrainedAlways(p) == status[p] = "disposing"

\* Mutant: disposal waits for the owner's open leases to end.
DrainedOfLeases(p) ==
    queue[p] = <<>> /\ \A l \in Leases : leaseOwner[l] = p => phase[l] = "ended"

Drained(p) == queue[p] = <<>>

CleanupTxn(p) ==
    /\ status[p] = "disposing"
    /\ Drained(p)
    /\ Uncontended
    /\ staged' = [l \in Leases |-> IF l \in OwnLeases(p) THEN NoRows ELSE staged[l]]
    /\ leaseMeta' = [l \in Leases |-> IF l \in OwnLeases(p) THEN NoRecord
                                      ELSE leaseMeta[l]]
    /\ ownerMeta' = [ownerMeta EXCEPT ![p] = NoRecord]
    /\ status' = [status EXCEPT ![p] = "cleaned"]
    /\ Forget(p)
    /\ UNCHANGED <<entries, locks, queue, grant, wiped>>

\* The removal fails; the lock is released all the same.
CleanupFails(p) ==
    /\ "cleanup" \in Faults
    /\ status[p] = "disposing"
    /\ Drained(p)
    /\ Uncontended
    /\ status' = [status EXCEPT ![p] = "abandoned"]
    /\ Forget(p)
    /\ UNCHANGED <<dbVars, locks, queue, grant, wiped>>

Release(p) ==
    /\ \/ /\ status[p] = "cleaned"
          /\ status' = [status EXCEPT ![p] = "closed"]
       \/ /\ status[p] = "abandoned"
          /\ p \in locks
          /\ status' = status
    /\ locks' = locks \ {p}
    /\ UNCHANGED <<dbVars, queue, grant, leaseVars, spaceVars, wiped>>

(***************************************************************************)
(* The environment: a tab dies, and the browser releases its locks; the    *)
(* user clears the database.                                               *)
(***************************************************************************)
Crash(p) ==
    /\ "crash" \in Faults
    /\ status[p] \in Running
    /\ status' = [status EXCEPT ![p] = "crashed"]
    /\ locks' = locks \ {p}
    /\ queue' = [queue EXCEPT ![p] = <<>>]
    /\ grant' = [grant EXCEPT ![p] = NotGranted]
    /\ Forget(p)
    /\ UNCHANGED <<dbVars, wiped>>

Wipe ==
    /\ "wipe" \in Faults
    /\ ~wiped
    /\ entries' = NoRows
    /\ staged' = [l \in Leases |-> NoRows]
    /\ leaseMeta' = [l \in Leases |-> NoRecord]
    /\ ownerMeta' = [p \in Owners |-> NoRecord]
    /\ verified' = [p \in Owners |-> {}]
    /\ wiped' = TRUE
    /\ UNCHANGED <<locks, status, queue, grant, leaseVars, roots, persisted, base>>

Client(p) ==
    \/ Open(p) \/ Persist(p) \/ RequestCollect(p) \/ BeginDispose(p)
    \/ \E r \in Refs : Drop(p, r) \/ RequestGet(p, r)
    \/ \E l \in Leases :
          \/ RequestBegin(p, l) \/ RequestCommit(p, l) \/ RequestRollback(p, l)
          \/ \E r \in Refs : RequestLeaseGet(p, l, r)
          \/ \E r \in Refs, c \in Payloads : RequestPut(p, l, r, c)

Repository(p) == Grant(p) \/ Txn(p) \/ CleanupTxn(p) \/ CleanupFails(p) \/ Release(p)

Environment ==
    \/ \E p \in Owners : Heartbeat(p) \/ AgeOwner(p) \/ Crash(p)
    \/ \E l \in Leases : AgeLease(l)
    \/ Wipe

Next == (\E p \in Owners : Client(p) \/ Repository(p)) \/ Environment

Spec == Init /\ [][Next]_vars

(***************************************************************************)
(* Web Locks grants requests in order, a granted operation runs, and       *)
(* disposal proceeds.                                                      *)
(***************************************************************************)
Fairness ==
    \A p \in Owners :
        /\ SF_vars(Grant(p))
        /\ WF_vars(Txn(p))
        /\ SF_vars(CleanupTxn(p) \/ CleanupFails(p))
        /\ WF_vars(Release(p))

FairSpec == Spec /\ Fairness

-----------------------------------------------------------------------------
(***************************************************************************)
(* Properties.                                                             *)
(***************************************************************************)
TypeOK ==
    /\ entries \in [Refs -> Payloads \cup {Absent}]
    /\ staged \in [Leases -> [Refs -> Payloads \cup {Absent}]]
    /\ leaseMeta \in [Leases -> LeaseRecord \cup {NoRecord}]
    /\ ownerMeta \in [Owners -> OwnerRecord \cup {NoRecord}]
    /\ locks \in SUBSET Owners
    /\ status \in [Owners -> {"new", "active", "disposing", "cleaned", "closed",
                              "abandoned", "crashed"}]
    /\ queue \in [Owners -> Seq(Requests)]
    /\ grant \in [Owners -> (SUBSET Owners) \cup {Unknown, NotGranted}]
    /\ phase \in [Leases -> {"unused", "opening", "open", "busy", "ended"}]
    /\ leaseOwner \in [Leases -> Owners \cup {NoOwner}]
    /\ leaseRefs \in [Leases -> SUBSET Refs]
    /\ roots \in [Owners -> SUBSET Refs]
    /\ verified \in [Owners -> SUBSET Refs]
    /\ persisted \in SUBSET Refs
    /\ base \in [Owners -> SUBSET Refs]
    /\ wiped \in BOOLEAN

Present(S) == \A r \in S : entries[r] # Absent

(***************************************************************************)
(* No collection, by any tab and however late it runs, deletes a resource  *)
(* that a running tab has committed or read and still reaches, nor one     *)
(* that such a resource depends on (collect, publishAndUnion...).          *)
(***************************************************************************)
HeldResourcesPresent ==
    \A p \in Owners :
        status[p] \in Running => Present(Reachable(entries, verified[p]))

(***************************************************************************)
(* The saved workspace never names a resource the repository has lost,     *)
(* whoever saved it and whatever happened to that tab since: collect reads *)
(* the saved refs, and the checkpoint keeps a tab from saving over what    *)
(* another one saved.                                                      *)
(***************************************************************************)
SavedResourcesPresent ==
    ~wiped => Present(Reachable(entries, persisted))

(***************************************************************************)
(* While a tab runs, the maintenance of no other tab reaps its leases or   *)
(* their rows, however long it has been suspended: an open lease holds     *)
(* exactly the rows its object believes staged.                            *)
(***************************************************************************)
OpenLeaseIntact ==
    ~wiped => \A l \in Leases :
        phase[l] \in {"open", "busy"} /\ status[leaseOwner[l]] \in Running =>
            /\ OwnLease(leaseOwner[l], l)
            /\ {r \in Refs : staged[l][r] # Absent} = leaseRefs[l]

(***************************************************************************)
(* No staged row outlives its lease record: every row can still be reaped. *)
(***************************************************************************)
NoOrphanRows ==
    \A l \in Leases : leaseMeta[l] = NoRecord => staged[l] = NoRows

(***************************************************************************)
(* A disposal that succeeded leaves nothing of the owner in the database:  *)
(* no operation or heartbeat of it runs afterwards (lifecycle dispose).    *)
(***************************************************************************)
DisposalIsFinal ==
    \A p \in Owners : status[p] \in {"cleaned", "closed"} =>
        ownerMeta[p] = NoRecord /\ \A l \in Leases : ~OwnLease(p, l)

(***************************************************************************)
(* A lease publishes everything or nothing, and what it publishes is what  *)
(* it staged: entries appear only in the step that ends their lease, after *)
(* a successful commit every ref of the lease holds the content staged for *)
(* it, and an entry that stays keeps its content (commitLease).            *)
(***************************************************************************)
AppearsByCommit ==
    \A r \in Refs : entries[r] = Absent /\ entries'[r] # Absent =>
        \E l \in Leases : r \in leaseRefs[l] /\ phase'[l] = "ended"

KeepsContent ==
    \A r \in Refs : entries[r] # Absent => entries'[r] \in {entries[r], Absent}

Commits(p, l) ==
    /\ leaseOwner[l] = p
    /\ phase[l] = "busy" /\ phase'[l] = "ended"
    /\ status'[p] \in Running
    /\ Head(queue[p]) = [op |-> "commit", lease |-> l]
    /\ OwnLease(p, l)

CommitsWhole ==
    \A p \in Owners, l \in Leases : Commits(p, l) =>
        \A r \in leaseRefs[l] : entries'[r] = staged[l][r] /\ entries'[r] # Absent

CommitIsAtomic == [][AppearsByCommit /\ KeepsContent /\ CommitsWhole]_vars

(***************************************************************************)
(* The repository implements AssetStore: what running tabs have verified   *)
(* and what is saved is held; entries appear in whole batches with their   *)
(* dependencies and only entries that nothing held needs are reclaimed.    *)
(***************************************************************************)
Held == persisted \cup UNION {verified[p] : p \in {q \in Owners : status[q] \in Running}}

Store == INSTANCE AssetStore WITH held <- Held

ImplementsStore == Store!Spec

(***************************************************************************)
(* Disposal waits for what was admitted and for the coordination lock, and *)
(* still completes.                                                        *)
(***************************************************************************)
DisposalCompletes ==
    \A p \in Owners : status[p] = "disposing" ~>
        status[p] \in {"closed", "crashed"} \/ (status[p] = "abandoned" /\ p \notin locks)
=============================================================================
