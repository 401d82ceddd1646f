----------------------- MODULE AssetRepositoryProofs -----------------------
(***************************************************************************)
(* Proofs about AssetRepository for every number of owners, leases, refs   *)
(* and payloads, with and without Web Locks, under every failure.          *)
(***************************************************************************)
EXTENDS AssetRepository, TLAPS

(***************************************************************************)
(* Requests: the fields that every kind of request has.                    *)
(***************************************************************************)
LeaseOps == {"begin", "put", "leaseGet", "commit", "rollback"}

LEMMA RequestFields ==
    ASSUME NEW req \in Requests
    PROVE  /\ req.op \in LeaseOps \cup {"get", "collect"}
           /\ req.op \in LeaseOps => req.lease \in Leases
           /\ req.op \in {"put", "leaseGet", "get"} => req.ref \in Refs
           /\ req.op = "put" => req.payload \in Payloads
           /\ req.op = "collect" => req.refs \in SUBSET Refs
  BY DEF Requests, LeaseOps

(***************************************************************************)
(* The operation that holds the coordination lock is still queued, so its  *)
(* request is the first of its owner's queue.                              *)
(***************************************************************************)
GrantsHaveWork == \A p \in Owners : grant[p] # NotGranted => queue[p] # <<>>

LEMMA HeadTyping ==
    ASSUME TypeOK, GrantsHaveWork, NEW p \in Owners, grant[p] # NotGranted
    PROVE  /\ queue[p] \in Seq(Requests)
           /\ queue[p] # <<>>
           /\ Head(queue[p]) \in Requests
           /\ Tail(queue[p]) \in Seq(Requests)
  BY DEF TypeOK, GrantsHaveWork

(***************************************************************************)
(* Maintenance keeps the types of the records.                             *)
(***************************************************************************)
LEMMA MaintenanceTyping ==
    ASSUME TypeOK, NEW p \in Owners, NEW live
    PROVE  /\ MaintainedOwners(p, live) \in [Owners -> OwnerRecord \cup {NoRecord}]
           /\ MaintainedOwners(p, live)[p] \in OwnerRecord
           /\ MaintainedLeases(p, live) \in [Leases -> LeaseRecord \cup {NoRecord}]
           /\ MaintainedRows(p, live) \in [Leases -> [Refs -> Payloads \cup {Absent}]]
<1>1. NoRows \in [Refs -> Payloads \cup {Absent}]
  BY DEF NoRows
<1>2. RenewedOwner(p) \in OwnerRecord
  BY SentinelAssumption DEF TypeOK, RenewedOwner, OwnerRecord
<1>3. MaintainedOwners(p, live) \in [Owners -> OwnerRecord \cup {NoRecord}]
  BY <1>2 DEF TypeOK, MaintainedOwners
<1>4. MaintainedOwners(p, live)[p] \in OwnerRecord
  BY <1>2 DEF MaintainedOwners
<1>5. MaintainedLeases(p, live) \in [Leases -> LeaseRecord \cup {NoRecord}]
  BY DEF TypeOK, MaintainedLeases
<1>6. MaintainedRows(p, live) \in [Leases -> [Refs -> Payloads \cup {Absent}]]
  BY <1>1 DEF TypeOK, MaintainedRows
<1>. QED
  BY <1>3, <1>4, <1>5, <1>6

(***************************************************************************)
(* Every variable keeps its type, and the coordination lock is held by an  *)
(* owner with a queued operation only.                                     *)
(***************************************************************************)
Typed == TypeOK /\ GrantsHaveWork

LEMMA TypedInit == Init => Typed
<1>. SUFFICES ASSUME Init PROVE Typed
  OBVIOUS
<1>1. NoRows \in [Refs -> Payloads \cup {Absent}]
  BY DEF NoRows
<1>2. queue \in [Owners -> Seq(Requests)]
  BY DEF Init
<1>3. GrantsHaveWork
  BY DEF Init, GrantsHaveWork
<1>. QED
  BY <1>1, <1>2, <1>3 DEF Init, Typed, TypeOK

LEMMA AdmitTyping ==
    ASSUME Typed, NEW p \in Owners, NEW req \in Requests, Admit(p, req)
    PROVE  /\ queue' \in [Owners -> Seq(Requests)]
           /\ \A q \in Owners : queue[q] # <<>> => queue'[q] # <<>>
<1>1. queue[p] \in Seq(Requests)
  BY DEF Typed, TypeOK
<1>2. Append(queue[p], req) \in Seq(Requests)
  BY <1>1
<1>3. Len(Append(queue[p], req)) = Len(queue[p]) + 1
  BY <1>1
<1>4. Append(queue[p], req) # <<>>
  BY <1>1, <1>3
<1>. QED
  BY <1>2, <1>4 DEF Admit, Typed, TypeOK

LEMMA SettleTyping ==
    ASSUME Typed, NEW p \in Owners, grant[p] # NotGranted, Settle(p)
    PROVE  /\ queue' \in [Owners -> Seq(Requests)]
           /\ grant' \in [Owners -> (SUBSET Owners) \cup {Unknown, NotGranted}]
           /\ GrantsHaveWork'
           /\ locks' \in SUBSET Owners
           /\ status' = status
           /\ leaseOwner' = leaseOwner
           /\ persisted' = persisted
           /\ base' = base
           /\ wiped' = wiped
<1>1. Tail(queue[p]) \in Seq(Requests)
  BY HeadTyping DEF Typed
<1>2. queue' \in [Owners -> Seq(Requests)]
  BY <1>1 DEF Typed, TypeOK, Settle
<1>3. GrantsHaveWork'
  BY DEF Typed, TypeOK, Settle, GrantsHaveWork
<1>. QED
  BY <1>2, <1>3 DEF Typed, TypeOK, Settle

LEMMA TypedStep == Typed /\ [Next]_vars => Typed'
<1>. SUFFICES ASSUME Typed, [Next]_vars PROVE Typed'
  OBVIOUS
<1>. USE DEF Typed
<1>1. CASE UNCHANGED vars
  BY <1>1 DEF vars, dbVars, leaseVars, spaceVars, TypeOK, GrantsHaveWork
<1>2. ASSUME NEW p \in Owners, Client(p) PROVE Typed'
  <2>. USE DEF dbVars, leaseVars, spaceVars
  <2>1. CASE Open(p)
    BY <2>1 DEF Open, TypeOK, GrantsHaveWork
  <2>2. CASE Persist(p)
    BY <2>2 DEF Persist, TypeOK, GrantsHaveWork
  <2>3. CASE RequestCollect(p)
    <3>1. [op |-> "collect", refs |-> roots[p] \cup StagedBy(p)] \in Requests
      BY DEF TypeOK, StagedBy, Requests
    <3>. QED
      BY <2>3, <3>1, AdmitTyping DEF RequestCollect, TypeOK, GrantsHaveWork
  <2>4. CASE BeginDispose(p)
    BY <2>4 DEF BeginDispose, TypeOK, GrantsHaveWork
  <2>5. ASSUME NEW r \in Refs, Drop(p, r) PROVE Typed'
    BY <2>5 DEF Drop, TypeOK, GrantsHaveWork
  <2>6. ASSUME NEW r \in Refs, RequestGet(p, r) PROVE Typed'
    <3>1. [op |-> "get", ref |-> r] \in Requests
      BY DEF Requests
    <3>. QED
      BY <2>6, <3>1, AdmitTyping DEF RequestGet, TypeOK, GrantsHaveWork
  <2>7. ASSUME NEW l \in Leases, RequestBegin(p, l) PROVE Typed'
    <3>1. [op |-> "begin", lease |-> l] \in Requests
      BY DEF Requests
    <3>. QED
      BY <2>7, <3>1, AdmitTyping DEF RequestBegin, TypeOK, GrantsHaveWork
  <2>8. ASSUME NEW l \in Leases, NEW req \in Requests, AdmitOnLease(p, l, req)
        PROVE  Typed'
    BY <2>8, AdmitTyping DEF AdmitOnLease, TypeOK, GrantsHaveWork
  <2>9. ASSUME NEW l \in Leases, RequestCommit(p, l) \/ RequestRollback(p, l)
        PROVE  Typed'
    BY <2>8, <2>9 DEF RequestCommit, RequestRollback, Requests
  <2>10. ASSUME NEW l \in Leases, NEW r \in Refs, RequestLeaseGet(p, l, r)
         PROVE  Typed'
    BY <2>8, <2>10 DEF RequestLeaseGet, Requests
  <2>11. ASSUME NEW l \in Leases, NEW r \in Refs, NEW c \in Payloads,
                RequestPut(p, l, r, c)
         PROVE  Typed'
    BY <2>8, <2>11 DEF RequestPut, Requests
  <2>. QED
    BY <1>2, <2>1, <2>2, <2>3, <2>4, <2>5, <2>6, <2>7, <2>9, <2>10, <2>11 DEF Client
<1>3. ASSUME NEW p \in Owners, Txn(p) PROVE Typed'
  <2>1. grant[p] # NotGranted /\ Settle(p)
    BY <1>3 DEF Txn, Granted, BeginTxn, PutTxn, LeaseGetTxn, CommitTxn, RollbackTxn,
                GetTxn, CollectTxn, StaleTxn, AbortTxn
  <2>2. Head(queue[p]) \in Requests
    BY <2>1, HeadTyping
  <2>. DEFINE req == Head(queue[p])
              live == grant[p]
  <2>3. /\ req.op \in LeaseOps => req.lease \in Leases
        /\ req.op \in {"put", "leaseGet", "get"} => req.ref \in Refs
        /\ req.op = "put" => req.payload \in Payloads
        /\ req.op = "collect" => req.refs \in SUBSET Refs
    BY <2>2, RequestFields
  <2>4. /\ MaintainedOwners(p, live) \in [Owners -> OwnerRecord \cup {NoRecord}]
        /\ MaintainedOwners(p, live)[p] \in OwnerRecord
        /\ MaintainedLeases(p, live) \in [Leases -> LeaseRecord \cup {NoRecord}]
        /\ MaintainedRows(p, live) \in [Leases -> [Refs -> Payloads \cup {Absent}]]
    BY MaintenanceTyping
  <2>5. ASSUME NEW l \in Leases
        PROVE  RenewedLeases(p, live, l) \in [Leases -> LeaseRecord \cup {NoRecord}]
    BY <2>4 DEF RenewedLeases, LeaseRecord
  <2>6. NoRows \in [Refs -> Payloads \cup {Absent}]
    BY DEF NoRows
  <2>7. SUFFICES /\ entries' \in [Refs -> Payloads \cup {Absent}]
                 /\ staged' \in [Leases -> [Refs -> Payloads \cup {Absent}]]
                 /\ leaseMeta' \in [Leases -> LeaseRecord \cup {NoRecord}]
                 /\ ownerMeta' \in [Owners -> OwnerRecord \cup {NoRecord}]
                 /\ phase' \in [Leases -> {"unused", "opening", "open", "busy", "ended"}]
                 /\ leaseRefs' \in [Leases -> SUBSET Refs]
                 /\ roots' \in [Owners -> SUBSET Refs]
                 /\ verified' \in [Owners -> SUBSET Refs]
    BY <2>1, SettleTyping DEF TypeOK
  <2>8. CASE BeginTxn(p)
    BY <2>8, <2>3, <2>4, <2>5 DEF BeginTxn, Granted, LeaseOps, TypeOK
  <2>9. CASE PutTxn(p)
    BY <2>9, <2>3, <2>4, <2>5 DEF PutTxn, Granted, LeaseOps, TypeOK
  <2>10. CASE LeaseGetTxn(p)
    BY <2>10, <2>3, <2>4, <2>5 DEF LeaseGetTxn, Granted, LeaseOps, TypeOK
  <2>11. CASE CommitTxn(p)
    <3>1. InvalidatedOwners(p, live) \in [Owners -> OwnerRecord \cup {NoRecord}]
      BY <2>4 DEF InvalidatedOwners, OwnerRecord
    <3>2. Merged(staged[req.lease]) \in [Refs -> Payloads \cup {Absent}]
      BY <2>11, <2>3 DEF CommitTxn, Granted, LeaseOps, Merged, TypeOK
    <3>. QED
      BY <2>11, <2>3, <2>4, <2>6, <3>1, <3>2 DEF CommitTxn, Granted, LeaseOps, TypeOK
  <2>12. CASE RollbackTxn(p)
    BY <2>12, <2>3, <2>4, <2>6 DEF RollbackTxn, Granted, LeaseOps, TypeOK
  <2>13. CASE GetTxn(p)
    BY <2>13, <2>3, <2>4 DEF GetTxn, Granted, TypeOK
  <2>14. CASE CollectTxn(p)
    <3>1. [MaintainedOwners(p, live) EXCEPT ![p].reachable = req.refs]
             \in [Owners -> OwnerRecord \cup {NoRecord}]
      BY <2>14, <2>3, <2>4 DEF CollectTxn, Granted, OwnerRecord
    <3>2. entries' \in [Refs -> Payloads \cup {Absent}]
      BY <2>14 DEF CollectTxn, TypeOK
    <3>. QED
      BY <2>14, <2>4, <3>1, <3>2 DEF CollectTxn, TypeOK
  <2>15. CASE StaleTxn(p)
    BY <2>15, <2>3 DEF StaleTxn, Granted, LeaseOps, TypeOK, dbVars
  <2>16. CASE AbortTxn(p)
    BY <2>16, <2>2, <2>3, RequestFields DEF AbortTxn, LeaseOps, TypeOK, dbVars
  <2>. QED
    BY <1>3, <2>8, <2>9, <2>10, <2>11, <2>12, <2>13, <2>14, <2>15, <2>16 DEF Txn
<1>4. ASSUME NEW p \in Owners, Grant(p) PROVE Typed'
  BY <1>4 DEF Grant, Snapshots, TypeOK, GrantsHaveWork, dbVars, leaseVars, spaceVars
<1>5. ASSUME NEW p \in Owners, Forget(p)
      PROVE  /\ phase' \in [Leases -> {"unused", "opening", "open", "busy", "ended"}]
             /\ leaseRefs' \in [Leases -> SUBSET Refs]
             /\ roots' \in [Owners -> SUBSET Refs]
             /\ verified' \in [Owners -> SUBSET Refs]
             /\ base' \in [Owners -> SUBSET Refs]
             /\ leaseOwner' = leaseOwner
             /\ persisted' = persisted
  BY <1>5 DEF Forget, TypeOK
<1>6. ASSUME NEW p \in Owners, CleanupTxn(p) PROVE Typed'
  BY <1>5, <1>6 DEF CleanupTxn, TypeOK, GrantsHaveWork, NoRows
<1>7. ASSUME NEW p \in Owners, CleanupFails(p) PROVE Typed'
  BY <1>5, <1>7 DEF CleanupFails, TypeOK, GrantsHaveWork, dbVars
<1>8. ASSUME NEW p \in Owners, Release(p) PROVE Typed'
  BY <1>8 DEF Release, TypeOK, GrantsHaveWork, dbVars, leaseVars, spaceVars
<1>9. ASSUME NEW p \in Owners, Heartbeat(p) PROVE Typed'
  <2>1. RenewedOwner(p) \in OwnerRecord
    BY SentinelAssumption DEF TypeOK, RenewedOwner, OwnerRecord
  <2>2. ASSUME NEW l \in Leases, OwnLease(p, l)
        PROVE  [leaseMeta[l] EXCEPT !.fresh = TRUE] \in LeaseRecord
    <3>1. leaseMeta[l] \in LeaseRecord
      BY <2>2 DEF OwnLease, TypeOK
    <3>. QED
      BY <3>1 DEF LeaseRecord
  <2>3. leaseMeta' \in [Leases -> LeaseRecord \cup {NoRecord}]
    BY <1>9, <2>2 DEF Heartbeat, TypeOK
  <2>. QED
    BY <1>9, <2>1, <2>3 DEF Heartbeat, TypeOK, GrantsHaveWork, leaseVars, spaceVars
<1>10. ASSUME NEW p \in Owners, AgeOwner(p) PROVE Typed'
  BY <1>10 DEF AgeOwner, TypeOK, GrantsHaveWork, OwnerRecord, leaseVars, spaceVars
<1>11. ASSUME NEW l \in Leases, AgeLease(l) PROVE Typed'
  BY <1>11 DEF AgeLease, TypeOK, GrantsHaveWork, LeaseRecord, leaseVars, spaceVars
<1>12. ASSUME NEW p \in Owners, Crash(p) PROVE Typed'
  BY <1>5, <1>12 DEF Crash, TypeOK, GrantsHaveWork, dbVars
<1>13. CASE Wipe
  BY <1>13 DEF Wipe, TypeOK, GrantsHaveWork, NoRows, leaseVars
<1>. QED
  BY <1>1, <1>2, <1>3, <1>4, <1>6, <1>7, <1>8, <1>9, <1>10, <1>11, <1>12, <1>13
     DEF Next, Repository, Environment

(***************************************************************************)
(* Type correctness: the records of the database, the queues and the       *)
(* snapshots stay well formed whatever the tabs do and whatever fails.     *)
(***************************************************************************)
LEMMA AlwaysTyped == Spec => []Typed
  BY TypedInit, TypedStep, PTL DEF Spec

THEOREM TypeCorrect == Spec => []TypeOK
  BY AlwaysTyped, PTL DEF Typed

(***************************************************************************)
(* A lease record and the rows staged under it go together: maintenance    *)
(* reaps both, and a lease that ends takes its rows with it.               *)
(***************************************************************************)
LEMMA NoOrphanAfterMaintenance ==
    ASSUME NoOrphanRows, NEW p \in Owners, NEW live, NEW l \in Leases,
           MaintainedLeases(p, live)[l] = NoRecord
    PROVE  MaintainedRows(p, live)[l] = NoRows
<1>1. CASE leaseMeta[l] = NoRecord
  BY <1>1 DEF NoOrphanRows, MaintainedRows
<1>2. CASE leaseMeta[l] # NoRecord
  <2>1. ~LeaseKept(p, live, l)
    BY <1>2 DEF MaintainedLeases
  <2>. QED
    BY <1>2, <2>1 DEF MaintainedRows
<1>. QED
  BY <1>1, <1>2

LEMMA NoOrphanStep == Typed /\ NoOrphanRows /\ [Next]_vars => NoOrphanRows'
<1>. SUFFICES ASSUME Typed, NoOrphanRows, [Next]_vars,
                     NEW l \in Leases, leaseMeta'[l] = NoRecord
              PROVE  staged'[l] = NoRows
  BY DEF NoOrphanRows
<1>1. ASSUME leaseMeta' = leaseMeta, staged' = staged
      PROVE  staged'[l] = NoRows
  BY <1>1 DEF NoOrphanRows
<1>2. CASE UNCHANGED vars
  BY <1>1, <1>2 DEF vars, dbVars
<1>3. ASSUME NEW p \in Owners, Client(p) PROVE staged'[l] = NoRows
  BY <1>1, <1>3
     DEF Client, Open, Persist, RequestCollect, BeginDispose, Drop, RequestGet,
         RequestBegin, RequestCommit, RequestRollback, RequestLeaseGet, RequestPut,
         AdmitOnLease, dbVars
<1>4. ASSUME NEW p \in Owners, Txn(p) PROVE staged'[l] = NoRows
  <2>. DEFINE live == grant[p]
              k == Head(queue[p]).lease
  <2>1. MaintainedLeases(p, live)[l] = NoRecord => MaintainedRows(p, live)[l] = NoRows
    BY NoOrphanAfterMaintenance
  <2>2. grant[p] # NotGranted
    BY <1>4 DEF Txn, Granted, BeginTxn, PutTxn, LeaseGetTxn, CommitTxn, RollbackTxn,
                GetTxn, CollectTxn, StaleTxn, AbortTxn
  <2>3. Head(queue[p]).op \in LeaseOps => k \in Leases
    BY <2>2, HeadTyping, RequestFields DEF Typed
  <2>4. /\ MaintainedLeases(p, live) \in [Leases -> LeaseRecord \cup {NoRecord}]
        /\ MaintainedRows(p, live) \in [Leases -> [Refs -> Payloads \cup {Absent}]]
    BY MaintenanceTyping DEF Typed
  <2>5. ASSUME NEW j \in Leases, leaseMeta' = RenewedLeases(p, live, j)
        PROVE  l # j /\ MaintainedRows(p, live)[l] = NoRows
    <3>1. [owner |-> p, fresh |-> TRUE] \in LeaseRecord
      BY DEF LeaseRecord
    <3>2. [owner |-> p, fresh |-> TRUE] # NoRecord
      BY <3>1, SentinelAssumption
    <3>. QED
      BY <2>1, <2>4, <2>5, <3>2 DEF RenewedLeases
  <2>6. CASE BeginTxn(p)
    BY <2>3, <2>5, <2>6 DEF BeginTxn, Granted, LeaseOps
  <2>7. CASE PutTxn(p)
    BY <2>3, <2>4, <2>5, <2>7 DEF PutTxn, Granted, LeaseOps
  <2>8. CASE LeaseGetTxn(p)
    BY <2>3, <2>5, <2>8 DEF LeaseGetTxn, Granted, LeaseOps
  <2>9. CASE CommitTxn(p)
    BY <2>1, <2>3, <2>4, <2>9 DEF CommitTxn, Granted, LeaseOps
  <2>10. CASE RollbackTxn(p)
    BY <2>1, <2>3, <2>4, <2>10 DEF RollbackTxn, Granted, LeaseOps
  <2>11. CASE GetTxn(p)
    BY <2>1, <2>11 DEF GetTxn
  <2>12. CASE CollectTxn(p)
    BY <2>1, <2>12 DEF CollectTxn
  <2>13. CASE StaleTxn(p) \/ AbortTxn(p)
    BY <1>1, <2>13 DEF StaleTxn, AbortTxn, dbVars
  <2>. QED
    BY <1>4, <2>6, <2>7, <2>8, <2>9, <2>10, <2>11, <2>12, <2>13 DEF Txn
<1>5. ASSUME NEW p \in Owners, Grant(p) \/ CleanupFails(p) \/ Release(p) \/ Crash(p)
      PROVE  staged'[l] = NoRows
  BY <1>1, <1>5 DEF Grant, CleanupFails, Release, Crash, dbVars
<1>6. ASSUME NEW p \in Owners, CleanupTxn(p) PROVE staged'[l] = NoRows
  BY <1>6 DEF CleanupTxn, NoOrphanRows
<1>7. ASSUME NEW p \in Owners, Heartbeat(p) PROVE staged'[l] = NoRows
  <2>1. ASSUME OwnLease(p, l)
        PROVE  [leaseMeta[l] EXCEPT !.fresh = TRUE] \in LeaseRecord
    <3>1. leaseMeta[l] \in LeaseRecord
      BY <2>1 DEF OwnLease, Typed, TypeOK
    <3>. QED
      BY <3>1 DEF LeaseRecord
  <2>2. leaseMeta[l] = NoRecord
    BY <1>7, <2>1, SentinelAssumption DEF Heartbeat
  <2>. QED
    BY <1>7, <2>2 DEF Heartbeat, NoOrphanRows
<1>8. ASSUME NEW p \in Owners, AgeOwner(p) PROVE staged'[l] = NoRows
  BY <1>1, <1>8 DEF AgeOwner
<1>9. ASSUME NEW k \in Leases, AgeLease(k) PROVE staged'[l] = NoRows
  <2>1. leaseMeta[k] \in LeaseRecord
    BY <1>9 DEF AgeLease, Typed, TypeOK
  <2>2. [leaseMeta[k] EXCEPT !.fresh = FALSE] \in LeaseRecord
    BY <2>1 DEF LeaseRecord
  <2>3. leaseMeta[l] = NoRecord
    BY <1>9, <2>2, SentinelAssumption DEF AgeLease, Typed, TypeOK
  <2>. QED
    BY <1>9, <2>3 DEF AgeLease, NoOrphanRows
<1>10. CASE Wipe
  BY <1>10 DEF Wipe
<1>. QED
  BY <1>2, <1>3, <1>4, <1>5, <1>6, <1>7, <1>8, <1>9, <1>10
     DEF Next, Repository, Environment

(***************************************************************************)
(* No staged row is ever left without the lease record through which it    *)
(* can be reaped, whichever transactions abort and whichever tabs die.     *)
(***************************************************************************)
THEOREM RowsCanBeReaped == Spec => []NoOrphanRows
<1>1. Init => NoOrphanRows
  BY DEF Init, NoOrphanRows
<1>. QED
  BY <1>1, AlwaysTyped, NoOrphanStep, PTL DEF Spec

(***************************************************************************)
(* An owner that is not running has no admitted operation left: disposal   *)
(* waits for them and a tab that dies takes them along.  So nothing can    *)
(* put the owner's records back after a disposal removed them.             *)
(***************************************************************************)
IdleUnlessRunning == \A p \in Owners : status[p] \notin Running => queue[p] = <<>>

Settled == IdleUnlessRunning /\ DisposalIsFinal

LEMMA MaintenanceAddsNoRecord ==
    ASSUME Typed, NEW p \in Owners, NEW live, NEW q \in Owners, q # p
    PROVE  /\ ownerMeta[q] = NoRecord => MaintainedOwners(p, live)[q] = NoRecord
           /\ \A l \in Leases : ~OwnLease(q, l) =>
                 ~(/\ MaintainedLeases(p, live)[l] # NoRecord
                   /\ MaintainedLeases(p, live)[l].owner = q)
  BY DEF MaintainedOwners, MaintainedLeases, OwnLease

LEMMA SettledStep == Typed /\ Settled /\ [Next]_vars => Settled'
<1>. SUFFICES ASSUME Typed, Settled, [Next]_vars PROVE Settled'
  OBVIOUS
<1>. USE DEF Settled
<1>1. ASSUME ownerMeta' = ownerMeta, leaseMeta' = leaseMeta,
             \A p \in Owners : status'[p] \in {"cleaned", "closed"} =>
                               status[p] \in {"cleaned", "closed"}
      PROVE  DisposalIsFinal'
  BY <1>1 DEF DisposalIsFinal, OwnLease
<1>2. CASE UNCHANGED vars
  BY <1>2 DEF vars, dbVars, IdleUnlessRunning, DisposalIsFinal, OwnLease
<1>3. ASSUME NEW p \in Owners, Client(p) PROVE Settled'
  <2>1. CASE Open(p)
    BY <1>1, <2>1 DEF Open, dbVars, IdleUnlessRunning, Typed, TypeOK, Running
  <2>2. CASE Persist(p)
    BY <1>1, <2>2 DEF Persist, dbVars, IdleUnlessRunning
  <2>3. CASE BeginDispose(p)
    BY <1>1, <2>3 DEF BeginDispose, dbVars, IdleUnlessRunning, Typed, TypeOK, Running
  <2>4. ASSUME NEW r \in Refs, Drop(p, r) PROVE Settled'
    BY <1>1, <2>4 DEF Drop, dbVars, IdleUnlessRunning
  <2>5. ASSUME NEW req, Admit(p, req), status' = status, UNCHANGED dbVars
        PROVE  Settled'
    BY <1>1, <2>5 DEF Admit, dbVars, IdleUnlessRunning, Typed, TypeOK, Running
  <2>6. ASSUME NEW l \in Leases, NEW req, AdmitOnLease(p, l, req) PROVE Settled'
    BY <2>5, <2>6 DEF AdmitOnLease
  <2>. QED
    BY <1>3, <2>1, <2>2, <2>3, <2>4, <2>5, <2>6
       DEF Client, RequestCollect, RequestGet, RequestBegin, RequestCommit,
           RequestRollback, RequestLeaseGet, RequestPut
<1>4. ASSUME NEW p \in Owners, Txn(p) PROVE Settled'
  <2>. DEFINE live == grant[p]
              k == Head(queue[p]).lease
  <2>1. grant[p] # NotGranted /\ Settle(p)
    BY <1>4 DEF Txn, Granted, BeginTxn, PutTxn, LeaseGetTxn, CommitTxn, RollbackTxn,
                GetTxn, CollectTxn, StaleTxn, AbortTxn
  <2>2. status[p] \in Running
    BY <2>1, HeadTyping DEF IdleUnlessRunning, Typed
  <2>3. IdleUnlessRunning'
    BY <2>1, <2>2 DEF IdleUnlessRunning, Settle, Typed, TypeOK
  <2>4. Head(queue[p]).op \in LeaseOps => k \in Leases
    BY <2>1, HeadTyping, RequestFields DEF Typed
  <2>5. SUFFICES ASSUME NEW q \in Owners, status[q] \in {"cleaned", "closed"}
                 PROVE  ownerMeta'[q] = NoRecord /\ \A l \in Leases : ~OwnLease(q, l)'
    BY <2>1, <2>3 DEF DisposalIsFinal, Settle
  <2>6. q # p
    BY <2>2, <2>5 DEF Running
  <2>7. /\ MaintainedOwners(p, live)[q] = NoRecord
        /\ \A l \in Leases : ~(/\ MaintainedLeases(p, live)[l] # NoRecord
                                /\ MaintainedLeases(p, live)[l].owner = q)
    BY <2>5, <2>6, MaintenanceAddsNoRecord DEF DisposalIsFinal
  <2>8. /\ MaintainedOwners(p, live) \in [Owners -> OwnerRecord \cup {NoRecord}]
        /\ MaintainedLeases(p, live) \in [Leases -> LeaseRecord \cup {NoRecord}]
    BY MaintenanceTyping DEF Typed
  <2>9. ASSUME NEW j \in Leases, leaseMeta' = RenewedLeases(p, live, j)
        PROVE  \A l \in Leases : ~OwnLease(q, l)'
    BY <2>6, <2>7, <2>8, <2>9 DEF OwnLease, RenewedLeases
  <2>10. ASSUME NEW j \in Leases, leaseMeta' = [MaintainedLeases(p, live) EXCEPT ![j] = NoRecord]
         PROVE  \A l \in Leases : ~OwnLease(q, l)'
    BY <2>7, <2>8, <2>10 DEF OwnLease
  <2>11. ASSUME leaseMeta' = MaintainedLeases(p, live)
         PROVE  \A l \in Leases : ~OwnLease(q, l)'
    BY <2>7, <2>11 DEF OwnLease
  <2>12. CASE BeginTxn(p) \/ PutTxn(p) \/ LeaseGetTxn(p)
    BY <2>4, <2>7, <2>9, <2>12 DEF BeginTxn, PutTxn, LeaseGetTxn, Granted, LeaseOps
  <2>13. CASE CommitTxn(p)
    BY <2>4, <2>6, <2>7, <2>8, <2>10, <2>13 DEF CommitTxn, InvalidatedOwners, Granted, LeaseOps
  <2>14. CASE RollbackTxn(p)
    BY <2>4, <2>7, <2>10, <2>14 DEF RollbackTxn, Granted, LeaseOps
  <2>15. CASE GetTxn(p)
    BY <2>7, <2>11, <2>15 DEF GetTxn
  <2>16. CASE CollectTxn(p)
    BY <2>6, <2>7, <2>8, <2>11, <2>16 DEF CollectTxn
  <2>17. CASE StaleTxn(p) \/ AbortTxn(p)
    BY <2>5, <2>17 DEF StaleTxn, AbortTxn, dbVars, DisposalIsFinal, OwnLease
  <2>. QED
    BY <1>4, <2>12, <2>13, <2>14, <2>15, <2>16, <2>17 DEF Txn
<1>5. ASSUME NEW p \in Owners, Grant(p) PROVE Settled'
  BY <1>1, <1>5 DEF Grant, dbVars, IdleUnlessRunning
<1>6. ASSUME NEW p \in Owners, CleanupTxn(p) PROVE Settled'
  BY <1>6 DEF CleanupTxn, Drained, OwnLeases, OwnLease, IdleUnlessRunning,
              DisposalIsFinal, Typed, TypeOK
<1>7. ASSUME NEW p \in Owners, CleanupFails(p) PROVE Settled'
  BY <1>1, <1>7 DEF CleanupFails, Drained, dbVars, IdleUnlessRunning, Typed, TypeOK
<1>8. ASSUME NEW p \in Owners, Release(p) PROVE Settled'
  BY <1>1, <1>8 DEF Release, dbVars, IdleUnlessRunning, Running, Typed, TypeOK
<1>9. ASSUME NEW p \in Owners, Heartbeat(p) PROVE Settled'
  <2>1. ASSUME NEW q \in Owners, NEW l \in Leases PROVE OwnLease(q, l)' => OwnLease(q, l)
    BY <1>9 DEF Heartbeat, OwnLease
  <2>. QED
    BY <1>9, <2>1 DEF Heartbeat, IdleUnlessRunning, DisposalIsFinal, Typed, TypeOK
<1>10. ASSUME NEW p \in Owners, AgeOwner(p) PROVE Settled'
  BY <1>10 DEF AgeOwner, IdleUnlessRunning, DisposalIsFinal, OwnLease, Typed, TypeOK
<1>11. ASSUME NEW k \in Leases, AgeLease(k) PROVE Settled'
  <2>1. ASSUME NEW q \in Owners, NEW l \in Leases PROVE OwnLease(q, l)' => OwnLease(q, l)
    <3>1. leaseMeta[k] \in LeaseRecord
      BY <1>11 DEF AgeLease, Typed, TypeOK
    <3>2. [leaseMeta[k] EXCEPT !.fresh = FALSE].owner = leaseMeta[k].owner
      BY <3>1 DEF LeaseRecord
    <3>. QED
      BY <1>11, <3>2 DEF AgeLease, OwnLease, Typed, TypeOK
  <2>. QED
    BY <1>11, <2>1 DEF AgeLease, IdleUnlessRunning, DisposalIsFinal
<1>12. ASSUME NEW p \in Owners, Crash(p) PROVE Settled'
  BY <1>1, <1>12 DEF Crash, dbVars, IdleUnlessRunning, Running, Typed, TypeOK
<1>13. CASE Wipe
  BY <1>13 DEF Wipe, IdleUnlessRunning, DisposalIsFinal, OwnLease
<1>. QED
  BY <1>2, <1>3, <1>4, <1>5, <1>6, <1>7, <1>8, <1>9, <1>10, <1>11, <1>12, <1>13
     DEF Next, Repository, Environment

LEMMA AlwaysSettled == Spec => []Settled
<1>1. Init => Settled
  BY DEF Init, Settled, IdleUnlessRunning, DisposalIsFinal
<1>. QED
  BY <1>1, AlwaysTyped, SettledStep, PTL DEF Spec

(***************************************************************************)
(* After a successful disposal nothing of the owner is in the database and *)
(* nothing ever puts it back.                                              *)
(***************************************************************************)
THEOREM DisposalLeavesNothing == Spec => []DisposalIsFinal
  BY AlwaysSettled, PTL DEF Settled

LEMMA TxnSettles ==
    ASSUME NEW p \in Owners, Txn(p)
    PROVE  grant[p] # NotGranted /\ Settle(p)
  BY DEF Txn, Granted, BeginTxn, PutTxn, LeaseGetTxn, CommitTxn, RollbackTxn,
         GetTxn, CollectTxn, StaleTxn, AbortTxn

(***************************************************************************)
(* Who has been granted the coordination lock holds its liveness lock, and *)
(* its snapshot still names every holder: with Web Locks nobody else is    *)
(* granted meanwhile, so holders can only have become fewer.               *)
(***************************************************************************)
Locking ==
    /\ \A p \in Owners : grant[p] # NotGranted => p \in locks
    /\ \A p \in Owners : grant[p] \notin {NotGranted, Unknown} =>
          LocksAvailable /\ locks \subseteq grant[p]
    /\ LocksAvailable => \A p, q \in Owners :
          grant[p] # NotGranted /\ grant[q] # NotGranted => p = q

LEMMA LockingStep == Typed /\ Settled /\ Locking /\ [Next]_vars => Locking'
<1>. SUFFICES ASSUME Typed, Settled, Locking, [Next]_vars PROVE Locking'
  OBVIOUS
<1>1. ASSUME grant' = grant, locks' = locks PROVE Locking'
  BY <1>1 DEF Locking
<1>2. CASE UNCHANGED vars
  BY <1>1, <1>2 DEF vars
<1>3. ASSUME NEW p \in Owners, Client(p) PROVE Locking'
  BY <1>1, <1>3
     DEF Client, Open, Persist, RequestCollect, BeginDispose, Drop, RequestGet,
         RequestBegin, RequestCommit, RequestRollback, RequestLeaseGet, RequestPut,
         AdmitOnLease
<1>4. ASSUME NEW p \in Owners, Txn(p) PROVE Locking'
  <2>1. Settle(p)
    BY <1>4, TxnSettles
  <2>. QED
    BY <2>1 DEF Settle, Locking, Typed, TypeOK
<1>5. ASSUME NEW p \in Owners, Grant(p) PROVE Locking'
  <2>1. PICK live \in Snapshots(p) : grant' = [grant EXCEPT ![p] = live]
    BY <1>5 DEF Grant
  <2>2. locks' = locks \cup {p}
    BY <1>5 DEF Grant
  <2>3. live # Unknown => LocksAvailable /\ live = locks \cup {p}
    BY <2>1 DEF Snapshots
  <2>4. ASSUME NEW q \in Owners, q # p, grant[q] # NotGranted
        PROVE  ~LocksAvailable /\ grant[q] = Unknown
    BY <1>5, <2>4 DEF Grant, Uncontended, Locking
  <2>. QED
    BY <2>1, <2>2, <2>3, <2>4 DEF Locking, Typed, TypeOK
<1>6. ASSUME NEW p \in Owners, CleanupTxn(p) \/ CleanupFails(p) PROVE Locking'
  BY <1>1, <1>6 DEF CleanupTxn, CleanupFails
<1>7. ASSUME NEW p \in Owners, Release(p) PROVE Locking'
  <2>1. queue[p] = <<>>
    BY <1>7 DEF Release, Settled, IdleUnlessRunning, Running
  <2>2. grant[p] = NotGranted
    BY <2>1 DEF Typed, GrantsHaveWork
  <2>. QED
    BY <1>7, <2>2 DEF Release, Locking
<1>8. ASSUME NEW p \in Owners, Heartbeat(p) \/ AgeOwner(p) PROVE Locking'
  BY <1>1, <1>8 DEF Heartbeat, AgeOwner
<1>9. ASSUME NEW l \in Leases, AgeLease(l) PROVE Locking'
  BY <1>1, <1>9 DEF AgeLease
<1>10. ASSUME NEW p \in Owners, Crash(p) PROVE Locking'
  BY <1>10 DEF Crash, Locking, Typed, TypeOK
<1>11. CASE Wipe
  BY <1>1, <1>11 DEF Wipe
<1>. QED
  BY <1>2, <1>3, <1>4, <1>5, <1>6, <1>7, <1>8, <1>9, <1>10, <1>11
     DEF Next, Repository, Environment

(***************************************************************************)
(* A queued operation of a lease is its owner's and the only one: the      *)
(* lease is being opened, or busy with it.                                 *)
(***************************************************************************)
Claims(p, i, l) == queue[p][i].op \in LeaseOps /\ queue[p][i].lease = l

Claimed ==
    \A p \in Owners, l \in Leases : \A i \in DOMAIN queue[p] : Claims(p, i, l) =>
        /\ leaseOwner[l] = p
        /\ phase[l] = IF queue[p][i].op = "begin" THEN "opening" ELSE "busy"
        /\ \A j \in DOMAIN queue[p] : Claims(p, j, l) => i = j

LEMMA AdmitClaims ==
    ASSUME Typed, Claimed, NEW p \in Owners, NEW req \in Requests, Admit(p, req),
           \A l \in Leases : req.op \in LeaseOps /\ req.lease = l =>
               /\ phase[l] \notin {"opening", "busy"}
               /\ phase'[l] = IF req.op = "begin" THEN "opening" ELSE "busy"
               /\ leaseOwner'[l] = p,
           \A l \in Leases : ~(req.op \in LeaseOps /\ req.lease = l) =>
               phase'[l] = phase[l] /\ leaseOwner'[l] = leaseOwner[l]
    PROVE  Claimed'
<1>1. queue[p] \in Seq(Requests)
  BY DEF Typed, TypeOK
<1>2. /\ queue'[p] = Append(queue[p], req)
      /\ \A q \in Owners : q # p => queue'[q] = queue[q]
  BY DEF Admit, Typed, TypeOK
<1>3. /\ DOMAIN queue'[p] = DOMAIN queue[p] \cup {Len(queue[p]) + 1}
      /\ Len(queue[p]) + 1 \notin DOMAIN queue[p]
      /\ queue'[p][Len(queue[p]) + 1] = req
      /\ \A i \in DOMAIN queue[p] : queue'[p][i] = queue[p][i]
  BY <1>1, <1>2
<1>4. ASSUME NEW l \in Leases, req.op \in LeaseOps, req.lease = l,
             NEW q \in Owners, NEW i \in DOMAIN queue[q]
      PROVE  ~Claims(q, i, l)
  BY <1>4 DEF Claimed
<1>. SUFFICES ASSUME NEW q \in Owners, NEW l \in Leases, NEW i \in DOMAIN queue'[q],
                     Claims(q, i, l)'
              PROVE  /\ leaseOwner'[l] = q
                     /\ phase'[l] = IF queue'[q][i].op = "begin" THEN "opening" ELSE "busy"
                     /\ \A j \in DOMAIN queue'[q] : Claims(q, j, l)' => i = j
  BY DEF Claimed
<1>5. CASE req.op \in LeaseOps /\ req.lease = l
  <2>1. q = p /\ i = Len(queue[p]) + 1
    BY <1>2, <1>3, <1>4, <1>5 DEF Claims
  <2>2. \A j \in DOMAIN queue[p] : ~Claims(p, j, l)'
    BY <1>3, <1>4, <1>5 DEF Claims
  <2>. QED
    BY <1>3, <1>5, <2>1, <2>2
<1>6. CASE ~(req.op \in LeaseOps /\ req.lease = l)
  <2>1. i \in DOMAIN queue[q] /\ queue'[q][i] = queue[q][i]
    BY <1>2, <1>3, <1>6 DEF Claims
  <2>2. Claims(q, i, l)
    BY <2>1 DEF Claims
  <2>3. /\ leaseOwner[l] = q
        /\ phase[l] = IF queue[q][i].op = "begin" THEN "opening" ELSE "busy"
        /\ \A j \in DOMAIN queue[q] : Claims(q, j, l) => i = j
    BY <2>1, <2>2 DEF Claimed
  <2>4. ASSUME NEW j \in DOMAIN queue'[q], Claims(q, j, l)' PROVE i = j
    <3>1. j \in DOMAIN queue[q] /\ queue'[q][j] = queue[q][j]
      BY <1>2, <1>3, <1>6, <2>4 DEF Claims
    <3>. QED
      BY <2>3, <2>4, <3>1 DEF Claims
  <2>. QED
    BY <1>6, <2>1, <2>3, <2>4
<1>. QED
  BY <1>5, <1>6

LEMMA SettleClaims ==
    ASSUME Typed, Claimed, NEW p \in Owners, grant[p] # NotGranted, Settle(p),
           \A l \in Leases : ~(Head(queue[p]).op \in LeaseOps /\ Head(queue[p]).lease = l) =>
               phase'[l] = phase[l]
    PROVE  Claimed'
<1>1. queue[p] \in Seq(Requests) /\ queue[p] # <<>>
  BY HeadTyping DEF Typed
<1>2. /\ queue'[p] = Tail(queue[p])
      /\ \A q \in Owners : q # p => queue'[q] = queue[q]
  BY DEF Settle, Typed, TypeOK
<1>3. /\ 1 \in DOMAIN queue[p] /\ queue[p][1] = Head(queue[p])
      /\ \A i \in DOMAIN queue'[p] : /\ i + 1 \in DOMAIN queue[p] /\ i + 1 # 1
                                     /\ queue'[p][i] = queue[p][i + 1]
      /\ \A i, j \in DOMAIN queue'[p] : i + 1 = j + 1 => i = j
  BY <1>1, <1>2
<1>. SUFFICES ASSUME NEW q \in Owners, NEW l \in Leases, NEW i \in DOMAIN queue'[q],
                     Claims(q, i, l)'
              PROVE  /\ leaseOwner[l] = q
                     /\ phase'[l] = IF queue'[q][i].op = "begin" THEN "opening" ELSE "busy"
                     /\ \A j \in DOMAIN queue'[q] : Claims(q, j, l)' => i = j
  BY DEF Claimed, Settle
<1>4. CASE q = p
  <2>1. Claims(p, i + 1, l)
    BY <1>3, <1>4 DEF Claims
  <2>2. ~Claims(p, 1, l)
    BY <1>3, <1>4, <2>1 DEF Claimed
  <2>3. phase'[l] = phase[l]
    BY <1>3, <2>2 DEF Claims
  <2>4. ASSUME NEW j \in DOMAIN queue'[p], Claims(p, j, l)' PROVE i = j
    <3>1. Claims(p, j + 1, l)
      BY <1>3, <2>4 DEF Claims
    <3>2. i + 1 = j + 1
      BY <1>3, <1>4, <2>1, <2>4, <3>1 DEF Claimed
    <3>. QED
      BY <1>3, <1>4, <2>4, <3>2
  <2>. QED
    BY <1>3, <1>4, <2>1, <2>3, <2>4 DEF Claimed
<1>5. CASE q # p
  <2>1. Claims(q, i, l) /\ i \in DOMAIN queue[q]
    BY <1>2, <1>5 DEF Claims
  <2>2. ~Claims(p, 1, l)
    BY <1>3, <1>5, <2>1 DEF Claimed
  <2>3. phase'[l] = phase[l]
    BY <1>3, <2>2 DEF Claims
  <2>. QED
    BY <1>2, <1>5, <2>1, <2>3 DEF Claimed, Claims
<1>. QED
  BY <1>4, <1>5

(***************************************************************************)
(* What a transaction does to the leases: maintenance, and an outcome for  *)
(* the lease of its operation.                                             *)
(***************************************************************************)
Undisturbed(p, l) ==
    /\ phase'[l] = phase[l] /\ leaseRefs'[l] = leaseRefs[l]
    /\ \/ leaseMeta'[l] = leaseMeta[l] /\ staged'[l] = staged[l]
       \/ /\ leaseMeta'[l] = MaintainedLeases(p, grant[p])[l]
          /\ staged'[l] = MaintainedRows(p, grant[p])[l]

Renewed(p, l) ==
    /\ phase'[l] = "open"
    /\ leaseMeta'[l] = [owner |-> p, fresh |-> TRUE]
    /\ \/ /\ Head(queue[p]).op = "begin" \/ OwnLease(p, l)
          /\ staged'[l] = MaintainedRows(p, grant[p])[l]
          /\ leaseRefs'[l] = leaseRefs[l]
       \/ /\ Head(queue[p]).op = "put" /\ OwnLease(p, l)
          /\ LET req == Head(queue[p])
             IN  /\ staged'[l] = [MaintainedRows(p, grant[p])[l] EXCEPT ![req.ref] = req.payload]
                 /\ leaseRefs'[l] = leaseRefs[l] \cup {req.ref}

Ended(l) == phase'[l] = "ended" /\ leaseMeta'[l] \in {NoRecord, leaseMeta[l]}

Reopened(p, l) ==
    /\ Head(queue[p]).op # "begin" /\ phase'[l] = "open"
    /\ leaseMeta'[l] = leaseMeta[l] /\ staged'[l] = staged[l]
    /\ leaseRefs'[l] = leaseRefs[l]

LEMMA TxnEffect ==
    ASSUME Typed, NEW p \in Owners, Txn(p), NEW l \in Leases
    PROVE  /\ grant[p] # NotGranted /\ Settle(p)
           /\ Head(queue[p]) \in Requests
           /\ ~(Head(queue[p]).op \in LeaseOps /\ Head(queue[p]).lease = l) => Undisturbed(p, l)
           /\ Head(queue[p]).op \in LeaseOps /\ Head(queue[p]).lease = l =>
                 Renewed(p, l) \/ Ended(l) \/ Reopened(p, l)
<1>. DEFINE req == Head(queue[p])
<1>1. grant[p] # NotGranted /\ Settle(p)
  BY TxnSettles
<1>2. req \in Requests
  BY <1>1, HeadTyping DEF Typed
<1>3. /\ req.op \in LeaseOps => req.lease \in Leases
      /\ req.op = "put" => req.ref \in Refs /\ req.payload \in Payloads
  BY <1>2, RequestFields
<1>4. /\ MaintainedLeases(p, grant[p]) \in [Leases -> LeaseRecord \cup {NoRecord}]
      /\ MaintainedRows(p, grant[p]) \in [Leases -> [Refs -> Payloads \cup {Absent}]]
  BY MaintenanceTyping DEF Typed
<1>. USE DEF Typed, TypeOK, Granted, LeaseOps, Undisturbed, Renewed, Ended, Reopened
<1>5. CASE BeginTxn(p)
  BY <1>1, <1>2, <1>3, <1>4, <1>5 DEF BeginTxn, RenewedLeases
<1>6. CASE PutTxn(p)
  <2>1. req.op = "put" /\ req.lease \in Leases
    BY <1>3, <1>6 DEF PutTxn
  <2>2. CASE l # req.lease
    BY <1>1, <1>2, <1>4, <1>6, <2>1, <2>2 DEF PutTxn, RenewedLeases
  <2>3. CASE l = req.lease
    <3>1. /\ staged'[l] = [MaintainedRows(p, grant[p])[l] EXCEPT ![req.ref] = req.payload]
          /\ leaseRefs'[l] = leaseRefs[l] \cup {req.ref}
          /\ phase'[l] = "open" /\ OwnLease(p, l)
          /\ leaseMeta'[l] = [owner |-> p, fresh |-> TRUE]
      BY <1>4, <1>6, <2>1, <2>3 DEF PutTxn, RenewedLeases, LeaseValid
    <3>. QED
      BY <1>1, <1>2, <1>3, <2>1, <2>3, <3>1
  <2>. QED
    BY <2>2, <2>3
<1>7. CASE LeaseGetTxn(p)
  BY <1>1, <1>2, <1>3, <1>4, <1>7 DEF LeaseGetTxn, RenewedLeases, LeaseValid
<1>8. CASE CommitTxn(p)
  BY <1>1, <1>2, <1>3, <1>4, <1>8 DEF CommitTxn
<1>9. CASE RollbackTxn(p)
  BY <1>1, <1>2, <1>3, <1>4, <1>9 DEF RollbackTxn
<1>10. CASE GetTxn(p)
  BY <1>1, <1>2, <1>10 DEF GetTxn
<1>11. CASE CollectTxn(p)
  BY <1>1, <1>2, <1>11 DEF CollectTxn
<1>12. CASE StaleTxn(p)
  BY <1>1, <1>2, <1>3, <1>12 DEF StaleTxn, dbVars
<1>13. CASE AbortTxn(p)
  BY <1>1, <1>2, <1>3, <1>13, RequestFields DEF AbortTxn, dbVars
<1>. QED
  BY <1>5, <1>6, <1>7, <1>8, <1>9, <1>10, <1>11, <1>12, <1>13 DEF Txn

(***************************************************************************)
(* The lease objects: nothing is in the database before a lease is opened, *)
(* a record is its owner's, and the owner of an open lease runs and holds  *)
(* its liveness lock.                                                      *)
(***************************************************************************)
Form(l) ==
    /\ phase[l] \in {"unused", "opening"} => leaseMeta[l] = NoRecord /\ leaseRefs[l] = {}
    /\ leaseMeta[l] # NoRecord => leaseMeta[l].owner = leaseOwner[l]
    /\ phase[l] \in {"open", "busy"} => leaseOwner[l] \in locks
    /\ phase[l] \in {"opening", "open", "busy"} =>
          leaseOwner[l] \in Owners /\ status[leaseOwner[l]] \in Running

LeasesOwned == Claimed /\ \A l \in Leases : Form(l)

LEMMA HeadClaims ==
    ASSUME Typed, LeasesOwned, NEW p \in Owners, grant[p] # NotGranted,
           Head(queue[p]).op \in LeaseOps
    PROVE  LET l == Head(queue[p]).lease
           IN  /\ l \in Leases /\ leaseOwner[l] = p
               /\ phase[l] = IF Head(queue[p]).op = "begin" THEN "opening" ELSE "busy"
<1>1. /\ queue[p] \in Seq(Requests) /\ queue[p] # <<>>
      /\ Head(queue[p]) \in Requests
  BY HeadTyping DEF Typed
<1>2. 1 \in DOMAIN queue[p] /\ queue[p][1] = Head(queue[p])
  BY <1>1
<1>3. Head(queue[p]).lease \in Leases
  BY <1>1, RequestFields
<1>. QED
  BY <1>2, <1>3 DEF LeasesOwned, Claimed, Claims

LEMMA LeasesOwnedStep ==
    Typed /\ Settled /\ Locking /\ LeasesOwned /\ [Next]_vars => LeasesOwned'
<1>. SUFFICES ASSUME Typed, Settled, Locking, LeasesOwned, [Next]_vars PROVE LeasesOwned'
  OBVIOUS
<1>. USE DEF LeasesOwned
<1>1. ASSUME UNCHANGED <<queue, phase, leaseOwner>> PROVE Claimed'
  BY <1>1 DEF Claimed, Claims
<1>2. CASE UNCHANGED vars
  BY <1>1, <1>2 DEF vars, dbVars, leaseVars, Form
<1>3. ASSUME NEW p \in Owners, Client(p) PROVE LeasesOwned'
  <2>. USE DEF dbVars, leaseVars, spaceVars
  <2>1. CASE Open(p) \/ Persist(p) \/ BeginDispose(p) \/ \E r \in Refs : Drop(p, r)
    <3>1. \A q \in Owners : status[q] \in Running => status'[q] \in Running
      BY <2>1 DEF Open, Persist, BeginDispose, Drop, Running, Typed, TypeOK
    <3>. QED
      BY <1>1, <2>1, <3>1 DEF Open, Persist, BeginDispose, Drop, Form
  <2>2. CASE RequestCollect(p) \/ \E r \in Refs : RequestGet(p, r)
    <3>1. PICK req \in Requests : req.op \notin LeaseOps /\ Admit(p, req)
      <4>1. [op |-> "collect", refs |-> roots[p] \cup StagedBy(p)] \in Requests
        BY DEF Typed, TypeOK, StagedBy, Requests
      <4>2. \A r \in Refs : [op |-> "get", ref |-> r] \in Requests
        BY DEF Requests
      <4>. QED
        BY <2>2, <4>1, <4>2 DEF RequestCollect, RequestGet, LeaseOps
    <3>2. Claimed'
      BY <2>2, <3>1, AdmitClaims DEF RequestCollect, RequestGet
    <3>. QED
      BY <2>2, <3>2 DEF RequestCollect, RequestGet, Form
  <2>3. ASSUME NEW l \in Leases, RequestBegin(p, l) PROVE LeasesOwned'
    <3>. DEFINE req == [op |-> "begin", lease |-> l]
    <3>1. req \in Requests
      BY DEF Requests
    <3>2. /\ Admit(p, req) /\ phase[l] = "unused" /\ status[p] = "active"
          /\ phase'[l] = "opening" /\ leaseOwner'[l] = p
          /\ \A k \in Leases : k # l => phase'[k] = phase[k] /\ leaseOwner'[k] = leaseOwner[k]
      BY <2>3 DEF RequestBegin, Admit, Typed, TypeOK
    <3>3. Claimed'
      <4>. HIDE DEF req
      <4>1. req.op = "begin" /\ req.lease = l
        BY DEF req
      <4>2. \A k \in Leases : req.op \in LeaseOps /\ req.lease = k =>
               /\ phase[k] \notin {"opening", "busy"}
               /\ phase'[k] = IF req.op = "begin" THEN "opening" ELSE "busy"
               /\ leaseOwner'[k] = p
        BY <3>2, <4>1
      <4>3. \A k \in Leases : ~(req.op \in LeaseOps /\ req.lease = k) =>
               phase'[k] = phase[k] /\ leaseOwner'[k] = leaseOwner[k]
        BY <3>2, <4>1 DEF LeaseOps
      <4>. QED
        BY <3>1, <3>2, <4>2, <4>3, AdmitClaims
    <3>. QED
      BY <2>3, <3>2, <3>3 DEF RequestBegin, Form, Running
  <2>4. ASSUME NEW l \in Leases, NEW req \in Requests, AdmitOnLease(p, l, req),
               req.op \in LeaseOps \ {"begin"}, req.lease = l
        PROVE  LeasesOwned'
    <3>1. /\ phase[l] = "open" /\ leaseOwner[l] = p
          /\ phase' = [phase EXCEPT ![l] = "busy"] /\ leaseOwner' = leaseOwner
          /\ Admit(p, req)
      BY <2>4 DEF AdmitOnLease
    <3>2. Claimed'
      BY <2>4, <3>1, AdmitClaims DEF Typed, TypeOK
    <3>. QED
      BY <2>4, <3>1, <3>2 DEF AdmitOnLease, Form, Typed, TypeOK
  <2>5. ASSUME NEW l \in Leases, RequestCommit(p, l) \/ RequestRollback(p, l)
        PROVE  LeasesOwned'
    BY <2>4, <2>5 DEF RequestCommit, RequestRollback, Requests, LeaseOps
  <2>6. ASSUME NEW l \in Leases, NEW r \in Refs, RequestLeaseGet(p, l, r)
        PROVE  LeasesOwned'
    BY <2>4, <2>6 DEF RequestLeaseGet, Requests, LeaseOps
  <2>7. ASSUME NEW l \in Leases, NEW r \in Refs, NEW c \in Payloads, RequestPut(p, l, r, c)
        PROVE  LeasesOwned'
    BY <2>4, <2>7 DEF RequestPut, Requests, LeaseOps
  <2>. QED
    BY <1>3, <2>1, <2>2, <2>3, <2>5, <2>6, <2>7 DEF Client
<1>4. ASSUME NEW p \in Owners, Txn(p) PROVE LeasesOwned'
  <2>. DEFINE req == Head(queue[p])
  <2>1. grant[p] # NotGranted /\ Settle(p) /\ req \in Requests
    <3>1. grant[p] # NotGranted /\ Settle(p)
      BY <1>4, TxnSettles
    <3>. QED
      BY <3>1, HeadTyping DEF Typed
  <2>2. p \in locks /\ status[p] \in Running
    BY <2>1, HeadTyping DEF Locking, Settled, IdleUnlessRunning, Typed
  <2>3. Claimed'
    BY <1>4, <2>1, TxnEffect, SettleClaims DEF Undisturbed
  <2>4. leaseOwner' = leaseOwner /\ locks' = locks /\ status' = status
    BY <2>1 DEF Settle
  <2>5. ASSUME NEW l \in Leases, ~(req.op \in LeaseOps /\ req.lease = l) PROVE Form(l)'
    BY <1>4, <2>4, <2>5, TxnEffect DEF Undisturbed, Form, MaintainedLeases
  <2>6. ASSUME NEW l \in Leases, req.op \in LeaseOps, req.lease = l PROVE Form(l)'
    <3>1. leaseOwner[l] = p
      BY <2>1, <2>6, HeadClaims
    <3>2. Renewed(p, l) \/ Ended(l) \/ Reopened(p, l)
      BY <1>4, <2>6, TxnEffect
    <3>. QED
      BY <2>2, <2>4, <3>1, <3>2 DEF Renewed, Ended, Reopened, Form
  <2>. QED
    BY <2>3, <2>5, <2>6
<1>5. ASSUME NEW p \in Owners, Grant(p) PROVE LeasesOwned'
  BY <1>1, <1>5 DEF Grant, dbVars, leaseVars, Form
<1>6. ASSUME NEW p \in Owners, Forget(p),
             \A q \in Owners : q # p => status'[q] = status[q],
             \A q \in locks : q # p => q \in locks',
             queue'[p] = <<>>, \A q \in Owners : q # p => queue'[q] = queue[q],
             \A l \in Leases : leaseMeta'[l] \in {leaseMeta[l], NoRecord}
      PROVE  LeasesOwned'
  <2>1. \A l \in Leases :
           /\ leaseOwner[l] = p => phase'[l] = "ended"
           /\ leaseOwner[l] # p => phase'[l] = phase[l] /\ leaseRefs'[l] = leaseRefs[l]
           /\ leaseOwner'[l] = leaseOwner[l]
    BY <1>6 DEF Forget
  <2>2. Claimed'
    BY <1>6, <2>1 DEF Claimed, Claims
  <2>3. \A l \in Leases : Form(l)'
    BY <1>6, <2>1 DEF Form
  <2>. QED
    BY <2>2, <2>3
<1>7. ASSUME NEW p \in Owners, CleanupTxn(p) \/ CleanupFails(p) \/ Crash(p) PROVE LeasesOwned'
  <2>1. /\ \A q \in Owners : q # p => status'[q] = status[q]
        /\ \A q \in Owners : q # p => queue'[q] = queue[q]
    BY <1>7 DEF CleanupTxn, CleanupFails, Crash, Typed, TypeOK
  <2>2. queue'[p] = <<>> /\ Forget(p)
    BY <1>7 DEF CleanupTxn, CleanupFails, Crash, Drained, Typed, TypeOK
  <2>3. \A l \in Leases : leaseMeta'[l] \in {leaseMeta[l], NoRecord}
    BY <1>7 DEF CleanupTxn, CleanupFails, Crash, dbVars
  <2>4. \A q \in locks : q # p => q \in locks'
    BY <1>7 DEF CleanupTxn, CleanupFails, Crash
  <2>. QED
    BY <1>6, <2>1, <2>2, <2>3, <2>4
<1>8. ASSUME NEW p \in Owners, Release(p) PROVE LeasesOwned'
  <2>1. /\ \A q \in Owners : status[q] \in Running => q # p
        /\ \A q \in Owners : q # p => status'[q] = status[q]
    BY <1>8 DEF Release, Running, Typed, TypeOK
  <2>2. UNCHANGED <<leaseMeta, queue, phase, leaseOwner, leaseRefs>> /\ locks' = locks \ {p}
    BY <1>8 DEF Release, dbVars, leaseVars
  <2>3. ASSUME NEW l \in Leases PROVE Form(l)'
    <3>1. Form(l)
      OBVIOUS
    <3>. QED
      BY <2>1, <2>2, <3>1 DEF Form
  <2>. QED
    BY <1>1, <2>2, <2>3
<1>9. ASSUME UNCHANGED <<queue, locks, status, phase, leaseOwner, leaseRefs>>,
             \A l \in Leases : leaseMeta'[l] # NoRecord =>
                 leaseMeta[l] # NoRecord /\ leaseMeta'[l].owner = leaseMeta[l].owner
      PROVE  LeasesOwned'
  BY <1>1, <1>9 DEF Form
<1>10. ASSUME NEW p \in Owners, Heartbeat(p) \/ AgeOwner(p) PROVE LeasesOwned'
  <2>1. ASSUME NEW l \in Leases, leaseMeta'[l] # NoRecord
        PROVE  leaseMeta[l] # NoRecord /\ leaseMeta'[l].owner = leaseMeta[l].owner
    <3>1. leaseMeta[l] \in LeaseRecord =>
             [leaseMeta[l] EXCEPT !.fresh = TRUE].owner = leaseMeta[l].owner
      BY DEF LeaseRecord
    <3>2. leaseMeta[l] \in LeaseRecord \cup {NoRecord}
      BY DEF Typed, TypeOK
    <3>. QED
      BY <1>10, <2>1, <3>1, <3>2 DEF Heartbeat, AgeOwner, OwnLease
  <2>. QED
    BY <1>9, <1>10, <2>1 DEF Heartbeat, AgeOwner, leaseVars
<1>11. ASSUME NEW k \in Leases, AgeLease(k) PROVE LeasesOwned'
  <2>1. ASSUME NEW l \in Leases, leaseMeta'[l] # NoRecord
        PROVE  leaseMeta[l] # NoRecord /\ leaseMeta'[l].owner = leaseMeta[l].owner
    <3>1. leaseMeta[k] \in LeaseRecord
      BY <1>11 DEF AgeLease, Typed, TypeOK
    <3>2. [leaseMeta[k] EXCEPT !.fresh = FALSE].owner = leaseMeta[k].owner
      BY <3>1 DEF LeaseRecord
    <3>. QED
      BY <1>11, <2>1, <3>2 DEF AgeLease, Typed, TypeOK
  <2>. QED
    BY <1>9, <1>11, <2>1 DEF AgeLease, leaseVars
<1>12. CASE Wipe
  BY <1>9, <1>12 DEF Wipe, leaseVars
<1>. QED
  BY <1>2, <1>3, <1>4, <1>5, <1>7, <1>8, <1>10, <1>11, <1>12
     DEF Next, Repository, Environment

(***************************************************************************)
(* What a queued request was admitted under still holds: the dependencies  *)
(* of a payload are staged before it, and a collection passes everything   *)
(* that its owner will reach when it runs, commits queued before it        *)
(* included.                                                               *)
(***************************************************************************)
PutReady(p, i) ==
    queue[p][i].op = "put" =>
        Dependencies[queue[p][i].payload] \subseteq leaseRefs[queue[p][i].lease]

CollectReady(p, i) ==
    queue[p][i].op = "collect" =>
        /\ roots[p] \subseteq queue[p][i].refs
        /\ \A j \in DOMAIN queue[p] : j < i /\ queue[p][j].op = "commit" =>
              leaseRefs[queue[p][j].lease] \subseteq queue[p][i].refs

Ready == \A p \in Owners : \A i \in DOMAIN queue[p] : PutReady(p, i) /\ CollectReady(p, i)

LEMMA AdmitReady ==
    ASSUME Typed, Ready, NEW p \in Owners, NEW req \in Requests, Admit(p, req),
           UNCHANGED <<roots, leaseRefs>>,
           req.op = "put" => Dependencies[req.payload] \subseteq leaseRefs[req.lease],
           req.op = "collect" =>
               /\ roots[p] \subseteq req.refs
               /\ \A j \in DOMAIN queue[p] : queue[p][j].op = "commit" =>
                     leaseRefs[queue[p][j].lease] \subseteq req.refs
    PROVE  Ready'
<1>1. queue[p] \in Seq(Requests)
  BY DEF Typed, TypeOK
<1>2. /\ queue'[p] = Append(queue[p], req)
      /\ \A q \in Owners : q # p => queue'[q] = queue[q]
  BY DEF Admit, Typed, TypeOK
<1>3. /\ DOMAIN queue'[p] = DOMAIN queue[p] \cup {Len(queue[p]) + 1}
      /\ queue'[p][Len(queue[p]) + 1] = req
      /\ \A i \in DOMAIN queue[p] : queue'[p][i] = queue[p][i] /\ i < Len(queue[p]) + 1
  BY <1>1, <1>2
<1>4. ASSUME NEW q \in Owners, q # p, NEW i \in DOMAIN queue'[q]
      PROVE  PutReady(q, i)' /\ CollectReady(q, i)'
  BY <1>2, <1>4 DEF Ready, PutReady, CollectReady
<1>5. ASSUME NEW i \in DOMAIN queue[p] PROVE PutReady(p, i)' /\ CollectReady(p, i)'
  <2>1. \A j \in DOMAIN queue'[p] : j < i => j \in DOMAIN queue[p]
    BY <1>1, <1>3, <1>5
  <2>. QED
    BY <1>3, <2>1 DEF Ready, PutReady, CollectReady
<1>6. ASSUME NEW i, i = Len(queue[p]) + 1 PROVE PutReady(p, i)' /\ CollectReady(p, i)'
  <2>1. \A j \in DOMAIN queue'[p] :
           j < i => j \in DOMAIN queue[p] /\ queue'[p][j] = queue[p][j]
    BY <1>1, <1>3, <1>6
  <2>2. queue'[p][i] = req
    BY <1>3, <1>6
  <2>. QED
    BY <2>1, <2>2 DEF PutReady, CollectReady
<1>7. \A i \in DOMAIN queue'[p] : PutReady(p, i)' /\ CollectReady(p, i)'
  BY <1>3, <1>5, <1>6
<1>. QED
  BY <1>4, <1>7 DEF Ready

LEMMA SettleReady ==
    ASSUME Typed, LeasesOwned, Ready, NEW p \in Owners, Txn(p)
    PROVE  Ready'
<1>. DEFINE req == Head(queue[p])
<1>1. queue[p] \in Seq(Requests) /\ queue[p] # <<>> /\ Settle(p)
  BY TxnSettles, HeadTyping DEF Typed
<1>2. /\ queue'[p] = Tail(queue[p])
      /\ \A q \in Owners : q # p => queue'[q] = queue[q]
  BY <1>1 DEF Settle, Typed, TypeOK
<1>3. /\ 1 \in DOMAIN queue[p] /\ queue[p][1] = req
      /\ \A i \in DOMAIN queue'[p] : /\ i + 1 \in DOMAIN queue[p] /\ i + 1 # 1 /\ 1 < i + 1
                                     /\ queue'[p][i] = queue[p][i + 1]
      /\ \A i, j \in DOMAIN queue'[p] : j < i => j + 1 < i + 1
  BY <1>1, <1>2
<1>4. ASSUME NEW q \in Owners, NEW i \in DOMAIN queue[q], queue[q][i].op \in LeaseOps,
             q # p \/ i # 1
      PROVE  leaseRefs'[queue[q][i].lease] = leaseRefs[queue[q][i].lease]
  <2>1. queue[q][i].lease \in Leases
    BY <1>4, RequestFields DEF Typed, TypeOK
  <2>2. ~Claims(p, 1, queue[q][i].lease)
    BY <1>3, <1>4, <2>1 DEF LeasesOwned, Claimed, Claims
  <2>. QED
    BY <1>3, <2>1, <2>2, TxnEffect DEF Claims, Undisturbed
<1>5. /\ \A q \in Owners : q # p => roots'[q] = roots[q]
      /\ \/ roots'[p] = roots[p]
         \/ /\ req.op = "commit"
            /\ roots'[p] = roots[p] \cup leaseRefs[req.lease]
  <2>1. CASE CommitTxn(p)
    <3>1. roots' = [roots EXCEPT ![p] = @ \cup leaseRefs[req.lease]] /\ req.op = "commit"
      BY <2>1 DEF CommitTxn, Granted
    <3>. QED
      BY <3>1 DEF Typed, TypeOK
  <2>2. CASE BeginTxn(p) \/ PutTxn(p) \/ LeaseGetTxn(p) \/ RollbackTxn(p)
    BY <2>2 DEF BeginTxn, PutTxn, LeaseGetTxn, RollbackTxn
  <2>3. CASE GetTxn(p) \/ CollectTxn(p) \/ StaleTxn(p) \/ AbortTxn(p)
    BY <2>3 DEF GetTxn, CollectTxn, StaleTxn, AbortTxn
  <2>. QED
    BY <2>1, <2>2, <2>3 DEF Txn
<1>6. ASSUME NEW q \in Owners, q # p, NEW i \in DOMAIN queue'[q]
      PROVE  PutReady(q, i)' /\ CollectReady(q, i)'
  BY <1>2, <1>4, <1>5, <1>6 DEF Ready, PutReady, CollectReady, LeaseOps
<1>7. ASSUME NEW i \in DOMAIN queue'[p] PROVE PutReady(p, i)'
  BY <1>3, <1>4, <1>7 DEF Ready, PutReady, LeaseOps
<1>8. ASSUME NEW i \in DOMAIN queue'[p], queue'[p][i].op = "collect"
      PROVE  CollectReady(p, i)'
  <2>1. CollectReady(p, i + 1) /\ queue[p][i + 1].op = "collect"
    BY <1>3, <1>8 DEF Ready
  <2>2. roots'[p] \subseteq queue'[p][i].refs
    BY <1>3, <1>5, <1>8, <2>1 DEF CollectReady
  <2>3. ASSUME NEW j \in DOMAIN queue'[p], j < i, queue'[p][j].op = "commit"
        PROVE  leaseRefs'[queue'[p][j].lease] \subseteq queue'[p][i].refs
    <3>1. /\ j + 1 \in DOMAIN queue[p] /\ j + 1 # 1 /\ j + 1 < i + 1
          /\ queue'[p][j] = queue[p][j + 1] /\ queue'[p][i] = queue[p][i + 1]
      BY <1>3, <1>8, <2>3
    <3>2. leaseRefs[queue[p][j + 1].lease] \subseteq queue[p][i + 1].refs
      BY <2>1, <2>3, <3>1 DEF CollectReady
    <3>3. leaseRefs'[queue[p][j + 1].lease] = leaseRefs[queue[p][j + 1].lease]
      BY <1>4, <2>3, <3>1 DEF LeaseOps
    <3>. QED
      BY <3>1, <3>2, <3>3
  <2>. QED
    BY <2>2, <2>3 DEF CollectReady
<1>. QED
  BY <1>6, <1>7, <1>8 DEF Ready, CollectReady

(***************************************************************************)
(* An open lease has its record, and holds the rows its object believes    *)
(* staged: the owner's lock is in every snapshot that maintenance goes by. *)
(***************************************************************************)
StagedRefs(l) == {r \in Refs : staged[l][r] # Absent}

OpenIntact(l) ==
    phase[l] \in {"open", "busy"} =>
        /\ ~wiped => OwnLease(leaseOwner[l], l)
        /\ OwnLease(leaseOwner[l], l) =>
              /\ StagedRefs(l) = leaseRefs[l]
              /\ \A r \in leaseRefs[l] : Dependencies[staged[l][r]] \subseteq leaseRefs[l]

Intact == \A l \in Leases : OpenIntact(l)

LeaseInv == Locking /\ LeasesOwned /\ NoOrphanRows /\ Ready /\ Intact

LEMMA MaintenanceSpares ==
    ASSUME Typed, LeaseInv, NEW p \in Owners, grant[p] # NotGranted, NEW l \in Leases,
           phase[l] \in {"open", "busy"}, OwnLease(leaseOwner[l], l)
    PROVE  /\ MaintainedLeases(p, grant[p])[l] = leaseMeta[l]
           /\ MaintainedRows(p, grant[p])[l] = staged[l]
<1>1. leaseOwner[l] \in locks
  BY DEF LeaseInv, LeasesOwned, Form
<1>2. grant[p] # Unknown => leaseOwner[l] \in grant[p]
  BY <1>1 DEF LeaseInv, Locking
<1>3. LeaseKept(p, grant[p], l)
  BY <1>2 DEF LeaseKept, MayLive, OwnLease
<1>. QED
  BY <1>3 DEF MaintainedLeases, MaintainedRows

LEMMA WipedStep == [Next]_vars => wiped' = wiped \/ Wipe
<1>1. ASSUME NEW p \in Owners, Client(p) PROVE wiped' = wiped
  BY <1>1 DEF Client, Open, Persist, RequestCollect, BeginDispose, Drop, RequestGet,
              RequestBegin, RequestCommit, RequestRollback, RequestLeaseGet, RequestPut,
              AdmitOnLease
<1>2. ASSUME NEW p \in Owners, Txn(p) PROVE wiped' = wiped
  BY <1>2, TxnSettles DEF Settle
<1>3. ASSUME NEW p \in Owners, Repository(p), ~Txn(p) PROVE wiped' = wiped
  BY <1>3 DEF Repository, Grant, CleanupTxn, CleanupFails, Release
<1>4. ASSUME UNCHANGED vars PROVE wiped' = wiped
  BY <1>4 DEF vars
<1>. QED
  BY <1>1, <1>2, <1>3, <1>4 DEF Next, Environment, Heartbeat, AgeOwner, AgeLease, Crash

LEMMA FreshOnly ==
    ASSUME Typed, NEW b \in BOOLEAN, NEW l \in Leases, leaseMeta[l] # NoRecord
    PROVE  /\ [leaseMeta[l] EXCEPT !.fresh = b] # NoRecord
           /\ [leaseMeta[l] EXCEPT !.fresh = b].owner = leaseMeta[l].owner
<1>1. leaseMeta[l] \in LeaseRecord
  BY DEF Typed, TypeOK
<1>2. [leaseMeta[l] EXCEPT !.fresh = b] \in LeaseRecord
  BY <1>1 DEF LeaseRecord
<1>. QED
  BY <1>1, <1>2, SentinelAssumption DEF LeaseRecord

\* The lease of an operation that succeeds: new rows are staged with their dependencies.
LEMMA RenewedIntact ==
    ASSUME Typed, LeaseInv, NEW p \in Owners, Txn(p), NEW l \in Leases,
           Head(queue[p]).op \in LeaseOps, Head(queue[p]).lease = l, Renewed(p, l)
    PROVE  OpenIntact(l)'
<1>. DEFINE req == Head(queue[p])
<1>. USE DEF LeaseInv
<1>1. grant[p] # NotGranted /\ leaseOwner' = leaseOwner
  BY TxnSettles DEF Settle
<1>2. leaseOwner[l] = p /\ phase[l] = IF req.op = "begin" THEN "opening" ELSE "busy"
  BY <1>1, HeadClaims
<1>3. OpenIntact(l) /\ Form(l)
  BY DEF Intact, LeasesOwned
<1>4. OwnLease(leaseOwner[l], l)'
  <2>1. [owner |-> p, fresh |-> TRUE] \in LeaseRecord
    BY DEF LeaseRecord
  <2>2. leaseMeta'[l] = [owner |-> p, fresh |-> TRUE]
    BY DEF Renewed
  <2>3. leaseMeta'[l] # NoRecord
    BY <2>1, <2>2, SentinelAssumption, Zenon
  <2>4. leaseMeta'[l].owner = p
    BY <2>2
  <2>. QED
    BY <1>1, <1>2, <2>3, <2>4 DEF OwnLease
<1>5. /\ MaintainedRows(p, grant[p])[l] = staged[l]
      /\ StagedRefs(l) = leaseRefs[l]
      /\ \A r \in leaseRefs[l] : Dependencies[staged[l][r]] \subseteq leaseRefs[l]
  <2>1. CASE req.op = "begin"
    <3>1. leaseMeta[l] = NoRecord /\ leaseRefs[l] = {} /\ staged[l] = NoRows
      BY <1>2, <1>3, <2>1 DEF Form, NoOrphanRows
    <3>. QED
      BY <3>1 DEF MaintainedRows, NoRows, StagedRefs
  <2>2. CASE req.op # "begin"
    <3>1. phase[l] = "busy" /\ OwnLease(leaseOwner[l], l)
      BY <1>2, <2>2 DEF Renewed
    <3>. QED
      BY <1>1, <1>3, <3>1, MaintenanceSpares DEF OpenIntact
  <2>. QED
    BY <2>1, <2>2
<1>6. CASE staged'[l] = staged[l] /\ leaseRefs'[l] = leaseRefs[l]
  BY <1>4, <1>5, <1>6 DEF OpenIntact, StagedRefs
<1>7. CASE /\ req.op = "put"
           /\ staged'[l] = [staged[l] EXCEPT ![req.ref] = req.payload]
           /\ leaseRefs'[l] = leaseRefs[l] \cup {req.ref}
  <2>1. /\ queue[p] \in Seq(Requests) /\ queue[p] # <<>>
        /\ req \in Requests /\ req.ref \in Refs /\ req.payload \in Payloads
    BY <1>1, <1>7, HeadTyping, RequestFields DEF Typed
  <2>2. 1 \in DOMAIN queue[p] /\ queue[p][1] = req
    BY <2>1
  <2>3. Dependencies[req.payload] \subseteq leaseRefs[l]
    BY <1>7, <2>2 DEF Ready, PutReady
  <2>4. /\ staged'[l][req.ref] = req.payload
        /\ \A r \in Refs : r # req.ref => staged'[l][r] = staged[l][r]
        /\ leaseRefs[l] \subseteq Refs
    BY <1>7, <2>1 DEF Typed, TypeOK
  <2>5. StagedRefs(l)' = leaseRefs'[l]
    BY <1>5, <1>7, <2>1, <2>4, SentinelAssumption DEF StagedRefs
  <2>6. \A r \in leaseRefs'[l] : Dependencies[staged'[l][r]] \subseteq leaseRefs'[l]
    BY <1>5, <1>7, <2>3, <2>4
  <2>. QED
    BY <1>4, <2>5, <2>6 DEF OpenIntact
<1>. QED
  BY <1>5, <1>6, <1>7 DEF Renewed

LEMMA IntactStep == Typed /\ Settled /\ LeaseInv /\ [Next]_vars => Intact'
<1>. SUFFICES ASSUME Typed, Settled, LeaseInv, [Next]_vars, NEW l \in Leases
              PROVE  OpenIntact(l)'
  BY DEF Intact
<1>. USE DEF LeaseInv
<1>1. /\ OpenIntact(l) /\ Form(l)
      /\ ~wiped' => ~wiped
  BY WipedStep DEF Intact, LeasesOwned, Wipe
<1>2. ASSUME leaseMeta'[l] = leaseMeta[l], staged'[l] = staged[l],
             leaseOwner'[l] = leaseOwner[l], leaseRefs'[l] = leaseRefs[l],
             phase'[l] \in {"open", "busy"} => phase[l] \in {"open", "busy"}
      PROVE  OpenIntact(l)'
  BY <1>1, <1>2 DEF OpenIntact, OwnLease, StagedRefs
<1>3. CASE UNCHANGED vars
  BY <1>2, <1>3 DEF vars, dbVars, leaseVars
<1>4. ASSUME NEW p \in Owners, Client(p) PROVE OpenIntact(l)'
  <2>1. ASSUME NEW k \in Leases, RequestBegin(p, k) PROVE OpenIntact(l)'
    <3>1. CASE l = k
      BY <2>1, <3>1 DEF RequestBegin, OpenIntact, Typed, TypeOK
    <3>2. CASE l # k
      BY <1>2, <2>1, <3>2 DEF RequestBegin, dbVars, Typed, TypeOK
    <3>. QED
      BY <3>1, <3>2
  <2>2. ASSUME NEW k \in Leases, NEW req, AdmitOnLease(p, k, req) PROVE OpenIntact(l)'
    BY <1>2, <2>2 DEF AdmitOnLease, dbVars, Typed, TypeOK
  <2>. QED
    BY <1>2, <1>4, <2>1, <2>2
       DEF Client, Open, Persist, RequestCollect, BeginDispose, Drop, RequestGet,
           RequestCommit, RequestRollback, RequestLeaseGet, RequestPut, dbVars, leaseVars
<1>5. ASSUME NEW p \in Owners, Txn(p) PROVE OpenIntact(l)'
  <2>. DEFINE req == Head(queue[p])
  <2>1. grant[p] # NotGranted /\ leaseOwner' = leaseOwner
    BY <1>5, TxnSettles DEF Settle
  <2>2. CASE ~(req.op \in LeaseOps /\ req.lease = l)
    <3>1. Undisturbed(p, l)
      BY <1>5, <2>2, TxnEffect
    <3>2. CASE phase[l] \in {"open", "busy"} /\ OwnLease(leaseOwner[l], l)
      <4>1. /\ MaintainedLeases(p, grant[p])[l] = leaseMeta[l]
            /\ MaintainedRows(p, grant[p])[l] = staged[l]
        BY <2>1, <3>2, MaintenanceSpares
      <4>. QED
        BY <1>2, <2>1, <3>1, <4>1 DEF Undisturbed
    <3>3. CASE phase[l] \in {"open", "busy"} /\ ~OwnLease(leaseOwner[l], l)
      <4>1. leaseMeta'[l] \in {leaseMeta[l], NoRecord}
        BY <3>1 DEF Undisturbed, MaintainedLeases
      <4>2. ~OwnLease(leaseOwner[l], l)'
        BY <2>1, <3>3, <4>1 DEF OwnLease
      <4>. QED
        BY <1>1, <3>3, <4>2 DEF OpenIntact
    <3>4. CASE phase[l] \notin {"open", "busy"}
      BY <3>1, <3>4 DEF Undisturbed, OpenIntact
    <3>. QED
      BY <3>2, <3>3, <3>4
  <2>3. CASE req.op \in LeaseOps /\ req.lease = l
    <3>1. phase[l] = IF req.op = "begin" THEN "opening" ELSE "busy"
      BY <2>1, <2>3, HeadClaims
    <3>2. CASE Ended(l)
      BY <3>2 DEF Ended, OpenIntact
    <3>3. CASE Reopened(p, l)
      BY <1>2, <2>1, <3>1, <3>3 DEF Reopened
    <3>4. CASE Renewed(p, l)
      BY <1>5, <2>3, <3>4, RenewedIntact
    <3>. QED
      BY <1>5, <2>3, <3>2, <3>3, <3>4, TxnEffect
  <2>. QED
    BY <2>2, <2>3
<1>6. ASSUME NEW p \in Owners, Grant(p) \/ Release(p) PROVE OpenIntact(l)'
  BY <1>2, <1>6 DEF Grant, Release, dbVars, leaseVars
<1>7. ASSUME NEW p \in Owners, CleanupTxn(p) \/ CleanupFails(p) \/ Crash(p)
      PROVE  OpenIntact(l)'
  <2>1. CASE leaseOwner[l] = p
    BY <1>7, <2>1 DEF CleanupTxn, CleanupFails, Crash, Forget, OpenIntact
  <2>2. CASE leaseOwner[l] # p
    <3>1. l \notin OwnLeases(p)
      BY <1>1, <2>2 DEF OwnLeases, OwnLease, Form
    <3>. QED
      BY <1>2, <1>7, <2>2, <3>1 DEF CleanupTxn, CleanupFails, Crash, Forget, dbVars
  <2>. QED
    BY <2>1, <2>2
<1>8. ASSUME UNCHANGED <<staged, phase, leaseOwner, leaseRefs>>,
             leaseMeta'[l] = leaseMeta[l] \/
                 /\ leaseMeta[l] # NoRecord /\ leaseMeta'[l] # NoRecord
                 /\ leaseMeta'[l].owner = leaseMeta[l].owner
      PROVE  OpenIntact(l)'
  BY <1>1, <1>8 DEF OpenIntact, OwnLease, StagedRefs
<1>9. ASSUME NEW p \in Owners, Heartbeat(p) \/ AgeOwner(p) PROVE OpenIntact(l)'
  BY <1>8, <1>9, FreshOnly DEF Heartbeat, AgeOwner, OwnLease, leaseVars
<1>10. ASSUME NEW k \in Leases, AgeLease(k) PROVE OpenIntact(l)'
  BY <1>8, <1>10, FreshOnly DEF AgeLease, leaseVars, Typed, TypeOK
<1>11. CASE Wipe
  BY <1>11 DEF Wipe, OpenIntact, OwnLease
<1>. QED
  BY <1>3, <1>4, <1>5, <1>6, <1>7, <1>9, <1>10, <1>11 DEF Next, Repository, Environment

LEMMA ReadyStep == Typed /\ Settled /\ LeaseInv /\ [Next]_vars => Ready'
<1>. SUFFICES ASSUME Typed, Settled, LeaseInv, [Next]_vars PROVE Ready'
  OBVIOUS
<1>. USE DEF LeaseInv
<1>1. ASSUME queue' = queue, leaseRefs' = leaseRefs,
             \A p \in Owners : queue[p] # <<>> => roots'[p] \subseteq roots[p]
      PROVE  Ready'
  BY <1>1 DEF Ready, PutReady, CollectReady
<1>2. CASE UNCHANGED vars
  BY <1>1, <1>2 DEF vars, leaseVars, spaceVars
<1>3. ASSUME NEW p \in Owners, Client(p) PROVE Ready'
  <2>. USE DEF leaseVars, spaceVars
  <2>1. CASE Open(p)
    BY <1>1, <2>1 DEF Open, Settled, IdleUnlessRunning, Running, Typed, TypeOK
  <2>2. CASE Persist(p) \/ BeginDispose(p)
    BY <1>1, <2>2 DEF Persist, BeginDispose
  <2>3. ASSUME NEW r \in Refs, Drop(p, r) PROVE Ready'
    BY <1>1, <2>3 DEF Drop, Typed, TypeOK
  <2>4. CASE RequestCollect(p)
    <3>. DEFINE req == [op |-> "collect", refs |-> roots[p] \cup StagedBy(p)]
    <3>1. req \in Requests
      BY DEF Typed, TypeOK, StagedBy, Requests
    <3>2. ASSUME NEW j \in DOMAIN queue[p], queue[p][j].op = "commit"
          PROVE  leaseRefs[queue[p][j].lease] \subseteq req.refs
      <4>1. queue[p][j].lease \in Leases
        BY <3>2, RequestFields DEF Typed, TypeOK, LeaseOps
      <4>2. leaseOwner[queue[p][j].lease] = p /\ phase[queue[p][j].lease] = "busy"
        BY <3>2, <4>1 DEF LeasesOwned, Claimed, Claims, LeaseOps
      <4>. QED
        BY <4>1, <4>2 DEF StagedBy
    <3>3. /\ Admit(p, req) /\ UNCHANGED <<roots, leaseRefs>>
          /\ roots[p] \subseteq req.refs /\ req.op = "collect"
      BY <2>4 DEF RequestCollect
    <3>. HIDE DEF req
    <3>. QED
      BY <3>1, <3>2, <3>3, AdmitReady
  <2>5. ASSUME NEW req \in Requests, Admit(p, req), UNCHANGED <<roots, leaseRefs>>,
               req.op \notin {"put", "collect"}
        PROVE  Ready'
    BY <2>5, AdmitReady
  <2>6. ASSUME NEW r \in Refs, RequestGet(p, r) PROVE Ready'
    BY <2>5, <2>6 DEF RequestGet, Requests
  <2>7. ASSUME NEW l \in Leases, RequestBegin(p, l) PROVE Ready'
    BY <2>5, <2>7 DEF RequestBegin, Requests
  <2>8. ASSUME NEW l \in Leases, RequestCommit(p, l) \/ RequestRollback(p, l) PROVE Ready'
    BY <2>5, <2>8 DEF RequestCommit, RequestRollback, AdmitOnLease, Requests
  <2>9. ASSUME NEW l \in Leases, NEW r \in Refs, RequestLeaseGet(p, l, r) PROVE Ready'
    BY <2>5, <2>9 DEF RequestLeaseGet, AdmitOnLease, Requests
  <2>10. ASSUME NEW l \in Leases, NEW r \in Refs, NEW c \in Payloads, RequestPut(p, l, r, c)
         PROVE  Ready'
    <3>. DEFINE req == [op |-> "put", lease |-> l, ref |-> r, payload |-> c]
    <3>1. /\ req \in Requests /\ Admit(p, req) /\ UNCHANGED <<roots, leaseRefs>>
          /\ req.op = "put" /\ Dependencies[req.payload] \subseteq leaseRefs[req.lease]
      BY <2>10 DEF RequestPut, AdmitOnLease, Requests
    <3>. HIDE DEF req
    <3>. QED
      BY <3>1, AdmitReady
  <2>. QED
    BY <1>3, <2>1, <2>2, <2>3, <2>4, <2>6, <2>7, <2>8, <2>9, <2>10 DEF Client
<1>4. ASSUME NEW p \in Owners, Txn(p) PROVE Ready'
  BY <1>4, SettleReady
<1>5. ASSUME NEW p \in Owners, Grant(p) \/ Release(p) PROVE Ready'
  BY <1>1, <1>5 DEF Grant, Release, leaseVars, spaceVars
<1>6. ASSUME NEW p \in Owners, CleanupTxn(p) \/ CleanupFails(p) \/ Crash(p) PROVE Ready'
  <2>1. /\ queue'[p] = <<>> /\ Forget(p)
        /\ \A q \in Owners : q # p => queue'[q] = queue[q]
    BY <1>6 DEF CleanupTxn, CleanupFails, Crash, Drained, Typed, TypeOK
  <2>2. ASSUME NEW q \in Owners, q # p, NEW i \in DOMAIN queue[q], queue[q][i].op \in LeaseOps
        PROVE  leaseRefs'[queue[q][i].lease] = leaseRefs[queue[q][i].lease]
    <3>1. queue[q][i].lease \in Leases
      BY <2>2, RequestFields DEF Typed, TypeOK
    <3>2. leaseOwner[queue[q][i].lease] = q
      BY <2>2, <3>1 DEF LeasesOwned, Claimed, Claims
    <3>. QED
      BY <2>1, <2>2, <3>1, <3>2 DEF Forget
  <2>3. \A q \in Owners : q # p => roots'[q] = roots[q]
    BY <2>1 DEF Forget, Typed, TypeOK
  <2>. QED
    BY <2>1, <2>2, <2>3 DEF Ready, PutReady, CollectReady, LeaseOps
<1>7. ASSUME NEW p \in Owners, Heartbeat(p) \/ AgeOwner(p) PROVE Ready'
  BY <1>1, <1>7 DEF Heartbeat, AgeOwner, leaseVars, spaceVars
<1>8. ASSUME NEW l \in Leases, AgeLease(l) PROVE Ready'
  BY <1>1, <1>8 DEF AgeLease, leaseVars, spaceVars
<1>9. CASE Wipe
  BY <1>1, <1>9 DEF Wipe, leaseVars
<1>. QED
  BY <1>2, <1>3, <1>4, <1>5, <1>6, <1>7, <1>8, <1>9 DEF Next, Repository, Environment

(***************************************************************************)
(* No maintenance reaps the lease of a running owner, however long the     *)
(* owner was suspended and whatever became of its records' expiry times.   *)
(***************************************************************************)
LEMMA AlwaysLeaseInv == Spec => []LeaseInv
<1>1. Init => LeaseInv
  BY DEF Init, LeaseInv, Locking, LeasesOwned, Claimed, Form, NoOrphanRows, Ready, Intact, OpenIntact
<1>2. Typed /\ Settled /\ LeaseInv /\ [Next]_vars => LeaseInv'
  BY LockingStep, LeasesOwnedStep, NoOrphanStep, ReadyStep, IntactStep DEF LeaseInv
<1>. QED
  BY <1>1, <1>2, AlwaysTyped, AlwaysSettled, PTL DEF Spec

THEOREM LeasesStayIntact == Spec => []OpenLeaseIntact
<1>1. LeaseInv => OpenLeaseIntact
  BY DEF LeaseInv, Intact, OpenIntact, StagedRefs, OpenLeaseIntact
<1>. QED
  BY <1>1, AlwaysLeaseInv, PTL

(***************************************************************************)
(* What the repository knows of an owner: an owner that has committed or   *)
(* read something has a record and holds its liveness lock, and what its   *)
(* record publishes covers all that it reaches.  Until the database is     *)
(* cleared, an owner reaches only what it has loaded with the workspace or *)
(* verified itself.                                                        *)
(***************************************************************************)
Published(p) == ownerMeta[p] # NoRecord /\ ownerMeta[p].reachable # Unpublished

Known(p) ==
    /\ status[p] = "new" => ownerMeta[p] = NoRecord
    /\ Published(p) => roots[p] \subseteq ownerMeta[p].reachable
    /\ verified[p] \subseteq roots[p]
    /\ verified[p] # {} => ownerMeta[p] # NoRecord /\ p \in locks
    /\ ~wiped => roots[p] \subseteq base[p] \cup verified[p]
    /\ roots[p] # {} => status[p] \in Running

AllKnown == \A p \in Owners : Known(p)

\* A record that is renewed or ages still publishes the same.
RecordKept(p) ==
    /\ ownerMeta'[p] = NoRecord <=> ownerMeta[p] = NoRecord
    /\ ownerMeta[p] # NoRecord => ownerMeta'[p].reachable = ownerMeta[p].reachable

LEMMA RenewedRecord ==
    ASSUME Typed, NEW p \in Owners
    PROVE  /\ RenewedOwner(p) # NoRecord /\ RenewedOwner(p).fresh = TRUE
           /\ ownerMeta[p] = NoRecord => RenewedOwner(p).reachable = Unpublished
           /\ ownerMeta[p] # NoRecord => RenewedOwner(p).reachable = ownerMeta[p].reachable
<1>1. RenewedOwner(p) \in OwnerRecord
  BY SentinelAssumption DEF Typed, TypeOK, RenewedOwner, OwnerRecord
<1>2. RenewedOwner(p) # NoRecord
  BY <1>1, SentinelAssumption
<1>. QED
  BY <1>2 DEF RenewedOwner

LEMMA AgedRecord ==
    ASSUME Typed, NEW p \in Owners, ownerMeta[p] # NoRecord
    PROVE  /\ [ownerMeta[p] EXCEPT !.fresh = FALSE] # NoRecord
           /\ [ownerMeta[p] EXCEPT !.fresh = FALSE].reachable = ownerMeta[p].reachable
<1>1. ownerMeta[p] \in OwnerRecord
  BY DEF Typed, TypeOK
<1>2. [ownerMeta[p] EXCEPT !.fresh = FALSE] \in OwnerRecord
  BY <1>1 DEF OwnerRecord
<1>3. [ownerMeta[p] EXCEPT !.fresh = FALSE] # NoRecord
  BY <1>2, SentinelAssumption
<1>. QED
  BY <1>1, <1>3 DEF OwnerRecord

\* Maintenance never removes the record of an owner that holds its lock.
LEMMA MaintenanceKeepsHolders ==
    ASSUME Typed, Locking, NEW p \in Owners, grant[p] # NotGranted,
           NEW q \in Owners, q # p
    PROVE  /\ MaintainedOwners(p, grant[p])[q] \in {ownerMeta[q], NoRecord}
           /\ q \in locks => /\ MaintainedOwners(p, grant[p])[q] = ownerMeta[q]
                             /\ MayLive(p, grant[p], q)
<1>1. MaintainedOwners(p, grant[p])[q] \in {ownerMeta[q], NoRecord}
  BY DEF MaintainedOwners
<1>2. ASSUME q \in locks PROVE MayLive(p, grant[p], q)
  BY <1>2 DEF MayLive, Locking
<1>. QED
  BY <1>1, <1>2 DEF MaintainedOwners, OwnerReaped

\* A transaction changes nothing of another owner, whose record it may reap.
LEMMA TxnOthers ==
    ASSUME Typed, Locking, NEW p \in Owners, Txn(p), NEW q \in Owners, q # p
    PROVE  /\ roots'[q] = roots[q] /\ verified'[q] = verified[q]
           /\ ownerMeta'[q] \in {ownerMeta[q], NoRecord}
           /\ q \in locks => ownerMeta'[q] = ownerMeta[q]
<1>1. grant[p] # NotGranted
  BY TxnSettles
<1>2. /\ MaintainedOwners(p, grant[p])[q] \in {ownerMeta[q], NoRecord}
      /\ q \in locks => MaintainedOwners(p, grant[p])[q] = ownerMeta[q]
  BY <1>1, MaintenanceKeepsHolders
<1>3. CASE BeginTxn(p) \/ PutTxn(p) \/ LeaseGetTxn(p) \/ RollbackTxn(p)
  BY <1>2, <1>3 DEF BeginTxn, PutTxn, LeaseGetTxn, RollbackTxn
<1>4. CASE CommitTxn(p)
  BY <1>2, <1>4 DEF CommitTxn, InvalidatedOwners, MaintainedOwners, Typed, TypeOK
<1>5. CASE GetTxn(p)
  BY <1>2, <1>5 DEF GetTxn, Typed, TypeOK
<1>6. CASE CollectTxn(p)
  BY <1>2, <1>6 DEF CollectTxn, MaintainedOwners
<1>7. CASE StaleTxn(p) \/ AbortTxn(p)
  BY <1>7 DEF StaleTxn, AbortTxn, dbVars
<1>. QED
  BY <1>3, <1>4, <1>5, <1>6, <1>7 DEF Txn

\* A collection passes all that its owner reaches.
LEMMA CollectPassesRoots ==
    ASSUME Typed, Ready, NEW p \in Owners, CollectTxn(p)
    PROVE  Head(queue[p]).refs \in SUBSET Refs /\ roots[p] \subseteq Head(queue[p]).refs
<1>1. /\ queue[p] \in Seq(Requests) /\ queue[p] # <<>>
      /\ Head(queue[p]) \in Requests /\ Head(queue[p]).op = "collect"
  BY HeadTyping DEF CollectTxn, Granted, Typed
<1>2. 1 \in DOMAIN queue[p] /\ queue[p][1] = Head(queue[p])
  BY <1>1
<1>. QED
  BY <1>1, <1>2, RequestFields DEF Ready, CollectReady

\* After its own transaction, an owner's record covers its roots or is unpublished.
LEMMA TxnKnown ==
    ASSUME Typed, Settled, LeaseInv, AllKnown, NEW p \in Owners, Txn(p)
    PROVE  Known(p)'
<1>. USE DEF LeaseInv
<1>1. /\ grant[p] # NotGranted /\ locks' = locks /\ status' = status
      /\ base' = base /\ wiped' = wiped
  BY TxnSettles DEF Settle
<1>2. p \in locks /\ status[p] \in Running
  BY <1>1, HeadTyping DEF Locking, Settled, IdleUnlessRunning, Typed
<1>3. status'[p] # "new" /\ p \in locks' /\ status'[p] \in Running /\ Known(p)
  BY <1>1, <1>2 DEF Running, AllKnown
<1>4. MaintainedOwners(p, grant[p])[p] = RenewedOwner(p)
  BY DEF MaintainedOwners
<1>5. ASSUME ownerMeta'[p] = RenewedOwner(p), roots'[p] = roots[p],
             verified'[p] \subseteq roots[p], verified[p] \subseteq verified'[p]
      PROVE  Known(p)'
  BY <1>1, <1>3, <1>5, RenewedRecord DEF Known, Published
<1>6. CASE BeginTxn(p) \/ PutTxn(p) \/ LeaseGetTxn(p) \/ RollbackTxn(p)
  <2>1. ownerMeta'[p] = RenewedOwner(p) /\ roots' = roots /\ verified' = verified
    BY <1>4, <1>6 DEF BeginTxn, PutTxn, LeaseGetTxn, RollbackTxn
  <2>. QED
    BY <1>3, <1>5, <2>1 DEF Known
<1>7. CASE GetTxn(p)
  <2>1. /\ ownerMeta'[p] = RenewedOwner(p) /\ roots' = roots
        /\ verified'[p] \subseteq verified[p] \cup roots[p]
        /\ verified[p] \subseteq verified'[p]
    BY <1>4, <1>7 DEF GetTxn, Typed, TypeOK
  <2>. QED
    BY <1>3, <1>5, <2>1 DEF Known
<1>8. CASE CommitTxn(p)
  <2>1. MaintainedOwners(p, grant[p])[p] \in OwnerRecord
    BY MaintenanceTyping DEF Typed
  <2>2. /\ ownerMeta'[p] = [MaintainedOwners(p, grant[p])[p] EXCEPT !.reachable = Unpublished]
        /\ \E l \in Leases : /\ roots'[p] = roots[p] \cup leaseRefs[l]
                             /\ verified'[p] = verified[p] \cup leaseRefs[l]
    <3>1. Head(queue[p]).lease \in Leases
      BY <1>1, <1>8, HeadTyping, RequestFields DEF CommitTxn, Granted, LeaseOps, Typed
    <3>. QED
      BY <1>8, <3>1 DEF CommitTxn, InvalidatedOwners, MaintainedOwners, Typed, TypeOK
  <2>3. ownerMeta'[p] \in OwnerRecord /\ ownerMeta'[p].reachable = Unpublished
    BY <2>1, <2>2 DEF OwnerRecord
  <2>4. ownerMeta'[p] # NoRecord /\ ~Published(p)'
    BY <2>3, SentinelAssumption DEF Published
  <2>. QED
    BY <1>1, <1>3, <2>2, <2>4 DEF Known
<1>9. CASE CollectTxn(p)
  <2>1. MaintainedOwners(p, grant[p])[p] \in OwnerRecord
    BY MaintenanceTyping DEF Typed
  <2>2. /\ ownerMeta'[p] = [MaintainedOwners(p, grant[p])[p] EXCEPT !.reachable = Head(queue[p]).refs]
        /\ roots' = roots /\ verified' = verified
    BY <1>9 DEF CollectTxn, MaintainedOwners
  <2>3. /\ Head(queue[p]).refs \in SUBSET Refs /\ roots[p] \subseteq Head(queue[p]).refs
    BY <1>9, CollectPassesRoots
  <2>4. ownerMeta'[p] \in OwnerRecord /\ ownerMeta'[p].reachable = Head(queue[p]).refs
    BY <2>1, <2>2, <2>3 DEF OwnerRecord
  <2>5. ownerMeta'[p] # NoRecord
    BY <2>4, SentinelAssumption
  <2>. QED
    BY <1>1, <1>3, <2>2, <2>3, <2>4, <2>5 DEF Known, Published
<1>10. CASE StaleTxn(p) \/ AbortTxn(p)
  <2>1. ownerMeta' = ownerMeta /\ roots' = roots /\ verified' = verified
    BY <1>10 DEF StaleTxn, AbortTxn, dbVars
  <2>. QED
    BY <1>1, <1>3, <2>1 DEF Known, Published
<1>. QED
  BY <1>6, <1>7, <1>8, <1>9, <1>10 DEF Txn

LEMMA KnownStep ==
    Typed /\ Settled /\ LeaseInv /\ AllKnown /\ [Next]_vars => AllKnown'
<1>. SUFFICES ASSUME Typed, Settled, LeaseInv, AllKnown, [Next]_vars, NEW p \in Owners
              PROVE  Known(p)'
  BY DEF AllKnown
<1>. USE DEF LeaseInv
<1>1. Known(p)
  BY DEF AllKnown
<1>2. ASSUME RecordKept(p), roots'[p] = roots[p], verified'[p] = verified[p],
             base'[p] = base[p], wiped' = wiped, p \in locks => p \in locks',
             status'[p] = status[p] \/ status'[p] \in Running
      PROVE  Known(p)'
  BY <1>1, <1>2 DEF Known, Published, RecordKept, Running
<1>3. ASSUME ownerMeta'[p] = ownerMeta[p] PROVE RecordKept(p)
  BY <1>3 DEF RecordKept
<1>4. CASE UNCHANGED vars
  BY <1>2, <1>3, <1>4 DEF vars, dbVars, spaceVars
<1>5. ASSUME NEW q \in Owners, Client(q) PROVE Known(p)'
  <2>. USE DEF dbVars, spaceVars
  <2>1. CASE Open(q)
    <3>1. CASE p = q
      BY <1>1, <2>1, <3>1 DEF Open, Known, Published, Running, Typed, TypeOK
    <3>2. CASE p # q
      BY <1>2, <1>3, <2>1, <3>2 DEF Open, Typed, TypeOK
    <3>. QED
      BY <3>1, <3>2
  <2>2. CASE Persist(q)
    BY <1>1, <2>2 DEF Persist, Known, Published, Typed, TypeOK
  <2>3. CASE BeginDispose(q)
    BY <1>2, <1>3, <2>3 DEF BeginDispose, Running, Typed, TypeOK
  <2>4. ASSUME NEW r \in Refs, Drop(q, r) PROVE Known(p)'
    BY <1>1, <2>4 DEF Drop, Known, Published, Typed, TypeOK
  <2>. QED
    BY <1>2, <1>3, <1>5, <2>1, <2>2, <2>3, <2>4
       DEF Client, RequestCollect, RequestGet, RequestBegin, RequestCommit,
           RequestRollback, RequestLeaseGet, RequestPut, AdmitOnLease, Admit
<1>6. ASSUME NEW q \in Owners, Txn(q) PROVE Known(p)'
  <2>1. CASE p = q
    BY <1>6, <2>1, TxnKnown
  <2>2. CASE p # q
    <3>1. /\ locks' = locks /\ status' = status /\ base' = base /\ wiped' = wiped
      BY <1>6, TxnSettles DEF Settle
    <3>2. /\ roots'[p] = roots[p] /\ verified'[p] = verified[p]
          /\ ownerMeta'[p] \in {ownerMeta[p], NoRecord}
          /\ p \in locks => ownerMeta'[p] = ownerMeta[p]
      BY <1>6, <2>2, TxnOthers
    <3>. QED
      BY <1>1, <3>1, <3>2 DEF Known, Published
  <2>. QED
    BY <2>1, <2>2
<1>7. ASSUME NEW q \in Owners, Grant(q) PROVE Known(p)'
  BY <1>2, <1>3, <1>7 DEF Grant, dbVars, spaceVars
<1>8. ASSUME NEW q \in Owners, CleanupTxn(q) \/ CleanupFails(q) \/ Crash(q)
      PROVE  Known(p)'
  <2>1. CASE p = q
    <3>1. roots'[p] = {} /\ verified'[p] = {}
      BY <1>8, <2>1 DEF CleanupTxn, CleanupFails, Crash, Forget, Typed, TypeOK
    <3>2. status'[p] # "new"
      BY <1>8, <2>1 DEF CleanupTxn, CleanupFails, Crash, Typed, TypeOK
    <3>. QED
      BY <3>1, <3>2 DEF Known
  <2>2. CASE p # q
    BY <1>2, <1>3, <1>8, <2>2 DEF CleanupTxn, CleanupFails, Crash, Forget, dbVars, Typed, TypeOK
  <2>. QED
    BY <2>1, <2>2
<1>9. ASSUME NEW q \in Owners, Release(q) PROVE Known(p)'
  <2>1. CASE p = q
    <3>1. status'[p] # "new" /\ status[p] \notin Running /\ UNCHANGED <<dbVars, spaceVars, wiped>>
      BY <1>9, <2>1 DEF Release, Running, Typed, TypeOK
    <3>2. roots[p] = {} /\ verified[p] = {}
      BY <1>1, <3>1 DEF Known
    <3>. QED
      BY <3>1, <3>2 DEF Known, dbVars, spaceVars
  <2>2. CASE p # q
    BY <1>2, <1>3, <1>9, <2>2 DEF Release, dbVars, spaceVars, Typed, TypeOK
  <2>. QED
    BY <2>1, <2>2
<1>10. ASSUME NEW q \in Owners, Heartbeat(q) PROVE Known(p)'
  <2>1. CASE p = q
    <3>1. /\ ownerMeta'[p] = RenewedOwner(p) /\ status[p] = "active"
          /\ UNCHANGED <<locks, status, spaceVars, wiped>>
      BY <1>10, <2>1 DEF Heartbeat, Typed, TypeOK
    <3>. QED
      BY <1>1, <3>1, RenewedRecord DEF Known, Published, spaceVars
  <2>2. CASE p # q
    BY <1>2, <1>3, <1>10, <2>2 DEF Heartbeat, spaceVars, Typed, TypeOK
  <2>. QED
    BY <2>1, <2>2
<1>11. ASSUME NEW q \in Owners, AgeOwner(q) PROVE Known(p)'
  <2>1. RecordKept(p)
    <3>1. CASE p = q
      <4>1. ownerMeta[p] # NoRecord /\ ownerMeta'[p] = [ownerMeta[p] EXCEPT !.fresh = FALSE]
        BY <1>11, <3>1 DEF AgeOwner, Typed, TypeOK
      <4>. QED
        BY <4>1, AgedRecord DEF RecordKept
    <3>2. CASE p # q
      BY <1>3, <1>11, <3>2 DEF AgeOwner, Typed, TypeOK
    <3>. QED
      BY <3>1, <3>2
  <2>. QED
    BY <1>2, <1>11, <2>1 DEF AgeOwner, spaceVars
<1>12. ASSUME NEW l \in Leases, AgeLease(l) PROVE Known(p)'
  BY <1>2, <1>3, <1>12 DEF AgeLease, spaceVars
<1>13. CASE Wipe
  BY <1>1, <1>13 DEF Wipe, Known, Published
<1>. QED
  BY <1>4, <1>5, <1>6, <1>7, <1>8, <1>9, <1>10, <1>11, <1>12, <1>13
     DEF Next, Repository, Environment

(***************************************************************************)
(* The refs reached from a set: they hold the set, are closed under the    *)
(* dependencies of the entries, and are within every such set.             *)
(***************************************************************************)
LEMMA ReachableHolds ==
    ASSUME NEW from PROVE from \cap Refs \subseteq Reachable(entries, from)
  BY DEF Reachable

LEMMA ReachableClosed ==
    ASSUME Typed, NEW from PROVE ClosedUnder(entries, Reachable(entries, from))
<1>. SUFFICES ASSUME NEW r \in Reachable(entries, from), entries[r] # Absent,
                     NEW d \in Dependencies[entries[r]]
              PROVE  d \in Reachable(entries, from)
  BY DEF ClosedUnder
<1>1. r \in Refs /\ entries[r] \in Payloads
  BY DEF Reachable, Typed, TypeOK
<1>2. d \in Refs
  BY <1>1, DependenciesAssumption
<1>3. ASSUME NEW S \in SUBSET Refs, from \subseteq S, ClosedUnder(entries, S)
      PROVE  d \in S
  BY <1>3 DEF Reachable, ClosedUnder
<1>. QED
  BY <1>2, <1>3 DEF Reachable

LEMMA ReachableLeast ==
    ASSUME NEW from, NEW S \in SUBSET Refs, from \subseteq S, ClosedUnder(entries, S)
    PROVE  Reachable(entries, from) \subseteq S
  BY DEF Reachable

(***************************************************************************)
(* A collection hears from every owner that holds something: its record is *)
(* not reaped and has been published since its last commit, or nothing is  *)
(* deleted.  So what it keeps covers everything held.                      *)
(***************************************************************************)
Keeps(K) ==
    /\ K \in SUBSET Refs
    /\ ClosedUnder(entries, K)
    /\ persisted \subseteq K
    /\ \A q \in Owners : verified[q] \subseteq K

LEMMA CollectKeeps ==
    ASSUME Typed, LeaseInv, AllKnown, NEW p \in Owners, CollectTxn(p)
    PROVE  \/ entries' = entries
           \/ \E K : /\ Keeps(K)
                     /\ entries' = [r \in Refs |-> IF r \in K THEN entries[r] ELSE Absent]
<1>. DEFINE live == grant[p]
            refs == Head(queue[p]).refs
            om == [MaintainedOwners(p, live) EXCEPT ![p].reachable = refs]
            lm == MaintainedLeases(p, live)
            owners == ActiveOwners(p, live, om, lm)
            K == Kept(om, owners)
<1>. SUFFICES ASSUME ~Blocked(om, owners)
              PROVE  Keeps(K)
  BY DEF CollectTxn
<1>1. grant[p] # NotGranted /\ Locking
  BY DEF CollectTxn, Granted, LeaseInv
<1>2. K \in SUBSET Refs /\ ClosedUnder(entries, K)
  BY ReachableClosed DEF Kept, Reachable
<1>3. persisted \subseteq K
  BY ReachableHolds DEF Kept, Typed, TypeOK
<1>4. ASSUME NEW q \in Owners, verified[q] # {}
      PROVE  q \in owners /\ verified[q] \subseteq om[q].reachable
  <2>1. verified[q] \subseteq roots[q] /\ ownerMeta[q] # NoRecord /\ q \in locks
    BY <1>4 DEF AllKnown, Known
  <2>2. CASE q = p
    <3>1. MaintainedOwners(p, live)[p] = RenewedOwner(p)
      BY DEF MaintainedOwners
    <3>2. /\ RenewedOwner(p) \in OwnerRecord
          /\ RenewedOwner(p).fresh = TRUE
      BY <3>1, MaintenanceTyping, RenewedRecord DEF Typed
    <3>3. refs \in SUBSET Refs /\ roots[p] \subseteq refs
      BY CollectPassesRoots DEF LeaseInv
    <3>4. om[p] = [RenewedOwner(p) EXCEPT !.reachable = refs]
      BY <3>1 DEF MaintainedOwners
    <3>5. om[p] \in OwnerRecord /\ om[p].reachable = refs /\ om[p].fresh = TRUE
      BY <3>2, <3>3, <3>4 DEF OwnerRecord
    <3>6. om[p] # NoRecord
      BY <3>5, SentinelAssumption
    <3>7. p \in owners
      BY <3>5, <3>6 DEF ActiveOwners
    <3>. QED
      BY <2>1, <2>2, <3>3, <3>5, <3>7
  <2>3. CASE q # p
    <3>1. MaintainedOwners(p, live)[q] = ownerMeta[q] /\ MayLive(p, live, q)
      BY <1>1, <2>1, <2>3, MaintenanceKeepsHolders
    <3>2. om[q] = ownerMeta[q]
      BY <2>3, <3>1 DEF MaintainedOwners
    <3>3. q \in owners
      BY <2>1, <3>1, <3>2 DEF ActiveOwners
    <3>4. ownerMeta[q].reachable # Unpublished
      BY <3>2, <3>3 DEF Blocked
    <3>. QED
      BY <2>1, <3>2, <3>3, <3>4 DEF AllKnown, Known, Published
  <2>. QED
    BY <2>2, <2>3
<1>5. ASSUME NEW q \in Owners PROVE verified[q] \subseteq K
  <2>1. verified[q] \subseteq UnionOf(om, owners)
    <3>1. CASE verified[q] = {}
      BY <3>1
    <3>2. CASE verified[q] # {}
      <4>. HIDE DEF om, owners
      <4>. QED
        BY <1>4, <3>2 DEF UnionOf
    <3>. QED
      BY <3>1, <3>2
  <2>2. verified[q] \subseteq Refs
    BY DEF Typed, TypeOK
  <2>. QED
    BY <2>1, <2>2, ReachableHolds DEF Kept
<1>. QED
  BY <1>2, <1>3, <1>5 DEF Keeps

(***************************************************************************)
(* What is in the store is there with its dependencies, and everything     *)
(* held is in the store.                                                   *)
(***************************************************************************)
Stored == {r \in Refs : entries[r] # Absent}

Supported ==
    /\ ClosedUnder(entries, Stored)
    /\ \A p \in Owners : verified[p] \subseteq Stored
    /\ ~wiped => persisted \subseteq Stored

\* A commit adds the rows of its lease, which hold their own dependencies.
LEMMA CommitAdds ==
    ASSUME Typed, LeaseInv, Supported, NEW p \in Owners, CommitTxn(p)
    PROVE  \E l \in Leases :
              /\ \A r \in Refs : entries'[r] = IF entries[r] = Absent THEN staged[l][r] ELSE entries[r]
              /\ StagedRefs(l) = leaseRefs[l]
              /\ \A r \in leaseRefs[l] : Dependencies[staged[l][r]] \subseteq leaseRefs[l]
              /\ verified' = [verified EXCEPT ![p] = @ \cup leaseRefs[l]]
<1>. DEFINE l == Head(queue[p]).lease
<1>1. grant[p] # NotGranted /\ Head(queue[p]).op = "commit"
  BY DEF CommitTxn, Granted
<1>2. l \in Leases /\ leaseOwner[l] = p /\ phase[l] = "busy"
  BY <1>1, HeadClaims DEF LeaseInv, LeaseOps
<1>3. OwnLease(leaseOwner[l], l)
  BY <1>2 DEF CommitTxn, LeaseValid
<1>4. /\ StagedRefs(l) = leaseRefs[l]
      /\ \A r \in leaseRefs[l] : Dependencies[staged[l][r]] \subseteq leaseRefs[l]
  BY <1>2, <1>3 DEF LeaseInv, Intact, OpenIntact
<1>5. /\ \A r \in Refs : entries'[r] = IF entries[r] = Absent THEN staged[l][r] ELSE entries[r]
      /\ verified' = [verified EXCEPT ![p] = @ \cup leaseRefs[l]]
  BY DEF CommitTxn, Merged
<1>. QED
  BY <1>2, <1>4, <1>5

LEMMA CommitSupports ==
    ASSUME Typed, LeaseInv, Supported, NEW p \in Owners, CommitTxn(p)
    PROVE  Supported' /\ Stored \subseteq Stored'
<1>1. PICK l \in Leases :
         /\ \A r \in Refs : entries'[r] = IF entries[r] = Absent THEN staged[l][r] ELSE entries[r]
         /\ StagedRefs(l) = leaseRefs[l]
         /\ \A r \in leaseRefs[l] : Dependencies[staged[l][r]] \subseteq leaseRefs[l]
         /\ verified' = [verified EXCEPT ![p] = @ \cup leaseRefs[l]]
  BY CommitAdds
<1>2. Stored' = Stored \cup leaseRefs[l]
  BY <1>1 DEF Stored, StagedRefs
<1>3. ASSUME NEW r \in Stored' PROVE Dependencies[entries'[r]] \subseteq Stored'
  <2>1. CASE entries[r] # Absent
    BY <1>1, <1>2, <1>3, <2>1 DEF Supported, ClosedUnder, Stored
  <2>2. CASE entries[r] = Absent
    BY <1>1, <1>2, <1>3, <2>2 DEF Stored
  <2>. QED
    BY <2>1, <2>2
<1>4. \A q \in Owners : verified'[q] \subseteq Stored'
  BY <1>1, <1>2 DEF Supported, Typed, TypeOK
<1>5. persisted' = persisted /\ wiped' = wiped
  BY DEF CommitTxn, Settle
<1>. QED
  BY <1>2, <1>3, <1>4, <1>5 DEF Supported, ClosedUnder

LEMMA CollectSupports ==
    ASSUME Typed, LeaseInv, AllKnown, Supported, NEW p \in Owners, CollectTxn(p)
    PROVE  Supported'
<1>1. UNCHANGED <<verified, persisted, wiped>>
  BY DEF CollectTxn, Settle
<1>2. CASE entries' = entries
  BY <1>1, <1>2 DEF Supported, Stored
<1>3. CASE entries' # entries
  <2>1. PICK K : /\ Keeps(K)
                 /\ entries' = [r \in Refs |-> IF r \in K THEN entries[r] ELSE Absent]
    BY <1>3, CollectKeeps
  <2>2. Stored' = Stored \cap K
    BY <2>1 DEF Stored, Keeps
  <2>3. ClosedUnder(entries, Stored)'
    BY <2>1, <2>2 DEF Supported, ClosedUnder, Keeps, Stored
  <2>. QED
    BY <1>1, <2>1, <2>2, <2>3 DEF Supported, Keeps
<1>. QED
  BY <1>2, <1>3

LEMMA SupportedStep ==
    Typed /\ LeaseInv /\ AllKnown /\ Supported /\ [Next]_vars => Supported'
<1>. SUFFICES ASSUME Typed, LeaseInv, AllKnown, Supported, [Next]_vars PROVE Supported'
  OBVIOUS
<1>1. ASSUME entries' = entries, wiped' = wiped, persisted' = persisted,
             \A p \in Owners : verified'[p] \subseteq verified[p]
      PROVE  Supported'
  BY <1>1 DEF Supported, Stored
<1>2. CASE UNCHANGED vars
  BY <1>1, <1>2 DEF vars, dbVars, spaceVars
<1>3. ASSUME NEW p \in Owners, Client(p) PROVE Supported'
  <2>. USE DEF dbVars, spaceVars
  <2>1. CASE Persist(p)
    <3>1. ~wiped => roots[p] \subseteq Stored
      BY <2>1 DEF Persist, AllKnown, Known, Supported
    <3>2. UNCHANGED <<entries, verified, wiped>> /\ persisted' = roots[p]
      BY <2>1 DEF Persist
    <3>. QED
      BY <3>1, <3>2 DEF Supported, Stored
  <2>2. ASSUME NEW r \in Refs, Drop(p, r) PROVE Supported'
    BY <1>1, <2>2 DEF Drop, Typed, TypeOK
  <2>. QED
    BY <1>1, <1>3, <2>1, <2>2
       DEF Client, Open, BeginDispose, RequestCollect, RequestGet, RequestBegin,
           RequestCommit, RequestRollback, RequestLeaseGet, RequestPut, AdmitOnLease
<1>4. ASSUME NEW p \in Owners, Txn(p) PROVE Supported'
  <2>1. Settle(p)
    BY <1>4, TxnSettles
  <2>2. CASE BeginTxn(p) \/ PutTxn(p) \/ LeaseGetTxn(p) \/ RollbackTxn(p)
    BY <1>1, <2>1, <2>2 DEF BeginTxn, PutTxn, LeaseGetTxn, RollbackTxn, Settle
  <2>3. CASE CommitTxn(p)
    BY <2>3, CommitSupports
  <2>4. CASE CollectTxn(p)
    BY <2>4, CollectSupports
  <2>5. CASE GetTxn(p)
    <3>1. entries' = entries /\ wiped' = wiped /\ persisted' = persisted
      BY <2>1, <2>5 DEF GetTxn, Settle
    <3>2. \A q \in Owners : verified'[q] \subseteq verified[q] \cup Stored
      BY <2>5 DEF GetTxn, Stored, Typed, TypeOK
    <3>. QED
      BY <3>1, <3>2 DEF Supported, Stored
  <2>6. CASE StaleTxn(p) \/ AbortTxn(p)
    BY <1>1, <2>1, <2>6 DEF StaleTxn, AbortTxn, Settle, dbVars
  <2>. QED
    BY <1>4, <2>2, <2>3, <2>4, <2>5, <2>6 DEF Txn
<1>5. ASSUME NEW p \in Owners, Grant(p) \/ Release(p) PROVE Supported'
  BY <1>1, <1>5 DEF Grant, Release, dbVars, spaceVars
<1>6. ASSUME NEW p \in Owners, CleanupTxn(p) \/ CleanupFails(p) \/ Crash(p) PROVE Supported'
  BY <1>1, <1>6 DEF CleanupTxn, CleanupFails, Crash, Forget, dbVars, Typed, TypeOK
<1>7. ASSUME NEW p \in Owners, Heartbeat(p) \/ AgeOwner(p) PROVE Supported'
  BY <1>1, <1>7 DEF Heartbeat, AgeOwner, spaceVars
<1>8. ASSUME NEW l \in Leases, AgeLease(l) PROVE Supported'
  BY <1>1, <1>8 DEF AgeLease, spaceVars
<1>9. CASE Wipe
  BY <1>9 DEF Wipe, Supported, Stored, ClosedUnder, NoRows
<1>. QED
  BY <1>2, <1>3, <1>4, <1>5, <1>6, <1>7, <1>8, <1>9 DEF Next, Repository, Environment

HeldInv == AllKnown /\ Supported

LEMMA AlwaysHeld == Spec => []HeldInv
<1>1. Init => HeldInv
  BY DEF Init, HeldInv, AllKnown, Known, Published, Supported, Stored, ClosedUnder, NoRows
<1>2. Typed /\ Settled /\ LeaseInv /\ HeldInv /\ [Next]_vars => HeldInv'
  BY KnownStep, SupportedStep DEF HeldInv
<1>. QED
  BY <1>1, <1>2, AlwaysTyped, AlwaysSettled, AlwaysLeaseInv, PTL DEF Spec

(***************************************************************************)
(* No collection ever deletes a resource that a running owner has          *)
(* committed or read and still reaches, nor a dependency of one.           *)
(***************************************************************************)
THEOREM HeldStaysPresent == Spec => []HeldResourcesPresent
<1>1. ASSUME Typed, HeldInv PROVE HeldResourcesPresent
  <2>1. ASSUME NEW p \in Owners PROVE Reachable(entries, verified[p]) \subseteq Stored
    BY <1>1, ReachableLeast DEF HeldInv, Supported, Stored
  <2>. QED
    BY <2>1 DEF HeldResourcesPresent, Present, Stored
<1>. QED
  BY <1>1, AlwaysTyped, AlwaysHeld, PTL

(***************************************************************************)
(* The saved workspace never names a resource that the repository has      *)
(* lost, unless the database itself was cleared.                           *)
(***************************************************************************)
THEOREM SavedStaysPresent == Spec => []SavedResourcesPresent
<1>1. ASSUME Typed, HeldInv PROVE SavedResourcesPresent
  <2>1. ~wiped => Reachable(entries, persisted) \subseteq Stored
    BY <1>1, ReachableLeast DEF HeldInv, Supported, Stored
  <2>. QED
    BY <2>1 DEF SavedResourcesPresent, Present, Stored
<1>. QED
  BY <1>1, AlwaysTyped, AlwaysHeld, PTL

(***************************************************************************)
(* Every step of the repository is one of the store's, or none: a commit   *)
(* publishes, a collection reclaims, and everything else at most changes   *)
(* what is held, within what is stored.                                    *)
(***************************************************************************)
StoreInv == Typed /\ Settled /\ LeaseInv /\ HeldInv /\ ~wiped

LEMMA CommitPublishes ==
    ASSUME StoreInv, StoreInv', NEW p \in Owners, CommitTxn(p) PROVE Store!Publish
<1>. USE DEF StoreInv, HeldInv
<1>1. PICK l \in Leases :
         /\ \A r \in Refs : entries'[r] = IF entries[r] = Absent THEN staged[l][r] ELSE entries[r]
         /\ StagedRefs(l) = leaseRefs[l]
         /\ \A r \in leaseRefs[l] : Dependencies[staged[l][r]] \subseteq leaseRefs[l]
         /\ verified' = [verified EXCEPT ![p] = @ \cup leaseRefs[l]]
  BY CommitAdds
<1>2. entries' \in {es \in [Refs -> Payloads \cup {Absent}] :
                       \A r \in Refs : r \in leaseRefs[l] \/ es[r] = entries[r]}
  BY <1>1 DEF StagedRefs, Typed, TypeOK
<1>3. leaseRefs[l] \in SUBSET Refs
  BY DEF Typed, TypeOK
<1>4. \A r \in Store!Present(entries) : entries'[r] = entries[r]
  BY <1>1 DEF Store!Present
<1>5. \A r \in Store!Present(entries') :
         Dependencies[entries'[r]] \subseteq Store!Present(entries')
  BY DEF Supported, ClosedUnder, Stored, Store!Present
<1>6. Held' \in SUBSET Store!Present(entries')
  BY DEF Supported, Held, Stored, Store!Present
<1>7. Held \subseteq Held'
  BY <1>1 DEF CommitTxn, Settle, Held, Typed, TypeOK
<1>. QED
  BY <1>2, <1>3, <1>4, <1>5, <1>6, <1>7 DEF Store!Publish

LEMMA CollectReclaims ==
    ASSUME StoreInv, NEW p \in Owners, CollectTxn(p)
    PROVE  Store!Reclaim \/ UNCHANGED <<entries, Held>>
<1>. USE DEF StoreInv, HeldInv
<1>1. Held' = Held
  BY DEF CollectTxn, Settle, Held
<1>2. CASE entries' # entries
  <2>1. PICK K : /\ Keeps(K)
                 /\ entries' = [r \in Refs |-> IF r \in K THEN entries[r] ELSE Absent]
    BY <1>2, CollectKeeps
  <2>2. Held \subseteq K
    BY <2>1 DEF Keeps, Held
  <2>3. Store!Needed(Held) \subseteq K
    BY <2>1, <2>2 DEF Keeps, ClosedUnder, Store!Needed
  <2>4. Refs \ K \in SUBSET (Refs \ Store!Needed(Held))
    BY <2>3
  <2>5. entries' = [r \in Refs |-> IF r \in Refs \ K THEN Absent ELSE entries[r]]
    BY <2>1
  <2>. QED
    BY <1>1, <2>4, <2>5 DEF Store!Reclaim
<1>. QED
  BY <1>1, <1>2

LEMMA StoreStep ==
    ASSUME "wipe" \notin Faults, StoreInv, StoreInv', [Next]_vars
    PROVE  [Store!Next]_<<entries, Held>>
<1>1. ASSUME entries' = entries PROVE Store!Rely
  <2>1. Held' \subseteq Stored'
    BY DEF StoreInv, HeldInv, Supported, Held
  <2>. QED
    BY <1>1, <2>1 DEF Store!Rely, Store!Present, Stored
<1>2. CASE UNCHANGED vars
  BY <1>1, <1>2 DEF vars, dbVars, Store!Next
<1>3. ASSUME NEW p \in Owners, Client(p) PROVE Store!Rely
  BY <1>1, <1>3
     DEF Client, Open, Persist, RequestCollect, BeginDispose, Drop, RequestGet,
         RequestBegin, RequestCommit, RequestRollback, RequestLeaseGet, RequestPut,
         AdmitOnLease, dbVars
<1>4. ASSUME NEW p \in Owners, Txn(p) PROVE [Store!Next]_<<entries, Held>>
  <2>1. CASE CommitTxn(p)
    BY <2>1, CommitPublishes DEF Store!Next
  <2>2. CASE CollectTxn(p)
    BY <2>2, CollectReclaims DEF Store!Next
  <2>3. CASE BeginTxn(p) \/ PutTxn(p) \/ LeaseGetTxn(p) \/ RollbackTxn(p) \/ GetTxn(p)
    BY <1>1, <2>3 DEF BeginTxn, PutTxn, LeaseGetTxn, RollbackTxn, GetTxn, Store!Next
  <2>4. CASE StaleTxn(p) \/ AbortTxn(p)
    BY <1>1, <2>4 DEF StaleTxn, AbortTxn, dbVars, Store!Next
  <2>. QED
    BY <1>4, <2>1, <2>2, <2>3, <2>4 DEF Txn
<1>5. ASSUME NEW p \in Owners,
             Grant(p) \/ CleanupTxn(p) \/ CleanupFails(p) \/ Release(p) \/ Crash(p)
      PROVE  Store!Rely
  BY <1>1, <1>5 DEF Grant, CleanupTxn, CleanupFails, Release, Crash, dbVars
<1>6. ASSUME NEW p \in Owners, Heartbeat(p) \/ AgeOwner(p) PROVE Store!Rely
  BY <1>1, <1>6 DEF Heartbeat, AgeOwner
<1>7. ASSUME NEW l \in Leases, AgeLease(l) PROVE Store!Rely
  BY <1>1, <1>7 DEF AgeLease
<1>8. ~Wipe
  BY DEF Wipe
<1>. QED
  BY <1>2, <1>3, <1>4, <1>5, <1>6, <1>7, <1>8 DEF Next, Repository, Environment, Store!Next

(***************************************************************************)
(* Unless the database is cleared, the repository implements the store of  *)
(* AssetStore: batches appear whole, and only what nothing held needs is   *)
(* ever reclaimed.                                                         *)
(***************************************************************************)
THEOREM RepositoryImplementsStore ==
    ASSUME "wipe" \notin Faults PROVE Spec => ImplementsStore
<1>1. Init => Store!Init
  BY DEF Init, Store!Init, Held, NoRows, Running
<1>2. Init => ~wiped
  BY DEF Init
<1>3. ~wiped /\ [Next]_vars => ~wiped'
  BY WipedStep DEF Wipe
<1>4. Spec => []~wiped
  BY <1>2, <1>3, PTL DEF Spec
<1>5. Spec => []StoreInv
  BY <1>4, AlwaysTyped, AlwaysSettled, AlwaysLeaseInv, AlwaysHeld, PTL DEF StoreInv
<1>6. StoreInv /\ StoreInv' /\ [Next]_vars => [Store!Next]_<<entries, Held>>
  BY StoreStep
<1>. QED
  BY <1>1, <1>5, <1>6, PTL DEF Spec, ImplementsStore, Store!Spec, Store!storeVars

(***************************************************************************)
(* Entries appear by the commit of a lease that holds them, keep their     *)
(* content while they are there, and a commit publishes the whole lease.   *)
(***************************************************************************)
LEMMA CommitStep ==
    ASSUME Typed, LeaseInv, NEW p \in Owners, CommitTxn(p)
    PROVE  AppearsByCommit /\ KeepsContent /\ CommitsWhole
<1>. DEFINE k == Head(queue[p]).lease
<1>1. grant[p] # NotGranted /\ Head(queue[p]).op = "commit"
  BY DEF CommitTxn, Granted
<1>2. k \in Leases /\ leaseOwner[k] = p /\ phase[k] = "busy"
  BY <1>1, HeadClaims DEF LeaseInv, LeaseOps
<1>3. StagedRefs(k) = leaseRefs[k]
  BY <1>2 DEF CommitTxn, LeaseValid, LeaseInv, Intact, OpenIntact
<1>4. /\ entries' = Merged(staged[k]) /\ ~Conflicting(staged[k])
      /\ phase' = [phase EXCEPT ![k] = "ended"]
  BY DEF CommitTxn
<1>5. AppearsByCommit
  <2>1. ASSUME NEW r \in Refs, entries[r] = Absent, entries'[r] # Absent
        PROVE  r \in leaseRefs[k] /\ phase'[k] = "ended"
    BY <1>2, <1>3, <1>4, <2>1 DEF Merged, StagedRefs, Typed, TypeOK
  <2>. QED
    BY <1>2, <2>1 DEF AppearsByCommit
<1>6. KeepsContent
  BY <1>4 DEF KeepsContent, Merged
<1>7. CommitsWhole
  <2>. SUFFICES ASSUME NEW q \in Owners, NEW l \in Leases, Commits(q, l),
                       NEW r \in leaseRefs[l]
                PROVE  entries'[r] = staged[l][r] /\ entries'[r] # Absent
    BY DEF CommitsWhole
  <2>1. l = k
    BY <1>4 DEF Commits, Typed, TypeOK
  <2>2. r \in Refs /\ staged[k][r] # Absent
    BY <1>3, <2>1 DEF StagedRefs
  <2>3. entries[r] \in {Absent, staged[k][r]}
    BY <1>4, <2>2 DEF Conflicting
  <2>4. entries'[r] = staged[k][r]
    BY <1>4, <2>2, <2>3 DEF Merged
  <2>. QED
    BY <2>1, <2>2, <2>4
<1>. QED
  BY <1>5, <1>6, <1>7

\* No other step is the commit of a running owner's lease.
LEMMA OtherStep ==
    ASSUME Typed, Settled, LeaseInv, AllKnown, [Next]_vars,
           \A p \in Owners : ~CommitTxn(p)
    PROVE  AppearsByCommit /\ KeepsContent /\ CommitsWhole
<1>1. \A r \in Refs : entries'[r] \in {entries[r], Absent}
  <2>1. ASSUME entries' = entries PROVE \A r \in Refs : entries'[r] \in {entries[r], Absent}
    BY <2>1
  <2>2. CASE UNCHANGED vars
    BY <2>1, <2>2 DEF vars, dbVars
  <2>3. ASSUME NEW p \in Owners, Client(p)
        PROVE  \A r \in Refs : entries'[r] \in {entries[r], Absent}
    BY <2>1, <2>3
       DEF Client, Open, Persist, RequestCollect, BeginDispose, Drop, RequestGet,
           RequestBegin, RequestCommit, RequestRollback, RequestLeaseGet, RequestPut,
           AdmitOnLease, dbVars
  <2>4. ASSUME NEW p \in Owners, Txn(p)
        PROVE  \A r \in Refs : entries'[r] \in {entries[r], Absent}
    <3>1. CASE CollectTxn(p)
      BY <3>1 DEF CollectTxn
    <3>2. CASE BeginTxn(p) \/ PutTxn(p) \/ LeaseGetTxn(p) \/ RollbackTxn(p) \/ GetTxn(p)
      BY <2>1, <3>2 DEF BeginTxn, PutTxn, LeaseGetTxn, RollbackTxn, GetTxn
    <3>3. CASE StaleTxn(p) \/ AbortTxn(p)
      BY <2>1, <3>3 DEF StaleTxn, AbortTxn, dbVars
    <3>. QED
      BY <2>4, <3>1, <3>2, <3>3 DEF Txn
  <2>5. ASSUME NEW p \in Owners,
               Grant(p) \/ CleanupTxn(p) \/ CleanupFails(p) \/ Release(p) \/ Crash(p)
        PROVE  \A r \in Refs : entries'[r] \in {entries[r], Absent}
    BY <2>1, <2>5 DEF Grant, CleanupTxn, CleanupFails, Release, Crash, dbVars
  <2>6. ASSUME NEW p \in Owners, Heartbeat(p) \/ AgeOwner(p)
        PROVE  \A r \in Refs : entries'[r] \in {entries[r], Absent}
    BY <2>1, <2>6 DEF Heartbeat, AgeOwner
  <2>7. ASSUME NEW l \in Leases, AgeLease(l)
        PROVE  \A r \in Refs : entries'[r] \in {entries[r], Absent}
    BY <2>1, <2>7 DEF AgeLease
  <2>8. CASE Wipe
    BY <2>8 DEF Wipe, NoRows
  <2>. QED
    BY <2>2, <2>3, <2>4, <2>5, <2>6, <2>7, <2>8 DEF Next, Repository, Environment
<1>2. ASSUME NEW q \in Owners, NEW l \in Leases PROVE ~Commits(q, l)
  <2>. SUFFICES ASSUME Commits(q, l) PROVE FALSE
    OBVIOUS
  <2>1. /\ leaseOwner[l] = q /\ phase[l] = "busy" /\ phase'[l] = "ended"
        /\ status'[q] \in Running /\ OwnLease(q, l)
        /\ Head(queue[q]).op = "commit"
    BY DEF Commits
  <2>2. CASE UNCHANGED vars
    BY <2>1, <2>2 DEF vars, leaseVars
  <2>3. ASSUME NEW p \in Owners, Client(p) PROVE FALSE
    BY <2>1, <2>3
       DEF Client, Open, Persist, RequestCollect, BeginDispose, Drop, RequestGet,
           RequestBegin, RequestCommit, RequestRollback, RequestLeaseGet, RequestPut,
           AdmitOnLease, leaseVars, Typed, TypeOK
  <2>4. ASSUME NEW p \in Owners, Txn(p) PROVE FALSE
    <3>1. Head(queue[p]).op \in LeaseOps /\ Head(queue[p]).lease = l
      BY <2>1, <2>4, TxnEffect DEF Undisturbed
    <3>2. leaseOwner[l] = p
      BY <2>4, <3>1, TxnSettles, HeadClaims DEF LeaseInv
    <3>3. p = q /\ Head(queue[p]).op = "commit"
      BY <2>1, <3>2
    <3>4. ~StaleTxn(p)
      BY <2>1, <3>1, <3>3 DEF StaleTxn, LeaseValid
    <3>5. ~AbortTxn(p)
      BY <2>1, <3>1, <3>3 DEF AbortTxn, Typed, TypeOK
    <3>. QED
      BY <2>4, <3>3, <3>4, <3>5
         DEF Txn, Granted, BeginTxn, PutTxn, LeaseGetTxn, RollbackTxn, GetTxn, CollectTxn
  <2>5. ASSUME NEW p \in Owners, Grant(p) \/ Release(p) PROVE FALSE
    BY <2>1, <2>5 DEF Grant, Release, leaseVars
  <2>6. ASSUME NEW p \in Owners, CleanupTxn(p) \/ CleanupFails(p) \/ Crash(p) PROVE FALSE
    <3>1. p = q
      BY <2>1, <2>6 DEF CleanupTxn, CleanupFails, Crash, Forget
    <3>. QED
      BY <2>1, <2>6, <3>1 DEF CleanupTxn, CleanupFails, Crash, Running, Typed, TypeOK
  <2>7. ASSUME NEW p \in Owners, Heartbeat(p) \/ AgeOwner(p) PROVE FALSE
    BY <2>1, <2>7 DEF Heartbeat, AgeOwner, leaseVars
  <2>8. ASSUME NEW k \in Leases, AgeLease(k) PROVE FALSE
    BY <2>1, <2>8 DEF AgeLease, leaseVars
  <2>9. CASE Wipe
    BY <2>1, <2>9 DEF Wipe, leaseVars
  <2>. QED
    BY <2>2, <2>3, <2>4, <2>5, <2>6, <2>7, <2>8, <2>9 DEF Next, Repository, Environment
<1>. QED
  BY <1>1, <1>2 DEF AppearsByCommit, KeepsContent, CommitsWhole

(***************************************************************************)
(* A lease publishes everything or nothing, and what it publishes is what  *)
(* it staged (commitLease).                                                *)
(***************************************************************************)
THEOREM CommitsAreAtomic == Spec => CommitIsAtomic
<1>1. ASSUME Typed, Settled, LeaseInv, AllKnown, [Next]_vars
      PROVE  [AppearsByCommit /\ KeepsContent /\ CommitsWhole]_vars
  BY <1>1, CommitStep, OtherStep
<1>. QED
  BY <1>1, AlwaysTyped, AlwaysSettled, AlwaysLeaseInv, AlwaysHeld, PTL
     DEF Spec, HeldInv, CommitIsAtomic
=============================================================================
