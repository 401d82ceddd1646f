----------------------- MODULE ExportLifetimeProofs -----------------------
(***************************************************************************)
(* Theorems about ExportLifetime, for any number of registrations, hidden  *)
(* trees, exports, calls and runtimes.                                     *)
(***************************************************************************)
EXTENDS ExportLifetime, FiniteSetTheorems, TLAPS

(***************************************************************************)
(* Export owners.  An owner that an export can run in, or is being cleaned *)
(* up in, is the one the store knows; the store gets another one only when *)
(* the tree was hidden and that one was disposed of.                       *)
(***************************************************************************)
OwnerTypes ==
    /\ tree \in {"shown", "hidden", "crashed"}
    /\ hides \in 0 .. MaxHides
    /\ entry \in 1 .. hides + 1
    /\ mapped \in {0, entry}
    /\ teardownDue \in {0, entry}
    /\ phase \in [Owners -> {"none", "idle", "running", "cancelling", "disposing", "disposed"}]
    /\ active \in [Owners -> Exports \cup {NoExport}]

JobShape ==
    /\ job = [j \in Exports |-> job[j]]
    /\ \A j \in Exports :
          job[j] = [state |-> job[j].state, entry |-> job[j].entry, source |-> job[j].source,
                    reg |-> job[j].reg, gen |-> job[j].gen, holds |-> job[j].holds]

Busy == {"running", "cancelling", "disposing"}

StoreHasOwner == \A e \in Owners : phase[e] \in {"idle"} \cup Busy => e = mapped

OwnerHasExport == \A e \in Owners : active[e] # NoExport <=> phase[e] \in Busy

ExportHasOwner ==
    \A j \in Exports : j \in Unsettled =>
        job[j].entry \in Owners /\ active[job[j].entry] = j

\* An owner that goes has been hidden once: there is a place for the next.
HiddenBefore ==
    /\ tree = "shown" => teardownDue = 0
    /\ tree # "shown" \/ teardownDue # 0 \/ phase[entry] \in {"disposing", "disposed"}
           => entry <= hides

ExportInv ==
    OwnerTypes /\ JobShape /\ StoreHasOwner /\ OwnerHasExport /\ ExportHasOwner /\ HiddenBefore

LEMMA EntryIsOwner ==
    ASSUME OwnerTypes
    PROVE  entry \in Owners /\ entry \in Nat /\ hides \in Nat
BY LifetimeAssumption DEF OwnerTypes, Owners

LEMMA ExportInit == Init => ExportInv
BY LifetimeAssumption
   DEF Init, ExportInv, OwnerTypes, JobShape, StoreHasOwner, OwnerHasExport, ExportHasOwner,
       HiddenBefore, Unsettled, Busy, NewJob, Owners

\* Two exports that have not settled are one.
LEMMA SoleExport ==
    ASSUME ExportInv, NEW j \in Unsettled, NEW k \in Unsettled
    PROVE  j = k
<1>1. /\ job[j].entry \in Owners /\ active[job[j].entry] = j /\ j # NoExport
      /\ job[k].entry \in Owners /\ active[job[k].entry] = k /\ k # NoExport
    BY LifetimeAssumption DEF ExportInv, ExportHasOwner, Unsettled
<1>2. job[j].entry = mapped /\ job[k].entry = mapped
    BY <1>1 DEF ExportInv, StoreHasOwner, OwnerHasExport, Busy
<1> QED
    BY <1>1, <1>2

LEMMA AtMostOne ==
    ASSUME ExportInv
    PROVE  OneExportAtATime
<1>1. \A j, k \in Unsettled : j = k
    BY SoleExport
<1>2. CASE Unsettled = {}
    BY <1>2, FS_EmptySet DEF OneExportAtATime
<1>3. CASE Unsettled # {}
    <2>1. PICK j : Unsettled = {j}
        BY <1>1, <1>3
    <2>2. Cardinality({j}) = 1
        BY FS_Singleton
    <2> QED
        BY <2>1, <2>2 DEF OneExportAtATime
<1> QED
    BY <1>2, <1>3

(***************************************************************************)
(* The steps.                                                              *)
(***************************************************************************)
\* What the invariant is about.
LEMMA AloneExports ==
    ASSUME ExportInv, UNCHANGED <<tree, hides, exportVars, job>>
    PROVE  ExportInv'
BY DEF ExportInv, OwnerTypes, JobShape, StoreHasOwner, OwnerHasExport, ExportHasOwner,
       HiddenBefore, Unsettled, exportVars

\* Exports of hidden or replaced registrations are cancelled; the owners stay.
CancelsSome ==
    \E es \in SUBSET Owners :
        /\ \A e \in es : phase[e] = "running"
        /\ phase' = [e \in Owners |-> IF e \in es THEN "cancelling" ELSE phase[e]]

LEMMA CancelIsSome ==
    ASSUME NEW r, CancelExports(r)
    PROVE  CancelsSome
BY DEF CancelExports, Cancelled, CancelsSome

LEMMA CancellingExports ==
    ASSUME ExportInv, CancelsSome \/ UNCHANGED phase,
           UNCHANGED <<hides, entry, mapped, active, job>>,
           \/ UNCHANGED <<tree, teardownDue>>
           \/ tree' = "shown" /\ teardownDue' = 0
    PROVE  ExportInv'
<1>1. /\ phase' \in [Owners -> {"none", "idle", "running", "cancelling", "disposing", "disposed"}]
      /\ \A e \in Owners : phase'[e] = phase[e] \/ (phase[e] = "running" /\ phase'[e] = "cancelling")
    BY DEF CancelsSome, ExportInv, OwnerTypes
<1>2. OwnerTypes' /\ JobShape'
    BY <1>1 DEF ExportInv, OwnerTypes, JobShape
<1>3. StoreHasOwner' /\ OwnerHasExport'
    BY <1>1 DEF ExportInv, StoreHasOwner, OwnerHasExport, Busy
<1>4. ExportHasOwner'
    BY DEF ExportInv, ExportHasOwner, Unsettled
<1>5. HiddenBefore'
    BY <1>1, EntryIsOwner DEF ExportInv, HiddenBefore
<1> QED
    BY <1>2, <1>3, <1>4, <1>5 DEF ExportInv

LEMMA HideExports ==
    ASSUME ExportInv, Hide
    PROVE  ExportInv'
BY EntryIsOwner, LifetimeAssumption
   DEF Hide, ExportInv, OwnerTypes, JobShape, StoreHasOwner, OwnerHasExport, ExportHasOwner,
       HiddenBefore, Unsettled, jobVars

LEMMA FailExports ==
    ASSUME ExportInv, NEW r, ShowFails(r)
    PROVE  ExportInv'
<1>1. tree = "hidden"
    BY DEF ShowFails, Reconnectable
<1> QED
    BY <1>1, EntryIsOwner
    DEF ShowFails, ExportInv, OwnerTypes, JobShape, StoreHasOwner, OwnerHasExport, ExportHasOwner,
        HiddenBefore, Unsettled, jobVars

LEMMA CommitExports ==
    ASSUME ExportInv, NEW r, Replace(r) \/ ShowSame(r) \/ ShowNew(r)
    PROVE  ExportInv'
<1>1. CancelsSome \/ UNCHANGED phase
    BY CancelIsSome DEF Replace, ShowSame, ShowNew, CommitPipeline
<1>2. /\ UNCHANGED <<hides, entry, mapped, active, job>>
      /\ \/ UNCHANGED <<tree, teardownDue>>
         \/ tree' = "shown" /\ teardownDue' = 0
    BY DEF Replace, ShowSame, ShowNew
<1> QED
    BY <1>1, <1>2, CancellingExports

LEMMA RenderExports ==
    ASSUME ExportInv, RenderExportOwner
    PROVE  ExportInv'
<1>1. /\ tree = "shown" /\ phase[entry] = "disposed" /\ teardownDue = 0
      /\ entry + 1 \in 1 .. hides + 1 /\ entry + 1 \in Owners /\ entry \in Owners
      /\ entry \in Nat /\ hides \in Nat
    BY EntryIsOwner, LifetimeAssumption
       DEF RenderExportOwner, RenderDue, ExportInv, OwnerTypes, HiddenBefore, Owners
<1>2. /\ entry' = entry + 1 /\ mapped' = entry + 1
      /\ phase' = [phase EXCEPT ![entry + 1] = "idle"]
      /\ UNCHANGED <<tree, hides, active, teardownDue, job>>
    BY <1>1 DEF RenderExportOwner, ExportInv, OwnerTypes, providerVars, jobVars
<1>3. \A e \in Owners : phase[e] \notin {"idle"} \cup Busy
    BY <1>1 DEF ExportInv, StoreHasOwner, OwnerTypes, Busy, Owners
<1>4. OwnerTypes' /\ JobShape'
    BY <1>1, <1>2 DEF ExportInv, OwnerTypes, JobShape
<1>5. StoreHasOwner' /\ OwnerHasExport'
    BY <1>1, <1>2, <1>3 DEF ExportInv, OwnerTypes, StoreHasOwner, OwnerHasExport, Busy
<1>6. ExportHasOwner'
    BY <1>2 DEF ExportInv, ExportHasOwner, Unsettled
<1>7. HiddenBefore'
    BY <1>1, <1>2 DEF ExportInv, OwnerTypes, HiddenBefore
<1> QED
    BY <1>4, <1>5, <1>6, <1>7 DEF ExportInv

LEMMA TeardownOwner ==
    ASSUME ExportInv, TeardownExports
    PROVE  ExportInv'
<1>1. /\ teardownDue = entry /\ entry \in Owners /\ entry <= hides
      /\ UNCHANGED <<tree, hides, entry, mapped, active, job>> /\ teardownDue' = 0
    BY EntryIsOwner DEF TeardownExports, ExportInv, OwnerTypes, HiddenBefore, providerVars
<1>2. phase' = [phase EXCEPT ![entry] =
                   IF @ \in {"disposing", "disposed"} THEN @
                   ELSE IF active[entry] = NoExport THEN "disposed" ELSE "disposing"]
    BY <1>1 DEF TeardownExports, DisposeExports
<1>3. /\ phase' \in [Owners -> {"none", "idle", "running", "cancelling", "disposing", "disposed"}]
      /\ \A e \in Owners : phase'[e] = phase[e]
                           \/ (active[e] = NoExport /\ phase'[e] = "disposed" /\ phase[e] \notin Busy)
                           \/ (active[e] # NoExport /\ phase'[e] = "disposing" /\ phase[e] \in Busy)
    BY <1>1, <1>2 DEF ExportInv, OwnerTypes, OwnerHasExport
<1>4. OwnerTypes' /\ JobShape' /\ ExportHasOwner' /\ HiddenBefore'
    BY <1>1, <1>3, EntryIsOwner
    DEF ExportInv, OwnerTypes, JobShape, ExportHasOwner, HiddenBefore, Unsettled
<1>5. StoreHasOwner' /\ OwnerHasExport'
    BY <1>1, <1>3 DEF ExportInv, StoreHasOwner, OwnerHasExport, Busy
<1> QED
    BY <1>4, <1>5 DEF ExportInv

LEMMA ForgetOwner ==
    ASSUME ExportInv, ForgetExportOwner
    PROVE  ExportInv'
<1>1. /\ phase[mapped] = "disposed" /\ mapped' = 0
      /\ UNCHANGED <<tree, hides, entry, phase, active, teardownDue, job>>
    BY DEF ForgetExportOwner, providerVars, jobVars
<1> QED
    BY <1>1 DEF ExportInv, OwnerTypes, JobShape, StoreHasOwner, OwnerHasExport, ExportHasOwner,
                HiddenBefore, Unsettled, Busy

LEMMA StartExport ==
    ASSUME ExportInv, NEW j \in Exports, Start(j)
    PROVE  ExportInv'
<1>1. /\ tree = "shown" /\ phase[entry] = "idle" /\ job[j].state = "new" /\ entry \in Owners
      /\ phase' = [phase EXCEPT ![entry] = "running"]
      /\ active' = [active EXCEPT ![entry] = j]
      /\ UNCHANGED <<tree, hides, entry, mapped, teardownDue>>
    BY EntryIsOwner DEF Start, NextExport, Startable, ExportInv, providerVars
<1>2. PICK rec : /\ job' = [job EXCEPT ![j] = rec]
                 /\ rec.entry = entry
                 /\ rec = [state |-> rec.state, entry |-> rec.entry, source |-> rec.source,
                           reg |-> rec.reg, gen |-> rec.gen, holds |-> rec.holds]
    <2>1. PICK state, holds, gen :
              job' = [job EXCEPT ![j] = [state |-> state, entry |-> entry, source |-> source,
                                         reg |-> reg, gen |-> gen, holds |-> holds]]
        <3>1. PICK admitted \in BOOLEAN :
                  job' = [job EXCEPT ![j] =
                             [state |-> IF host[source] = "live" /\ admitted THEN "working"
                                                                            ELSE "cleaning",
                              entry |-> entry, source |-> source, reg |-> reg,
                              gen |-> owner'[reg].current,
                              holds |-> {"source", "pipeline"}
                                            \cup (IF host[source] = "live" THEN {"host"} ELSE {})]]
            BY DEF Start
        <3> QED
            BY <3>1, Zenon
    <2> DEFINE made == [state |-> state, entry |-> entry, source |-> source,
                        reg |-> reg, gen |-> gen, holds |-> holds]
    <2>2. /\ made.entry = entry
          /\ made = [state |-> made.state, entry |-> made.entry, source |-> made.source,
                     reg |-> made.reg, gen |-> made.gen, holds |-> made.holds]
        OBVIOUS
    <2> QED
        BY <2>1, <2>2
<1>3. active[entry] = NoExport /\ entry = mapped
    BY <1>1 DEF ExportInv, OwnerHasExport, StoreHasOwner, Busy
<1>4. OwnerTypes' /\ JobShape'
    BY <1>1, <1>2 DEF ExportInv, OwnerTypes, JobShape
<1>5. StoreHasOwner' /\ OwnerHasExport'
    BY <1>1, <1>3, LifetimeAssumption DEF ExportInv, OwnerTypes, StoreHasOwner, OwnerHasExport, Busy
<1>6. ExportHasOwner'
    <2> SUFFICES ASSUME NEW k \in Exports, k \in Unsettled'
                 PROVE  job'[k].entry \in Owners /\ active'[job'[k].entry] = k
        BY DEF ExportHasOwner
    <2>1. CASE k = j
        BY <1>1, <1>2, <2>1 DEF ExportInv, OwnerTypes, JobShape
    <2>2. CASE k # j
        <3>1. job'[k] = job[k] /\ k \in Unsettled
            BY <1>2, <2>2 DEF ExportInv, JobShape, Unsettled
        <3>2. job[k].entry \in Owners /\ active[job[k].entry] = k
            BY <3>1 DEF ExportInv, ExportHasOwner
        <3>3. job[k].entry # entry
            BY <1>3, <3>2, LifetimeAssumption
        <3> QED
            BY <1>1, <3>1, <3>2, <3>3 DEF ExportInv, OwnerTypes
    <2> QED
        BY <2>1, <2>2
<1>7. HiddenBefore'
    BY <1>1 DEF ExportInv, OwnerTypes, HiddenBefore
<1> QED
    BY <1>4, <1>5, <1>6, <1>7 DEF ExportInv

\* Steps of an export before its last one leave its owner alone.
LEMMA ExportGoesOn ==
    ASSUME ExportInv, NEW j \in Exports, EndWork(j) \/ ReleaseAll(j)
    PROVE  ExportInv'
<1>1. j \in Unsettled /\ UNCHANGED <<tree, hides, exportVars>>
    BY DEF EndWork, ReleaseAll, Unsettled, providerVars
<1>2. \/ job' = [job EXCEPT ![j].state = "cleaning"]
      \/ job' = [job EXCEPT ![j].state = "released", ![j].holds = {}]
    BY DEF EndWork, ReleaseAll
<1>3. JobShape' /\ \A k \in Exports : job'[k].entry = job[k].entry
                                      /\ (k # j => job'[k] = job[k])
    BY <1>2 DEF ExportInv, JobShape
<1>4. ExportHasOwner'
    BY <1>1, <1>3 DEF ExportInv, ExportHasOwner, Unsettled, exportVars
<1>5. OwnerTypes' /\ StoreHasOwner' /\ OwnerHasExport' /\ HiddenBefore'
    BY <1>1 DEF ExportInv, OwnerTypes, StoreHasOwner, OwnerHasExport, HiddenBefore, exportVars
<1> QED
    BY <1>3, <1>4, <1>5 DEF ExportInv

LEMMA SettleExport ==
    ASSUME ExportInv, NEW j \in Exports, Settle(j)
    PROVE  ExportInv'
<1> DEFINE e == job[j].entry
<1>1. /\ j \in Unsettled /\ e \in Owners /\ active[e] = j /\ active[e] # NoExport
      /\ phase[e] \in Busy
    BY LifetimeAssumption DEF Settle, Unsettled, ExportInv, ExportHasOwner, OwnerHasExport
<1>2. /\ job' = [job EXCEPT ![j].state = "settled"]
      /\ active' = [active EXCEPT ![e] = NoExport]
      /\ phase' = [phase EXCEPT ![e] = IF @ = "disposing" THEN "disposed" ELSE "idle"]
      /\ UNCHANGED <<tree, hides, entry, mapped, teardownDue>>
    BY DEF Settle, providerVars
<1>3. JobShape' /\ job'[j].state = "settled" /\ \A k \in Exports : k # j => job'[k] = job[k]
    BY <1>2 DEF ExportInv, JobShape
<1>4. OwnerTypes'
    BY <1>1, <1>2 DEF ExportInv, OwnerTypes
<1>5. StoreHasOwner' /\ OwnerHasExport'
    BY <1>1, <1>2 DEF ExportInv, OwnerTypes, StoreHasOwner, OwnerHasExport, Busy
<1>6. ExportHasOwner'
    <2> SUFFICES ASSUME NEW k \in Exports, k \in Unsettled'
                 PROVE  job'[k].entry \in Owners /\ active'[job'[k].entry] = k
        BY DEF ExportHasOwner
    <2>1. k # j /\ job'[k] = job[k]
        BY <1>3 DEF Unsettled
    <2>2. k \in Unsettled
        BY <2>1 DEF Unsettled
    <2>3. job[k].entry \in Owners /\ active[job[k].entry] = k
        BY <2>2 DEF ExportInv, ExportHasOwner
    <2> QED
        BY <1>1, <1>2, <2>1, <2>3 DEF ExportInv, OwnerTypes
<1>7. HiddenBefore'
    BY <1>1, <1>2, EntryIsOwner DEF ExportInv, OwnerTypes, HiddenBefore, Busy
<1> QED
    BY <1>3, <1>4, <1>5, <1>6, <1>7 DEF ExportInv

LEMMA ExportStep ==
    ASSUME ExportInv, [Next]_vars
    PROVE  ExportInv'
<1>1. CASE User
    <2>1. CASE BeginPreview \/ \E c \in Calls, r \in Registrations : BeginCall(c, r)
        BY <2>1, AloneExports DEF BeginPreview, BeginCall, providerVars, jobVars
    <2> QED
        BY <1>1, <2>1, HideExports, FailExports, CommitExports, StartExport DEF User
<1>2. CASE Queued
    <2>1. CASE \/ HideHost \/ DisposeHost
               \/ \E r \in Registrations : RetireIdleRuntime(r)
               \/ \E s \in Owners : DisposeSource(s)
        BY <2>1, AloneExports DEF HideHost, DisposeHost, RetireIdleRuntime, DisposeSource,
                                  providerVars, jobVars
    <2>2. CASE CancelHidden
        BY <2>2, CancelIsSome, CancellingExports DEF CancelHidden, providerVars
    <2> QED
        BY <1>2, <2>1, <2>2, RenderExports, TeardownOwner, ForgetOwner DEF Queued
<1>3. CASE Settling
    <2>1. CASE \/ \E s \in Owners : SourceDisposed(s)
               \/ \E c \in Calls : EndCall(c)
               \/ \E r \in Registrations : ResolveTerminal(r)
                                           \/ \E n \in Generations : RuntimeDisposed(r, n)
        BY <2>1, AloneExports DEF SourceDisposed, EndCall, ResolveTerminal, RuntimeDisposed,
                                  providerVars, jobVars
    <2> QED
        BY <1>3, <2>1, ExportGoesOn, SettleExport DEF Settling
<1>4. CASE PreviewSettling
    BY <1>4, AloneExports DEF PreviewSettling, EndPreview, providerVars, jobVars
<1>5. CASE UNCHANGED vars
    BY <1>5, AloneExports DEF vars, providerVars, jobVars
<1> QED
    BY <1>1, <1>2, <1>3, <1>4, <1>5 DEF Next

(***************************************************************************)
(* A store never has two exports that have not cleaned up, however often   *)
(* its tree is hidden and shown: an owner that is disposed of under an     *)
(* export stays the store's owner until that export has settled.           *)
(***************************************************************************)
THEOREM OneExport == Spec => []OneExportAtATime
<1>1. ExportInv /\ [Next]_vars => ExportInv'
    BY ExportStep
<1>2. ExportInv => OneExportAtATime
    BY AtMostOne
<1> QED
    BY <1>1, <1>2, ExportInit, PTL DEF Spec

-----------------------------------------------------------------------------
(***************************************************************************)
(* The leases of renderer runtimes: what every operation of                *)
(* RendererPipelineOwner preserves, and that the leases of an owner are    *)
(* those of the page, the exports and the calls.                           *)
(***************************************************************************)

(***************************************************************************)
(* The owner of one registration's runtimes.                               *)
(***************************************************************************)
\* The current runtime is not being disposed of, nor are those still to be made; without a
\* lease its retirement is queued.  A disposed owner has no current runtime.
OwnerInOrder(o) ==
    /\ ~o.terminal =>
          /\ o.current < o.next
          /\ \A n \in Generations : n >= o.next \/ n = o.current => o.disposal[n] = "no"
          /\ o.leases = 0 /\ o.current # 0 => o.due = o.current
          /\ ~o.resolved
    /\ o.terminal => o.current = 0
    /\ o.resolved => Pending(o) = {}

GoodOwners == {o \in OwnerRecords : OwnerInOrder(o)}

Disposals == [Generations -> {"no", "pending", "done"}]

\* The fields of an owner.
OwnerHas(p, current, next, leased, due, terminal, resolved, disposal) ==
    /\ p.current = current /\ p.next = next /\ p.leases = leased /\ p.due = due
    /\ p.terminal = terminal /\ p.resolved = resolved /\ p.disposal = disposal

LEMMA OwnerFields ==
    ASSUME NEW o \in OwnerRecords
    PROVE  /\ o.current \in 0 .. MaxGenerations /\ o.next \in 1 .. MaxGenerations + 1
           /\ o.leases \in Nat /\ o.due \in 0 .. MaxGenerations
           /\ o.terminal \in BOOLEAN /\ o.resolved \in BOOLEAN
           /\ o.disposal \in Disposals /\ o.last \in 0 .. MaxGenerations
BY DEF OwnerRecords, Disposals

\* What the operations make of an owner is one.
LEMMA LeasesRevised ==
    ASSUME NEW o \in OwnerRecords,
           NEW le \in Nat,
           NEW du \in 0 .. MaxGenerations
    PROVE  [o EXCEPT !.leases = le, !.due = du] \in OwnerRecords
BY DEF OwnerRecords

LEMMA RuntimeMade ==
    ASSUME NEW o \in OwnerRecords,
           NEW cu \in 0 .. MaxGenerations,
           NEW nx \in 1 .. MaxGenerations + 1,
           NEW du \in 0 .. MaxGenerations
    PROVE  [o EXCEPT !.current = cu, !.next = nx, !.due = du] \in OwnerRecords
BY DEF OwnerRecords

LEMMA RuntimeRetired ==
    ASSUME NEW o \in OwnerRecords,
           NEW cu \in 0 .. MaxGenerations,
           NEW n \in Generations,
           NEW how \in {"pending", "done"}
    PROVE  [o EXCEPT !.current = cu, !.disposal[n] = how] \in OwnerRecords
BY DEF OwnerRecords

LEMMA DisposalRevised ==
    ASSUME NEW o \in OwnerRecords,
           NEW n \in Generations,
           NEW how \in {"pending", "done"}
    PROVE  [o EXCEPT !.disposal[n] = how] \in OwnerRecords
BY DEF OwnerRecords

LEMMA DueRevised ==
    ASSUME NEW o \in OwnerRecords,
           NEW du \in 0 .. MaxGenerations
    PROVE  [o EXCEPT !.due = du] \in OwnerRecords
BY DEF OwnerRecords

LEMMA MadeTerminal ==
    ASSUME NEW o \in OwnerRecords,
           NEW du \in 0 .. MaxGenerations
    PROVE  [o EXCEPT !.terminal = TRUE, !.due = du] \in OwnerRecords
BY DEF OwnerRecords

LEMMA SnapshotRevised ==
    ASSUME NEW o \in OwnerRecords,
           NEW la \in 0 .. MaxGenerations
    PROVE  [o EXCEPT !.last = la] \in OwnerRecords
BY DEF OwnerRecords

LEMMA NewOwnerGood == NewOwner \in GoodOwners
BY OwnerAssumption DEF GoodOwners, OwnerRecords, NewOwner, OwnerInOrder, Generations, Pending

LEMMA AcquireGood ==
    ASSUME NEW o \in GoodOwners, Acquirable(o)
    PROVE  LET p == Acquire(o)
           IN  /\ p \in GoodOwners
               /\ p.leases = o.leases + 1
               /\ p.current \in Generations
               /\ o.current # 0 => p.current = o.current
               /\ ~p.terminal
               /\ p.last = o.last
<1> DEFINE p == Acquire(o)
<1>1. o \in OwnerRecords /\ OwnerInOrder(o) /\ ~o.terminal /\ ~o.resolved
    BY DEF GoodOwners, OwnerInOrder, Acquirable
<1>2. CASE o.current # 0
    <2>1. p = [o EXCEPT !.leases = @ + 1, !.due = 0]
        BY <1>2 DEF Acquire, EnsureRuntime
    <2>2. /\ OwnerHas(p, o.current, o.next, o.leases + 1, 0, o.terminal, o.resolved, o.disposal)
          /\ p.last = o.last
        BY <1>1, <2>1 DEF OwnerRecords, OwnerHas
    <2>3. p \in OwnerRecords
        <3>1. o.leases + 1 \in Nat /\ 0 \in 0 .. MaxGenerations
            BY <1>1, OwnerFields, OwnerAssumption
        <3> QED
            BY <1>1, <2>1, <3>1, LeasesRevised
    <2> HIDE DEF p
    <2>4. OwnerInOrder(p)
        BY <1>1, <2>2, OwnerFields DEF OwnerInOrder, OwnerHas
    <2> QED
        BY <1>1, <1>2, <2>2, <2>3, <2>4, OwnerFields DEF GoodOwners, Generations, OwnerHas, p
<1>3. CASE o.current = 0
    <2>1. o.next \in 1 .. MaxGenerations
        BY <1>1, <1>3, OwnerFields, OwnerAssumption DEF Acquirable
    <2>2. p = [[o EXCEPT !.current = o.next, !.next = o.next + 1,
                         !.due = IF o.leases = 0 THEN o.next ELSE o.due]
                 EXCEPT !.leases = @ + 1, !.due = 0]
        BY <1>3 DEF Acquire, EnsureRuntime
    <2>3. /\ OwnerHas(p, o.next, o.next + 1, o.leases + 1, 0, o.terminal, o.resolved, o.disposal)
          /\ p.last = o.last
        BY <1>1, <2>2 DEF OwnerRecords, OwnerHas
    <2>4. p \in OwnerRecords
        <3> DEFINE due == IF o.leases = 0 THEN o.next ELSE o.due
                   e == [o EXCEPT !.current = o.next, !.next = o.next + 1, !.due = due]
        <3>1. /\ o.next \in 0 .. MaxGenerations /\ o.next + 1 \in 1 .. MaxGenerations + 1
              /\ due \in 0 .. MaxGenerations /\ o.leases + 1 \in Nat /\ 0 \in 0 .. MaxGenerations
            BY <1>1, <2>1, OwnerFields, OwnerAssumption
        <3>2. e \in OwnerRecords
            <4> HIDE DEF due
            <4> QED
                BY <1>1, <3>1, RuntimeMade
        <3>3. e.leases = o.leases
            BY <1>1 DEF OwnerRecords
        <3>4. p = [e EXCEPT !.leases = o.leases + 1, !.due = 0]
            BY <2>2, <3>3
        <3> HIDE DEF e
        <3> QED
            BY <3>1, <3>2, <3>4, LeasesRevised
    <2> HIDE DEF p
    <2>5. OwnerInOrder(p)
        BY <1>1, <2>1, <2>3, OwnerFields, OwnerAssumption DEF OwnerInOrder, Generations, OwnerHas
    <2> QED
        BY <1>1, <1>3, <2>1, <2>3, <2>4, <2>5 DEF GoodOwners, Generations, OwnerHas, p
<1> QED
    BY <1>2, <1>3

LEMMA ReleaseGood ==
    ASSUME NEW o \in GoodOwners, NEW n \in 0 .. MaxGenerations, o.leases >= 1,
           ~o.terminal => n = o.current
    PROVE  LET p == Release(o, n)
           IN  /\ p \in GoodOwners
               /\ p.leases = o.leases - 1
               /\ p.current = o.current /\ p.terminal = o.terminal /\ p.disposal = o.disposal
               /\ p.last = o.last
<1> DEFINE p == Release(o, n)
<1>1. o \in OwnerRecords /\ OwnerInOrder(o)
    BY DEF GoodOwners
<1>2. /\ OwnerHas(p, o.current, o.next, o.leases - 1, IF o.leases = 1 THEN n ELSE o.due,
                  o.terminal, o.resolved, o.disposal)
      /\ p.last = o.last
    BY <1>1 DEF Release, OwnerRecords, OwnerHas
<1>3. p \in OwnerRecords
    <2> DEFINE due == IF o.leases = 1 THEN n ELSE o.due
    <2>1. o.leases - 1 \in Nat /\ due \in 0 .. MaxGenerations
        BY <1>1, OwnerFields
    <2>2. p = [o EXCEPT !.leases = o.leases - 1, !.due = due]
        BY DEF Release
    <2> HIDE DEF due, p
    <2> QED
        BY <1>1, <2>1, <2>2, LeasesRevised
<1> HIDE DEF p
<1>4. OwnerInOrder(p)
    <2>1. Pending(p) = Pending(o)
        BY <1>2 DEF Pending, OwnerHas
    <2> QED
        BY <1>1, <1>2, <2>1, OwnerFields DEF OwnerInOrder, OwnerHas
<1> QED
    BY <1>2, <1>3, <1>4 DEF GoodOwners, OwnerHas, p

\* Retiring the current runtime of an owner.
LEMMA RetireCurrent ==
    ASSUME NEW o \in OwnerRecords, o.current # 0, o.disposal[o.current] = "no"
    PROVE  LET p == Retire(o, o.current)
           IN  /\ p \in OwnerRecords
               /\ OwnerHas(p, 0, o.next, o.leases, o.due, o.terminal, o.resolved,
                           [o.disposal EXCEPT ![o.current] = "pending"])
               /\ p.last >= o.last
<1> DEFINE p == Retire(o, o.current)
<1>1. p = [[o EXCEPT !.current = 0, !.disposal[o.current] = "pending"]
             EXCEPT !.last = IF o.current < o.last THEN o.last ELSE o.current]
    <2>1. [o EXCEPT !.current = 0, !.disposal[o.current] = "pending"].last = o.last
        BY DEF OwnerRecords
    <2> QED
        BY <2>1 DEF Retire, Preserve
<1>2. OwnerHas(p, 0, o.next, o.leases, o.due, o.terminal, o.resolved,
               [o.disposal EXCEPT ![o.current] = "pending"])
    BY <1>1 DEF OwnerRecords, OwnerHas
<1>3. p.last = IF o.current < o.last THEN o.last ELSE o.current
    BY <1>1 DEF OwnerRecords
<1>4. p \in OwnerRecords
    <2> DEFINE q == [o EXCEPT !.current = 0, !.disposal[o.current] = "pending"]
               la == IF o.current < o.last THEN o.last ELSE o.current
    <2>1. o.current \in Generations /\ 0 \in 0 .. MaxGenerations /\ la \in 0 .. MaxGenerations
        BY OwnerFields, OwnerAssumption DEF Generations
    <2>2. q \in OwnerRecords
        BY <2>1, RuntimeRetired
    <2> HIDE DEF q, la
    <2>3. p = [q EXCEPT !.last = la]
        BY <1>1 DEF q, la
    <2> QED
        BY <2>1, <2>2, <2>3, SnapshotRevised
<1> QED
    BY <1>2, <1>3, <1>4, OwnerFields, OwnerAssumption

LEMMA RetireIdleGood ==
    ASSUME NEW o \in GoodOwners, o.due # 0
    PROVE  LET p == RetireIdle(o)
           IN  /\ p \in GoodOwners
               /\ p.leases = o.leases /\ p.terminal = o.terminal
               /\ o.leases # 0 => p.current = o.current
               /\ o.terminal => p.disposal = o.disposal
               /\ p.last >= o.last
<1> DEFINE p == RetireIdle(o)
           idle == ~o.terminal /\ o.leases = 0 /\ o.current = o.due
<1>1. o \in OwnerRecords /\ OwnerInOrder(o)
    BY DEF GoodOwners
<1>2. CASE idle
    <2>1. o.current # 0 /\ o.current \in Generations /\ o.disposal[o.current] = "no"
        BY <1>1, <1>2, OwnerFields, OwnerAssumption DEF OwnerInOrder, Generations
    <2> DEFINE q == Retire(o, o.current)
               di == [o.disposal EXCEPT ![o.current] = "pending"]
    <2>2. /\ q \in OwnerRecords /\ q.last >= o.last
          /\ OwnerHas(q, 0, o.next, o.leases, o.due, o.terminal, o.resolved, di)
        BY <1>1, <2>1, RetireCurrent
    <2>3. p = [q EXCEPT !.due = 0]
        BY <1>2 DEF RetireIdle
    <2> HIDE DEF q
    <2>4. /\ OwnerHas(p, 0, o.next, o.leases, 0, o.terminal, o.resolved, di)
          /\ p.last = q.last
        BY <2>2, <2>3 DEF OwnerRecords, OwnerHas
    <2>5. p \in OwnerRecords
        BY <2>2, <2>3, OwnerAssumption DEF OwnerRecords
    <2> HIDE DEF p
    <2>6. OwnerInOrder(p)
        <3>1. \A n \in Generations : n >= o.next => di[n] = "no"
            BY <1>1, <1>2, <2>1, OwnerFields DEF OwnerInOrder, Disposals, Generations
        <3> HIDE DEF di
        <3> QED
            BY <1>1, <1>2, <2>4, <3>1, OwnerFields DEF OwnerInOrder, OwnerHas, Generations
    <2> QED
        BY <1>2, <2>2, <2>4, <2>5, <2>6 DEF GoodOwners, OwnerHas, p
<1>3. CASE ~idle
    <2>1. p = [o EXCEPT !.due = 0]
        BY <1>3 DEF RetireIdle
    <2>2. /\ OwnerHas(p, o.current, o.next, o.leases, 0, o.terminal, o.resolved, o.disposal)
          /\ p.last = o.last
        BY <1>1, <2>1 DEF OwnerRecords, OwnerHas
    <2>3. p \in OwnerRecords
        BY <1>1, <2>1, OwnerAssumption DEF OwnerRecords
    <2>4. ~o.terminal /\ o.leases = 0 => o.current = 0
        BY <1>1, <1>3 DEF OwnerInOrder
    <2> HIDE DEF p
    <2>5. OwnerInOrder(p)
        <3>1. Pending(p) = Pending(o)
            BY <2>2 DEF Pending, OwnerHas
        <3> QED
            BY <1>1, <2>2, <2>4, <3>1 DEF OwnerInOrder, OwnerHas
    <2> QED
        BY <1>1, <2>2, <2>3, <2>5, OwnerFields DEF GoodOwners, OwnerHas, p
<1> QED
    BY <1>2, <1>3

LEMMA TerminateGood ==
    ASSUME NEW o \in GoodOwners
    PROVE  LET p == Terminate(o)
           IN  /\ p \in GoodOwners
               /\ p.leases = o.leases /\ p.terminal
               /\ Pending(o) \subseteq Pending(p)
               /\ ~o.terminal /\ o.current # 0 => o.current \in Pending(p)
               /\ p.last >= o.last
<1> DEFINE p == Terminate(o)
           ended == [o EXCEPT !.terminal = TRUE, !.due = 0]
<1>1. o \in OwnerRecords /\ OwnerInOrder(o)
    BY DEF GoodOwners
<1>2. CASE o.terminal
    BY <1>1, <1>2, OwnerFields DEF Terminate
<1>3. CASE ~o.terminal
    <2>1. /\ OwnerHas(ended, o.current, o.next, o.leases, 0, TRUE, o.resolved, o.disposal)
          /\ ended.last = o.last
        BY <1>1 DEF OwnerRecords, OwnerHas
    <2>2. ended \in OwnerRecords
        <3>1. 0 \in 0 .. MaxGenerations
            BY OwnerAssumption
        <3> QED
            BY <1>1, <3>1, MadeTerminal
    <2>3. p = IF o.current = 0 THEN ended ELSE Retire(ended, o.current)
        BY <1>3 DEF Terminate
    <2>4. ~o.resolved
        BY <1>1, <1>3 DEF OwnerInOrder
    <2> HIDE DEF p, ended
    <2>5. CASE o.current = 0
        <3>1. OwnerInOrder(p) /\ Pending(p) = Pending(o)
            BY <2>1, <2>3, <2>4, <2>5 DEF OwnerInOrder, OwnerHas, Pending
        <3> QED
            BY <1>1, <2>1, <2>2, <2>3, <2>5, <3>1, OwnerFields DEF GoodOwners, OwnerHas, p
    <2>6. CASE o.current # 0
        <3> DEFINE di == [o.disposal EXCEPT ![o.current] = "pending"]
        <3>1. o.current \in Generations /\ o.disposal[o.current] = "no"
            BY <1>1, <1>3, <2>6, OwnerFields, OwnerAssumption DEF OwnerInOrder, Generations
        <3>2. /\ ended.current = o.current /\ ended.current # 0 /\ ended.disposal = o.disposal
              /\ ended.disposal[ended.current] = "no"
            BY <2>1, <2>6, <3>1 DEF OwnerHas
        <3>3. /\ p \in OwnerRecords /\ p.last >= ended.last
              /\ OwnerHas(p, 0, ended.next, ended.leases, ended.due, ended.terminal,
                          ended.resolved, [ended.disposal EXCEPT ![ended.current] = "pending"])
            BY <2>2, <2>3, <2>6, <3>2, RetireCurrent
        <3>4. OwnerHas(p, 0, o.next, o.leases, 0, TRUE, o.resolved, di)
            BY <2>1, <3>2, <3>3 DEF OwnerHas
        <3>5. Pending(o) \subseteq Pending(p) /\ o.current \in Pending(p)
            BY <1>1, <3>1, <3>4, OwnerFields DEF Pending, Disposals, OwnerHas
        <3> HIDE DEF di
        <3>6. OwnerInOrder(p)
            BY <2>4, <3>4 DEF OwnerInOrder, OwnerHas
        <3> QED
            BY <2>1, <3>3, <3>4, <3>5, <3>6 DEF GoodOwners, OwnerHas, p
    <2> QED
        BY <2>5, <2>6
<1> QED
    BY <1>2, <1>3

LEMMA DisposedGood ==
    ASSUME NEW o \in GoodOwners, NEW n \in Generations, o.disposal[n] = "pending"
    PROVE  LET p == Disposed(o, n)
           IN  /\ p \in GoodOwners
               /\ p.leases = o.leases /\ p.current = o.current /\ p.terminal = o.terminal
               /\ Pending(p) = Pending(o) \ {n}
               /\ p.last >= o.last
<1> DEFINE p == Disposed(o, n)
           di == [o.disposal EXCEPT ![n] = "done"]
           la == IF n < o.last THEN o.last ELSE n
<1>1. o \in OwnerRecords /\ OwnerInOrder(o)
    BY DEF GoodOwners
<1>2. p = [[o EXCEPT !.disposal[n] = "done"] EXCEPT !.last = la]
    <2>1. [o EXCEPT !.disposal[n] = "done"].last = o.last
        BY <1>1 DEF OwnerRecords
    <2> QED
        BY <2>1 DEF Disposed, Preserve
<1>3. /\ OwnerHas(p, o.current, o.next, o.leases, o.due, o.terminal, o.resolved, di)
      /\ p.last = la
    BY <1>1, <1>2 DEF OwnerRecords, OwnerHas
<1>4. p \in OwnerRecords
    <2> DEFINE q == [o EXCEPT !.disposal[n] = "done"]
    <2>1. q \in OwnerRecords
        BY <1>1, DisposalRevised
    <2>2. la \in 0 .. MaxGenerations
        BY <1>1, OwnerFields, OwnerAssumption DEF Generations
    <2> HIDE DEF q, la
    <2>3. p = [q EXCEPT !.last = la]
        BY <1>2 DEF q, la
    <2> QED
        BY <2>1, <2>2, <2>3, SnapshotRevised
<1> HIDE DEF p
<1>5. Pending(p) = Pending(o) \ {n}
    BY <1>1, <1>3, OwnerFields DEF Pending, Disposals, OwnerHas
<1>6. OwnerInOrder(p)
    <2>1. ~o.terminal => \A m \in Generations : m >= o.next \/ m = o.current => di[m] = "no"
        BY <1>1, OwnerFields DEF OwnerInOrder, Disposals
    <2> HIDE DEF di
    <2> QED
        BY <1>1, <1>3, <1>5, <2>1 DEF OwnerInOrder, OwnerHas
<1>7. la >= o.last
    BY <1>1, OwnerFields, OwnerAssumption DEF Generations
<1> HIDE DEF la
<1> QED
    BY <1>3, <1>4, <1>5, <1>6, <1>7 DEF GoodOwners, OwnerHas, p

LEMMA ResolveGood ==
    ASSUME NEW o \in GoodOwners, Resolvable(o)
    PROVE  LET p == [o EXCEPT !.resolved = TRUE]
           IN  /\ p \in GoodOwners
               /\ p.leases = o.leases /\ p.current = o.current /\ p.terminal = o.terminal
               /\ Pending(p) = Pending(o) /\ p.last = o.last
<1> DEFINE p == [o EXCEPT !.resolved = TRUE]
<1>1. o \in OwnerRecords /\ OwnerInOrder(o)
    BY DEF GoodOwners
<1>2. /\ OwnerHas(p, o.current, o.next, o.leases, o.due, o.terminal, TRUE, o.disposal)
      /\ p.last = o.last /\ p \in OwnerRecords
    BY <1>1 DEF OwnerRecords, OwnerHas
<1> HIDE DEF p
<1>3. OwnerInOrder(p) /\ Pending(p) = Pending(o)
    BY <1>1, <1>2 DEF OwnerInOrder, Resolvable, OwnerHas, Pending
<1> QED
    BY <1>2, <1>3 DEF GoodOwners, OwnerHas, p

(***************************************************************************)
(* An owner with as many leases as count, of the runtimes gens; callGens   *)
(* are those of the calls.                                                 *)
(***************************************************************************)
Served(o, count, gens, callGens) ==
    /\ o \in GoodOwners /\ o.leases = count
    /\ gens \subseteq Generations
    /\ ~o.terminal => \A n \in gens : n = o.current
    /\ o.terminal => callGens \subseteq Pending(o)

LEMMA AcquireServed ==
    ASSUME NEW o, NEW count \in Nat, NEW gens, NEW callGens, NEW gens2, NEW callGens2,
           Served(o, count, gens, callGens), Acquirable(o),
           gens2 \subseteq gens \cup {Acquire(o).current}
    PROVE  /\ Served(Acquire(o), count + 1, gens2, callGens2)
           /\ Acquire(o).last >= o.last /\ ~Acquire(o).terminal
<1> DEFINE p == Acquire(o)
<1>1. o \in GoodOwners /\ ~o.terminal /\ o.last \in Nat
    BY OwnerFields, OwnerAssumption DEF Served, Acquirable, GoodOwners
<1>2. /\ p \in GoodOwners /\ p.leases = o.leases + 1 /\ p.current \in Generations
      /\ o.current # 0 => p.current = o.current
      /\ ~p.terminal /\ p.last = o.last
    BY <1>1, AcquireGood
<1>3. \A n \in gens : n = p.current
    BY <1>1, <1>2 DEF Served, Generations
<1> HIDE DEF p
<1>4. \A n \in gens2 : n = p.current
    BY <1>3 DEF p
<1>5. Served(p, count + 1, gens2, callGens2)
    BY <1>2, <1>4 DEF Served
<1> QED
    BY <1>1, <1>2, <1>5 DEF p

LEMMA ReleaseServed ==
    ASSUME NEW o, NEW count \in Nat, NEW gens, NEW callGens, NEW gens2, NEW callGens2,
           Served(o, count, gens, callGens), count >= 1, NEW n \in gens,
           gens2 \subseteq gens, callGens2 \subseteq callGens
    PROVE  /\ Served(Release(o, n), count - 1, gens2, callGens2)
           /\ Release(o, n).last >= o.last /\ Release(o, n).terminal = o.terminal
<1> DEFINE p == Release(o, n)
<1>1. /\ o \in GoodOwners /\ n \in 0 .. MaxGenerations /\ o.leases >= 1 /\ o.last \in Nat
      /\ ~o.terminal => n = o.current
    BY OwnerFields, OwnerAssumption DEF Served, GoodOwners, Generations
<1>2. /\ p \in GoodOwners /\ p.leases = o.leases - 1
      /\ p.current = o.current /\ p.terminal = o.terminal /\ p.disposal = o.disposal
      /\ p.last = o.last
    BY <1>1, ReleaseGood
<1> HIDE DEF p
<1>3. Served(p, count - 1, gens2, callGens2)
    BY <1>2 DEF Served, Pending
<1> QED
    BY <1>1, <1>2, <1>3 DEF p

LEMMA TerminateServed ==
    ASSUME NEW o, NEW count \in Nat, NEW gens, NEW callGens, NEW gens2, NEW callGens2,
           Served(o, count, gens, callGens), gens2 \subseteq gens,
           callGens2 \subseteq callGens, callGens2 \subseteq gens2
    PROVE  /\ Served(Terminate(o), count, gens2, callGens2)
           /\ Terminate(o).last >= o.last
<1> DEFINE p == Terminate(o)
<1>1. o \in GoodOwners
    BY DEF Served
<1>2. /\ p \in GoodOwners /\ p.leases = o.leases /\ p.terminal
      /\ Pending(o) \subseteq Pending(p)
      /\ ~o.terminal /\ o.current # 0 => o.current \in Pending(p)
      /\ p.last >= o.last
    BY <1>1, TerminateGood
<1> HIDE DEF p
<1>3. Served(p, count, gens2, callGens2)
    BY <1>2 DEF Served, Generations
<1> QED
    BY <1>2, <1>3 DEF p

LEMMA RetireIdleServed ==
    ASSUME NEW o, NEW count \in Nat, NEW gens, NEW callGens,
           Served(o, count, gens, callGens), o.due # 0, count = 0 => gens = {}
    PROVE  /\ Served(RetireIdle(o), count, gens, callGens)
           /\ RetireIdle(o).last >= o.last /\ RetireIdle(o).terminal = o.terminal
<1> DEFINE p == RetireIdle(o)
<1>1. o \in GoodOwners
    BY DEF Served
<1>2. /\ p \in GoodOwners /\ p.leases = o.leases /\ p.terminal = o.terminal
      /\ o.leases # 0 => p.current = o.current
      /\ o.terminal => p.disposal = o.disposal
      /\ p.last >= o.last
    BY <1>1, RetireIdleGood
<1> HIDE DEF p
<1>3. Served(p, count, gens, callGens)
    BY <1>2 DEF Served, Pending
<1> QED
    BY <1>2, <1>3 DEF p

LEMMA DisposedServed ==
    ASSUME NEW o, NEW count \in Nat, NEW gens, NEW callGens, NEW n \in Generations,
           Served(o, count, gens, callGens), o.disposal[n] = "pending", n \notin callGens
    PROVE  /\ Served(Disposed(o, n), count, gens, callGens)
           /\ Disposed(o, n).last >= o.last /\ Disposed(o, n).terminal = o.terminal
<1> DEFINE p == Disposed(o, n)
<1>1. o \in GoodOwners
    BY DEF Served
<1>2. /\ p \in GoodOwners /\ p.leases = o.leases /\ p.current = o.current
      /\ p.terminal = o.terminal /\ Pending(p) = Pending(o) \ {n} /\ p.last >= o.last
    BY <1>1, DisposedGood
<1> HIDE DEF p
<1>3. Served(p, count, gens, callGens)
    BY <1>2 DEF Served
<1> QED
    BY <1>2, <1>3 DEF p

LEMMA ResolveServed ==
    ASSUME NEW o, NEW count \in Nat, NEW gens, NEW callGens,
           Served(o, count, gens, callGens), Resolvable(o)
    PROVE  LET p == [o EXCEPT !.resolved = TRUE]
           IN  Served(p, count, gens, callGens) /\ p.last >= o.last /\ p.terminal = o.terminal
<1> DEFINE p == [o EXCEPT !.resolved = TRUE]
<1>1. o \in GoodOwners /\ o.last \in Nat
    BY OwnerFields, OwnerAssumption DEF Served, GoodOwners
<1>2. /\ p \in GoodOwners
      /\ p.leases = o.leases /\ p.current = o.current /\ p.terminal = o.terminal
      /\ Pending(p) = Pending(o) /\ p.last = o.last
    BY <1>1, ResolveGood
<1> HIDE DEF p
<1>3. Served(p, count, gens, callGens)
    BY <1>2 DEF Served
<1> QED
    BY <1>1, <1>2, <1>3 DEF p

(***************************************************************************)
(* Whose leases they are.                                                  *)
(***************************************************************************)
CallsOf(r) == {c \in Calls : call[c].state = "open" /\ call[c].reg = r}

CallGenerations(r) == {call[c].gen : c \in CallsOf(r)}

\* Leases that outlive the page's.
StandingLeases(r) == Cardinality(ExportsOf(r)) + Cardinality(CallsOf(r))

StandingGenerations(r) == {job[j].gen : j \in ExportsOf(r)} \cup CallGenerations(r)

PageLeases(r) == IF r = reg /\ pipelineGen # 0 THEN 1 ELSE 0

PageGenerations(r) == IF r = reg THEN {pipelineGen} \ {0} ELSE {}

\* Only replaced registrations end, and not before their exports.
Kept(r) ==
    /\ Served(owner[r], StandingLeases(r) + PageLeases(r),
              StandingGenerations(r) \cup PageGenerations(r), CallGenerations(r))
    /\ owner[r].terminal => r \in retired /\ ExportsOf(r) = {}

LeaseTypes ==
    /\ reg \in Registrations
    /\ pipelineGen # 0 <=> tree = "shown"
    /\ owner = [r \in Registrations |-> owner[r]]
    /\ \A r \in retired : r \in Registrations /\ r < reg

LeaseHolders ==
    /\ job = [j \in Exports |-> job[j]]
    /\ \A j \in Exports :
          /\ job[j] = [state |-> job[j].state, entry |-> job[j].entry, source |-> job[j].source,
                       reg |-> job[j].reg, gen |-> job[j].gen, holds |-> job[j].holds]
          /\ job[j].state \in {"working", "cleaning"} <=> "pipeline" \in job[j].holds
          /\ "pipeline" \in job[j].holds => job[j].reg \in Registrations
    /\ call = [c \in Calls |-> call[c]]
    /\ \A c \in Calls :
          /\ call[c] = [state |-> call[c].state, reg |-> call[c].reg, gen |-> call[c].gen]
          /\ call[c].state = "open" => call[c].reg \in Registrations

LeaseInv == LeaseTypes /\ LeaseHolders /\ \A r \in Registrations : Kept(r)

Newer == \A r \in Registrations : owner'[r].last >= owner[r].last

LEMMA HoldersFinite ==
    ASSUME NEW r
    PROVE  /\ IsFiniteSet(ExportsOf(r)) /\ IsFiniteSet(CallsOf(r))
           /\ Cardinality(ExportsOf(r)) \in Nat /\ Cardinality(CallsOf(r)) \in Nat
           /\ StandingLeases(r) \in Nat /\ PageLeases(r) \in Nat
<1>1. ExportsOf(r) \subseteq Exports /\ CallsOf(r) \subseteq Calls
    BY DEF ExportsOf, CallsOf
<1>2. IsFiniteSet(ExportsOf(r)) /\ IsFiniteSet(CallsOf(r))
    BY <1>1, LifetimeAssumption, FS_Subset
<1>3. Cardinality(ExportsOf(r)) \in Nat /\ Cardinality(CallsOf(r)) \in Nat
    BY <1>2, FS_CardinalityType
<1> QED
    BY <1>2, <1>3 DEF StandingLeases, PageLeases

LEMMA NoLeaseNoRuntime ==
    ASSUME NEW r, StandingLeases(r) + PageLeases(r) = 0
    PROVE  StandingGenerations(r) \cup PageGenerations(r) = {}
<1>1. Cardinality(ExportsOf(r)) = 0 /\ Cardinality(CallsOf(r)) = 0 /\ PageLeases(r) = 0
    BY HoldersFinite DEF StandingLeases
<1>2. ExportsOf(r) = {} /\ CallsOf(r) = {}
    BY <1>1, HoldersFinite, FS_EmptySet
<1>3. PageGenerations(r) = {}
    BY <1>1 DEF PageLeases, PageGenerations
<1> QED
    BY <1>2, <1>3 DEF StandingGenerations, CallGenerations

\* The invariant says what the run's property does.
LEMMA LeasesFollowed ==
    ASSUME LeaseInv
    PROVE  RuntimesFollowLeases
<1>1. \A r \in Registrations : LeasedGenerations(r) = StandingGenerations(r) \cup PageGenerations(r)
    BY DEF LeasedGenerations, StandingGenerations, PageGenerations, CallGenerations, CallsOf
<1>2. LeaseKeepsRuntime
    <2> SUFFICES ASSUME NEW r \in Registrations, ~owner[r].terminal,
                        NEW n \in LeasedGenerations(r)
                 PROVE  owner[r].current = n /\ owner[r].disposal[n] = "no"
        BY DEF LeaseKeepsRuntime
    <2>1. n \in Generations /\ n = owner[r].current /\ OwnerInOrder(owner[r])
        BY <1>1 DEF LeaseInv, Kept, Served, GoodOwners
    <2> QED
        BY <2>1 DEF OwnerInOrder
<1>3. NoIdleRuntime
    BY DEF NoIdleRuntime, LeaseInv, Kept, Served, GoodOwners, OwnerInOrder
<1>4. TerminalIsLast
    <2> SUFFICES ASSUME NEW r \in Registrations, owner[r].resolved
                 PROVE  /\ owner[r].current = 0 /\ Pending(owner[r]) = {}
                        /\ \A c \in Calls : ~(call[c].state = "open" /\ call[c].reg = r)
        BY DEF TerminalIsLast
    <2>1. OwnerInOrder(owner[r]) /\ owner[r] \in OwnerRecords
        BY DEF LeaseInv, Kept, Served, GoodOwners
    <2>2. owner[r].terminal /\ owner[r].current = 0 /\ Pending(owner[r]) = {}
        BY <2>1 DEF OwnerInOrder
    <2>3. CallGenerations(r) = {}
        BY <2>2 DEF LeaseInv, Kept, Served
    <2>4. \A c \in Calls : c \in CallsOf(r) => call[c].gen \in CallGenerations(r)
        BY DEF CallGenerations
    <2> QED
        BY <2>2, <2>3, <2>4 DEF CallsOf
<1> QED
    BY <1>2, <1>3, <1>4 DEF RuntimesFollowLeases

LEMMA LeaseInit == Init => LeaseInv
<1> SUFFICES ASSUME Init
             PROVE  LeaseInv
    OBVIOUS
<1>1. 1 \in Registrations
    BY LifetimeAssumption DEF Registrations
<1>2. LeaseHolders
    BY DEF Init, LeaseHolders, NewJob, NewCall
<1>3. \A r : ExportsOf(r) = {} /\ CallsOf(r) = {}
    BY DEF Init, ExportsOf, CallsOf, NewJob, NewCall
<1>4. LeaseTypes
    BY <1>1 DEF Init, LeaseTypes
<1>5. \A r : StandingLeases(r) = 0 /\ StandingGenerations(r) = {} /\ CallGenerations(r) = {}
    BY <1>3, FS_EmptySet DEF StandingLeases, StandingGenerations, CallGenerations
<1>6. Served(NewOwner, 0, {}, {}) /\ Acquirable(NewOwner) /\ ~NewOwner.terminal
    BY NewOwnerGood, OwnerAssumption DEF Served, Acquirable, NewOwner
<1>7. Served(Acquire(NewOwner), 1, {1}, {}) /\ ~Acquire(NewOwner).terminal
    <2>1. Acquire(NewOwner).current = 1
        BY DEF Acquire, EnsureRuntime, NewOwner
    <2> HIDE DEF NewOwner
    <2> QED
        BY <1>6, <2>1, AcquireServed
<1>8. \A r \in Registrations : Kept(r)
    <2> SUFFICES ASSUME NEW r \in Registrations
                 PROVE  Kept(r)
        OBVIOUS
    <2>1. CASE r = 1
        <3>1. PageLeases(r) = 1 /\ PageGenerations(r) = {1} /\ owner[r] = Acquire(NewOwner)
            BY <2>1 DEF Init, PageLeases, PageGenerations
        <3> QED
            BY <1>5, <1>7, <3>1 DEF Kept
    <2>2. CASE r # 1
        <3>1. PageLeases(r) = 0 /\ PageGenerations(r) = {} /\ owner[r] = NewOwner
            BY <2>2 DEF Init, PageLeases, PageGenerations
        <3> QED
            BY <1>5, <1>6, <3>1 DEF Kept
    <2> QED
        BY <2>1, <2>2
<1> QED
    BY <1>2, <1>4, <1>8 DEF LeaseInv

(***************************************************************************)
(* The steps.                                                              *)
(***************************************************************************)
\* Nothing happens to the leases of registration r, nor to its owner.
Untouched(r) ==
    /\ owner'[r] = owner[r]
    /\ ExportsOf(r)' = ExportsOf(r) /\ CallsOf(r)' = CallsOf(r)
    /\ StandingGenerations(r)' = StandingGenerations(r)
    /\ CallGenerations(r)' = CallGenerations(r)
    /\ PageLeases(r)' = PageLeases(r) /\ PageGenerations(r)' = PageGenerations(r)

LEMMA UntouchedKept ==
    ASSUME NEW r \in Registrations, Kept(r), Untouched(r), retired \subseteq retired'
    PROVE  Kept(r)' /\ owner'[r].last >= owner[r].last
<1>1. owner[r].last \in Nat
    BY OwnerFields, OwnerAssumption DEF Kept, Served, GoodOwners
<1>2. StandingLeases(r)' = StandingLeases(r)
    BY DEF Untouched, StandingLeases
<1>3. Kept(r)'
    BY <1>2 DEF Untouched, Kept
<1> QED
    BY <1>1, <1>3 DEF Untouched

\* An owner changes, and only its leases.
LEMMA OneOwner ==
    ASSUME LeaseInv, LeaseTypes', LeaseHolders', NEW r \in Registrations,
           Kept(r)', owner'[r].last >= owner[r].last, retired \subseteq retired',
           \A x \in Registrations : x # r => Untouched(x)
    PROVE  LeaseInv' /\ Newer
<1>1. \A x \in Registrations : Kept(x)' /\ owner'[x].last >= owner[x].last
    <2> SUFFICES ASSUME NEW x \in Registrations
                 PROVE  Kept(x)' /\ owner'[x].last >= owner[x].last
        OBVIOUS
    <2>1. CASE x = r
        BY <2>1
    <2>2. CASE x # r
        BY <2>2, UntouchedKept DEF LeaseInv
    <2> QED
        BY <2>1, <2>2
<1> QED
    BY <1>1 DEF LeaseInv, Newer

\* What the invariant is about.
LEMMA AloneLeases ==
    ASSUME LeaseInv, UNCHANGED <<tree, reg, pipelineGen, owner, retired, job, call>>
    PROVE  LeaseInv' /\ Newer
<1>1. LeaseTypes' /\ LeaseHolders'
    BY DEF LeaseInv, LeaseTypes, LeaseHolders
<1>2. \A x \in Registrations : Untouched(x)
    BY DEF Untouched, ExportsOf, CallsOf, StandingGenerations, CallGenerations, PageLeases,
           PageGenerations
<1>3. PICK r \in Registrations : TRUE
    BY DEF LeaseInv, LeaseTypes
<1>4. Kept(r)' /\ owner'[r].last >= owner[r].last
    BY <1>2, UntouchedKept DEF LeaseInv
<1> QED
    BY <1>1, <1>2, <1>3, <1>4, OneOwner

\* An owner changes, and nobody's leases.
LEMMA OwnerAlone ==
    ASSUME LeaseInv, NEW r \in Registrations, NEW p,
           owner' = [owner EXCEPT ![r] = p],
           UNCHANGED <<reg, pipelineGen, retired, job, call>>,
           tree' = "shown" <=> tree = "shown",
           Served(p, StandingLeases(r) + PageLeases(r),
                  StandingGenerations(r) \cup PageGenerations(r), CallGenerations(r)),
           p.last >= owner[r].last, p.terminal => owner[r].terminal
    PROVE  LeaseInv' /\ Newer
<1>1. LeaseTypes' /\ LeaseHolders' /\ owner'[r] = p
    BY DEF LeaseInv, LeaseTypes, LeaseHolders
<1>2. \A x \in Registrations :
          /\ ExportsOf(x)' = ExportsOf(x) /\ CallsOf(x)' = CallsOf(x)
          /\ StandingGenerations(x)' = StandingGenerations(x)
          /\ CallGenerations(x)' = CallGenerations(x)
          /\ PageLeases(x)' = PageLeases(x) /\ PageGenerations(x)' = PageGenerations(x)
    BY DEF ExportsOf, CallsOf, StandingGenerations, CallGenerations, PageLeases, PageGenerations
<1>3. \A x \in Registrations : x # r => Untouched(x)
    BY <1>2 DEF Untouched, LeaseInv, LeaseTypes
<1>4. Kept(r)'
    <2>1. StandingLeases(r)' = StandingLeases(r)
        BY <1>2 DEF StandingLeases
    <2>2. p.terminal => r \in retired' /\ ExportsOf(r)' = {}
        BY <1>2 DEF LeaseInv, Kept
    <2> QED
        BY <1>1, <1>2, <2>1, <2>2 DEF Kept
<1> QED
    BY <1>1, <1>3, <1>4, OneOwner

LEMMA RetireIdleLeases ==
    ASSUME LeaseInv, NEW r \in Registrations, RetireIdleRuntime(r)
    PROVE  LeaseInv' /\ Newer
<1> DEFINE p == RetireIdle(owner[r])
<1>1. /\ owner[r].due # 0 /\ owner' = [owner EXCEPT ![r] = p]
      /\ UNCHANGED <<reg, pipelineGen, retired, job, call, tree>>
    BY DEF RetireIdleRuntime, providerVars, jobVars
<1>2. StandingLeases(r) + PageLeases(r) \in Nat
    BY HoldersFinite
<1>3. /\ Served(p, StandingLeases(r) + PageLeases(r),
                StandingGenerations(r) \cup PageGenerations(r), CallGenerations(r))
      /\ p.last >= owner[r].last /\ p.terminal = owner[r].terminal
    BY <1>1, <1>2, NoLeaseNoRuntime, RetireIdleServed DEF LeaseInv, Kept
<1> HIDE DEF p
<1> QED
    BY <1>1, <1>3, OwnerAlone

LEMMA DisposedLeases ==
    ASSUME LeaseInv, NEW r \in Registrations, NEW n \in Generations, RuntimeDisposed(r, n)
    PROVE  LeaseInv' /\ Newer
<1> DEFINE p == Disposed(owner[r], n)
<1>1. /\ owner[r].disposal[n] = "pending" /\ owner' = [owner EXCEPT ![r] = p]
      /\ UNCHANGED <<reg, pipelineGen, retired, job, call, tree>>
      /\ n \notin CallGenerations(r)
    BY DEF RuntimeDisposed, providerVars, jobVars, CallGenerations, CallsOf
<1>2. StandingLeases(r) + PageLeases(r) \in Nat
    BY HoldersFinite
<1>3. /\ Served(p, StandingLeases(r) + PageLeases(r),
                StandingGenerations(r) \cup PageGenerations(r), CallGenerations(r))
      /\ p.last >= owner[r].last /\ p.terminal = owner[r].terminal
    <2>1. Served(owner[r], StandingLeases(r) + PageLeases(r),
                 StandingGenerations(r) \cup PageGenerations(r), CallGenerations(r))
        BY DEF LeaseInv, Kept
    <2> DEFINE o == owner[r]
               count == StandingLeases(r) + PageLeases(r)
               gens == StandingGenerations(r) \cup PageGenerations(r)
    <2>2. Served(o, count, gens, CallGenerations(r)) /\ count \in Nat
        BY <1>2, <2>1
    <2>3. o.disposal[n] = "pending"
        BY <1>1
    <2> HIDE DEF o, count, gens
    <2>4. /\ Served(Disposed(o, n), count, gens, CallGenerations(r))
          /\ Disposed(o, n).last >= o.last /\ Disposed(o, n).terminal = o.terminal
        BY <1>1, <2>2, <2>3, DisposedServed
    <2> QED
        BY <2>4 DEF o, count, gens
<1> HIDE DEF p
<1> QED
    BY <1>1, <1>3, OwnerAlone

LEMMA ResolveLeases ==
    ASSUME LeaseInv, NEW r \in Registrations, ResolveTerminal(r)
    PROVE  LeaseInv' /\ Newer
<1> DEFINE p == [owner[r] EXCEPT !.resolved = TRUE]
<1>1. /\ Resolvable(owner[r]) /\ owner' = [owner EXCEPT ![r] = p]
      /\ UNCHANGED <<reg, pipelineGen, retired, job, call, tree>>
    BY DEF ResolveTerminal, providerVars, jobVars
<1>2. StandingLeases(r) + PageLeases(r) \in Nat
    BY HoldersFinite
<1>3. /\ Served(p, StandingLeases(r) + PageLeases(r),
                StandingGenerations(r) \cup PageGenerations(r), CallGenerations(r))
      /\ p.last >= owner[r].last /\ p.terminal = owner[r].terminal
    BY <1>1, <1>2, ResolveServed DEF LeaseInv, Kept
<1> HIDE DEF p
<1> QED
    BY <1>1, <1>3, OwnerAlone

LEMMA FailedLeases ==
    ASSUME LeaseInv, NEW r \in Registrations, ShowFails(r)
    PROVE  LeaseInv' /\ Newer
<1> DEFINE o == owner[r]
           p == Release(Acquire(o), Acquire(o).current)
           count == StandingLeases(r) + PageLeases(r)
           gens == StandingGenerations(r) \cup PageGenerations(r)
<1>1. /\ Acquirable(o) /\ owner' = [owner EXCEPT ![r] = p]
      /\ UNCHANGED <<reg, pipelineGen, retired, job, call>>
      /\ tree # "shown" /\ tree' # "shown"
    BY DEF ShowFails, Reconnectable, jobVars
<1>2. count \in Nat /\ Served(o, count, gens, CallGenerations(r))
    <2>1. StandingLeases(r) \in Nat /\ PageLeases(r) \in Nat
        BY HoldersFinite
    <2>2. Kept(r)
        BY DEF LeaseInv
    <2> QED
        BY <2>1, <2>2 DEF Kept
<1> HIDE DEF o, count, gens
<1>3. /\ Served(Acquire(o), count + 1, gens \cup {Acquire(o).current}, CallGenerations(r))
      /\ Acquire(o).last >= o.last /\ ~Acquire(o).terminal
    BY <1>1, <1>2, AcquireServed
<1>4. /\ Served(p, count, gens, CallGenerations(r))
      /\ p.last >= Acquire(o).last /\ ~p.terminal
    <2>1. count + 1 \in Nat /\ count + 1 >= 1
        BY <1>2
    <2> DEFINE n == Acquire(o).current
               held == gens \cup {n}
               q == Acquire(o)
               more == count + 1
    <2>2. n \in held /\ gens \subseteq held
        OBVIOUS
    <2>3. Served(q, more, held, CallGenerations(r)) /\ ~q.terminal
        BY <1>3
    <2>4. more \in Nat /\ more >= 1 /\ more - 1 = count
        BY <1>2, <2>1
    <2> HIDE DEF n, held, q, more
    <2>5. /\ Served(Release(q, n), count, gens, CallGenerations(r))
          /\ Release(q, n).last >= q.last /\ Release(q, n).terminal = q.terminal
        <3> DEFINE rest == more - 1
        <3>1. /\ Served(Release(q, n), rest, gens, CallGenerations(r))
              /\ Release(q, n).last >= q.last /\ Release(q, n).terminal = q.terminal
            BY <2>2, <2>3, <2>4, ReleaseServed
        <3> QED
            BY <2>4, <3>1
    <2>6. ~Release(q, n).terminal
        BY <2>3, <2>5
    <2> QED
        BY <2>5, <2>6 DEF n, q, more, p
<1>5. o.last \in Nat /\ Acquire(o).last \in Nat /\ p.last \in Nat
    BY <1>2, <1>3, <1>4, OwnerFields, OwnerAssumption DEF Served, GoodOwners
<1>6. Served(p, count, gens, CallGenerations(r)) /\ p.last >= o.last
    BY <1>2, <1>3, <1>4, <1>5
<1> QED
    BY <1>1, <1>4, <1>6, OwnerAlone DEF o, count, gens

\* While its tree is shown, the page leases the runtime of its registration.
LEMMA PageServed ==
    ASSUME LeaseInv, tree = "shown"
    PROVE  /\ pipelineGen \in Generations /\ PageLeases(reg) = 1
           /\ PageGenerations(reg) = {pipelineGen}
           /\ ~owner[reg].terminal /\ Acquirable(owner[reg])
<1>1. reg \in Registrations /\ pipelineGen # 0 /\ reg \notin retired
    BY DEF LeaseInv, LeaseTypes, Registrations
<1>2. PageLeases(reg) = 1 /\ PageGenerations(reg) = {pipelineGen}
    BY <1>1 DEF PageLeases, PageGenerations
<1>3. /\ ~owner[reg].terminal /\ pipelineGen \in Generations
      /\ pipelineGen = owner[reg].current
    BY <1>1, <1>2 DEF LeaseInv, Kept, Served
<1> QED
    BY <1>1, <1>2, <1>3 DEF Acquirable

LEMMA HideLeases ==
    ASSUME LeaseInv, Hide
    PROVE  LeaseInv' /\ Newer
<1>1. PICK r \in Registrations : r = reg
    BY DEF LeaseInv, LeaseTypes
<1> DEFINE p == Release(owner[r], pipelineGen)
<1>2. /\ tree = "shown" /\ tree' = "hidden" /\ pipelineGen' = 0
      /\ owner' = [owner EXCEPT ![r] = p]
      /\ UNCHANGED <<reg, retired, job, call>>
    BY <1>1 DEF Hide, jobVars
<1>3. /\ LeaseTypes' /\ LeaseHolders' /\ owner'[r] = p
    BY <1>2 DEF LeaseInv, LeaseTypes, LeaseHolders
<1>4. \A x \in Registrations :
          /\ ExportsOf(x)' = ExportsOf(x) /\ CallsOf(x)' = CallsOf(x)
          /\ StandingGenerations(x)' = StandingGenerations(x)
          /\ CallGenerations(x)' = CallGenerations(x)
          /\ StandingLeases(x)' = StandingLeases(x)
          /\ PageLeases(x)' = 0 /\ PageGenerations(x)' = {}
          /\ x # r => PageLeases(x) = 0 /\ PageGenerations(x) = {}
    BY <1>1, <1>2 DEF ExportsOf, CallsOf, StandingGenerations, CallGenerations, StandingLeases,
                      PageLeases, PageGenerations
<1>5. \A x \in Registrations : x # r => Untouched(x)
    BY <1>2, <1>4 DEF Untouched, LeaseInv, LeaseTypes
<1>6. /\ pipelineGen \in PageGenerations(r) /\ PageLeases(r) = 1 /\ ~owner[r].terminal
      /\ StandingLeases(r) \in Nat
    BY <1>1, <1>2, PageServed, HoldersFinite
<1>7. /\ Served(p, StandingLeases(r), StandingGenerations(r), CallGenerations(r))
      /\ p.last >= owner[r].last /\ p.terminal = owner[r].terminal
    <2> DEFINE o == owner[r]
               count == StandingLeases(r) + 1
               gens == StandingGenerations(r) \cup PageGenerations(r)
    <2>1. Kept(r)
        BY DEF LeaseInv
    <2>2. Served(o, count, gens, CallGenerations(r))
        BY <1>6, <2>1 DEF Kept
    <2>3. /\ count \in Nat /\ count >= 1 /\ count - 1 = StandingLeases(r) /\ pipelineGen \in gens
          /\ StandingGenerations(r) \subseteq gens
        BY <1>6
    <2> HIDE DEF o, count, gens
    <2>4. /\ Served(Release(o, pipelineGen), StandingLeases(r), StandingGenerations(r),
                    CallGenerations(r))
          /\ Release(o, pipelineGen).last >= o.last
          /\ Release(o, pipelineGen).terminal = o.terminal
        BY <2>2, <2>3, ReleaseServed
    <2> QED
        BY <2>4 DEF o, count, p
<1> HIDE DEF p
<1>8. Kept(r)'
    <2>1. StandingLeases(r) = StandingLeases(r)' + PageLeases(r)'
        BY <1>4, <1>6
    <2>2. Served(owner'[r], StandingLeases(r)' + PageLeases(r)',
                 StandingGenerations(r)' \cup PageGenerations(r)', CallGenerations(r)')
        BY <1>3, <1>4, <1>7, <2>1
    <2> QED
        BY <1>3, <1>6, <1>7, <2>2 DEF Kept
<1> QED
    BY <1>2, <1>3, <1>5, <1>7, <1>8, OneOwner

(***************************************************************************)
(* Exports and calls take leases and give them back.                       *)
(***************************************************************************)
LEMMA OneLeaseMore ==
    ASSUME NEW o, NEW count \in Nat, NEW more, NEW gens, NEW callGens, NEW gens2, NEW callGens2,
           Served(o, count, gens, callGens), Acquirable(o), more = count + 1,
           gens2 \subseteq gens \cup {Acquire(o).current}
    PROVE  /\ Served(Acquire(o), more, gens2, callGens2)
           /\ Acquire(o).last >= o.last /\ ~Acquire(o).terminal
BY AcquireServed

LEMMA OneLeaseLess ==
    ASSUME NEW o, NEW count \in Nat, NEW rest \in Nat, NEW gens, NEW callGens, NEW gens2,
           NEW callGens2,
           Served(o, count, gens, callGens), count >= 1, rest = count - 1, NEW n \in gens,
           gens2 \subseteq gens, callGens2 \subseteq callGens
    PROVE  /\ Served(Release(o, n), rest, gens2, callGens2)
           /\ Release(o, n).last >= o.last /\ Release(o, n).terminal = o.terminal
<1> DEFINE p == Release(o, n)
<1>1. /\ o \in GoodOwners /\ n \in 0 .. MaxGenerations /\ o.leases >= 1 /\ o.last \in Nat
      /\ ~o.terminal => n = o.current
    BY OwnerFields, OwnerAssumption DEF Served, GoodOwners, Generations
<1>2. /\ p \in GoodOwners /\ p.leases = o.leases - 1
      /\ p.current = o.current /\ p.terminal = o.terminal /\ p.disposal = o.disposal
      /\ p.last = o.last
    BY <1>1, ReleaseGood
<1> HIDE DEF p
<1>3. Served(p, rest, gens2, callGens2)
    BY <1>2 DEF Served, Pending
<1> QED
    BY <1>1, <1>2, <1>3 DEF p

LEMMA ExportChanges ==
    ASSUME LeaseHolders, NEW j \in Exports, NEW rec, job' = [job EXCEPT ![j] = rec],
           UNCHANGED call,
           rec = [state |-> rec.state, entry |-> rec.entry, source |-> rec.source,
                  reg |-> rec.reg, gen |-> rec.gen, holds |-> rec.holds],
           rec.state \in {"working", "cleaning"} <=> "pipeline" \in rec.holds,
           "pipeline" \in rec.holds => rec.reg \in Registrations
    PROVE  /\ LeaseHolders'
           /\ job'[j] = rec /\ \A k \in Exports : k # j => job'[k] = job[k]
           /\ \A x : CallsOf(x)' = CallsOf(x) /\ CallGenerations(x)' = CallGenerations(x)
<1>1. job'[j] = rec /\ \A k \in Exports : k # j => job'[k] = job[k]
    BY DEF LeaseHolders
<1>2. job' = [k \in Exports |-> job'[k]]
    BY DEF LeaseHolders
<1>3. LeaseHolders'
    BY <1>1, <1>2 DEF LeaseHolders
<1> QED
    BY <1>1, <1>3 DEF CallsOf, CallGenerations

LEMMA StateRevised ==
    ASSUME NEW state, NEW state2, NEW entry2, NEW source2, NEW reg2, NEW gen, NEW holds
    PROVE  [[state |-> state, entry |-> entry2, source |-> source2, reg |-> reg2,
             gen |-> gen, holds |-> holds] EXCEPT !.state = state2]
             = [state |-> state2, entry |-> entry2, source |-> source2, reg |-> reg2,
                gen |-> gen, holds |-> holds]
OBVIOUS

LEMMA HoldsRevised ==
    ASSUME NEW state, NEW entry2, NEW source2, NEW reg2, NEW gen, NEW holds, NEW holds2
    PROVE  [[state |-> state, entry |-> entry2, source |-> source2, reg |-> reg2,
             gen |-> gen, holds |-> holds] EXCEPT !.holds = holds2]
             = [state |-> state, entry |-> entry2, source |-> source2, reg |-> reg2,
                gen |-> gen, holds |-> holds2]
OBVIOUS

\* A step of an export that neither takes nor gives back the lease.
LEMMA ExportStaysLeased ==
    ASSUME LeaseInv, NEW j \in Exports, EndWork(j) \/ Settle(j)
    PROVE  LeaseInv' /\ Newer
<1>1. /\ \/ job[j].state = "working" /\ job' = [job EXCEPT ![j].state = "cleaning"]
         \/ job[j].state = "released" /\ job' = [job EXCEPT ![j].state = "settled"]
      /\ UNCHANGED <<tree, reg, pipelineGen, owner, retired, call>>
    BY DEF EndWork, Settle, providerVars, pipelineVars
<1>2. PICK state :
         /\ job' = [job EXCEPT ![j] =
                       [state |-> state, entry |-> job[j].entry, source |-> job[j].source,
                        reg |-> job[j].reg, gen |-> job[j].gen, holds |-> job[j].holds]]
         /\ state \in {"working", "cleaning"} <=> job[j].state \in {"working", "cleaning"}
    <2>1. \A state :
            [job EXCEPT ![j].state = state] =
               [job EXCEPT ![j] =
                   [state |-> state, entry |-> job[j].entry, source |-> job[j].source,
                    reg |-> job[j].reg, gen |-> job[j].gen, holds |-> job[j].holds]]
        <3> SUFFICES ASSUME NEW state
                     PROVE  [job EXCEPT ![j].state = state] =
                               [job EXCEPT ![j] =
                                   [state |-> state, entry |-> job[j].entry,
                                    source |-> job[j].source, reg |-> job[j].reg,
                                    gen |-> job[j].gen, holds |-> job[j].holds]]
            OBVIOUS
        <3>1. [job[j] EXCEPT !.state = state] =
                 [state |-> state, entry |-> job[j].entry, source |-> job[j].source,
                  reg |-> job[j].reg, gen |-> job[j].gen, holds |-> job[j].holds]
            BY StateRevised DEF LeaseInv, LeaseHolders
        <3> QED
            BY <3>1
    <2>2. CASE job[j].state = "working" /\ job' = [job EXCEPT ![j].state = "cleaning"]
        BY <2>1, <2>2
    <2>3. CASE job[j].state = "released" /\ job' = [job EXCEPT ![j].state = "settled"]
        <3>1. "settled" \in {"working", "cleaning"} <=> job[j].state \in {"working", "cleaning"}
            BY <2>3
        <3>2. job' = [job EXCEPT ![j] =
                         [state |-> "settled", entry |-> job[j].entry, source |-> job[j].source,
                          reg |-> job[j].reg, gen |-> job[j].gen, holds |-> job[j].holds]]
            BY <2>1, <2>3
        <3> QED
            BY <3>1, <3>2, Zenon
    <2> QED
        BY <1>1, <2>2, <2>3
<1> DEFINE rec == [state |-> state, entry |-> job[j].entry, source |-> job[j].source,
                   reg |-> job[j].reg, gen |-> job[j].gen, holds |-> job[j].holds]
<1>3. /\ LeaseHolders'
      /\ job'[j] = rec /\ \A k \in Exports : k # j => job'[k] = job[k]
      /\ \A x : CallsOf(x)' = CallsOf(x) /\ CallGenerations(x)' = CallGenerations(x)
    <2>1. /\ rec = [state |-> rec.state, entry |-> rec.entry, source |-> rec.source,
                    reg |-> rec.reg, gen |-> rec.gen, holds |-> rec.holds]
          /\ rec.state = state /\ rec.holds = job[j].holds /\ rec.reg = job[j].reg
        OBVIOUS
    <2>2. /\ job' = [job EXCEPT ![j] = rec] /\ UNCHANGED call /\ LeaseHolders
          /\ rec.state \in {"working", "cleaning"} <=> "pipeline" \in rec.holds
          /\ "pipeline" \in rec.holds => rec.reg \in Registrations
        BY <1>1, <1>2, <2>1 DEF LeaseInv, LeaseHolders
    <2> HIDE DEF rec
    <2> QED
        BY <2>1, <2>2, ExportChanges
<1>4. \A k \in Exports : /\ job'[k].reg = job[k].reg /\ job'[k].gen = job[k].gen
                         /\ job'[k].holds = job[k].holds
    BY <1>3
<1>5. \A x : ExportsOf(x)' = ExportsOf(x)
    BY <1>4 DEF ExportsOf
<1>6. \A x : StandingGenerations(x)' = StandingGenerations(x)
    BY <1>3, <1>4, <1>5 DEF StandingGenerations, ExportsOf
<1>7. \A x \in Registrations : Untouched(x)
    BY <1>1, <1>3, <1>5, <1>6 DEF Untouched, PageLeases, PageGenerations
<1>8. LeaseTypes'
    BY <1>1 DEF LeaseInv, LeaseTypes
<1>9. PICK r \in Registrations : TRUE
    BY DEF LeaseInv, LeaseTypes
<1>10. Kept(r)' /\ owner'[r].last >= owner[r].last
    BY <1>1, <1>7, UntouchedKept DEF LeaseInv
<1> QED
    BY <1>1, <1>3, <1>7, <1>8, <1>10, OneOwner

LEMMA StartLeases ==
    ASSUME LeaseInv, NEW j \in Exports, Start(j)
    PROVE  LeaseInv' /\ Newer
<1>1. PICK r \in Registrations : r = reg
    BY DEF LeaseInv, LeaseTypes
<1> DEFINE p == Acquire(owner[r])
<1>2. /\ tree = "shown" /\ job[j].state = "new" /\ owner' = [owner EXCEPT ![r] = p]
      /\ UNCHANGED <<tree, reg, pipelineGen, retired, call>>
    BY <1>1 DEF Start, NextExport, providerVars
<1>3. LeaseTypes' /\ owner'[r] = p /\ \A x \in Registrations : x # r => owner'[x] = owner[x]
    BY <1>2 DEF LeaseInv, LeaseTypes
<1>4. PICK rec : /\ job' = [job EXCEPT ![j] = rec]
                 /\ rec = [state |-> rec.state, entry |-> rec.entry, source |-> rec.source,
                           reg |-> rec.reg, gen |-> rec.gen, holds |-> rec.holds]
                 /\ rec.state \in {"working", "cleaning"} /\ "pipeline" \in rec.holds
                 /\ rec.reg = r /\ rec.gen = owner'[r].current
    <2>1. PICK state, holds :
              /\ job' = [job EXCEPT ![j] = [state |-> state, entry |-> entry, source |-> source,
                                            reg |-> r, gen |-> owner'[r].current,
                                            holds |-> holds]]
              /\ state \in {"working", "cleaning"} /\ "pipeline" \in holds
        <3>1. PICK admitted \in BOOLEAN :
                  job' = [job EXCEPT ![j] =
                             [state |-> IF host[source] = "live" /\ admitted THEN "working"
                                                                            ELSE "cleaning",
                              entry |-> entry, source |-> source, reg |-> reg,
                              gen |-> owner'[reg].current,
                              holds |-> {"source", "pipeline"}
                                            \cup (IF host[source] = "live" THEN {"host"} ELSE {})]]
            BY DEF Start
        <3> DEFINE state == IF host[source] = "live" /\ admitted THEN "working" ELSE "cleaning"
                   holds == {"source", "pipeline"}
                                \cup (IF host[source] = "live" THEN {"host"} ELSE {})
        <3>2. state \in {"working", "cleaning"} /\ "pipeline" \in holds
            OBVIOUS
        <3>3. job' = [job EXCEPT ![j] = [state |-> state, entry |-> entry, source |-> source,
                                         reg |-> r, gen |-> owner'[r].current, holds |-> holds]]
            BY <1>1, <3>1
        <3> HIDE DEF state, holds
        <3> QED
            BY <3>2, <3>3
    <2> DEFINE made == [state |-> state, entry |-> entry, source |-> source, reg |-> r,
                        gen |-> owner'[r].current, holds |-> holds]
    <2>2. /\ made = [state |-> made.state, entry |-> made.entry, source |-> made.source,
                     reg |-> made.reg, gen |-> made.gen, holds |-> made.holds]
          /\ made.state = state /\ made.holds = holds /\ made.reg = r
          /\ made.gen = owner'[r].current
        OBVIOUS
    <2>3. job' = [job EXCEPT ![j] = made]
        BY <2>1
    <2> HIDE DEF made
    <2> QED
        BY <2>1, <2>2, <2>3
<1>5. /\ LeaseHolders'
      /\ job'[j] = rec /\ \A k \in Exports : k # j => job'[k] = job[k]
      /\ \A x : CallsOf(x)' = CallsOf(x) /\ CallGenerations(x)' = CallGenerations(x)
    BY <1>2, <1>4, ExportChanges DEF LeaseInv
<1>6. \A x : j \notin ExportsOf(x)
    BY <1>2 DEF ExportsOf, LeaseInv, LeaseHolders
<1>7. /\ ExportsOf(r)' = ExportsOf(r) \cup {j}
      /\ \A x \in Registrations : x # r => ExportsOf(x)' = ExportsOf(x)
    BY <1>4, <1>5, <1>6 DEF ExportsOf
<1>8. /\ StandingGenerations(r)' \subseteq StandingGenerations(r) \cup {p.current}
      /\ \A x \in Registrations : x # r => StandingGenerations(x)' = StandingGenerations(x)
    <2>1. \A x : \A k \in ExportsOf(x) : job'[k] = job[k]
        BY <1>5, <1>6 DEF ExportsOf
    <2> QED
        BY <1>3, <1>4, <1>5, <1>7, <2>1 DEF StandingGenerations
<1>9. \A x : PageLeases(x)' = PageLeases(x) /\ PageGenerations(x)' = PageGenerations(x)
    BY <1>2 DEF PageLeases, PageGenerations
<1>10. \A x \in Registrations : x # r => Untouched(x)
    BY <1>3, <1>5, <1>7, <1>8, <1>9 DEF Untouched
<1>11. StandingLeases(r)' + PageLeases(r)' = StandingLeases(r) + PageLeases(r) + 1
    <2>1. Cardinality(ExportsOf(r) \cup {j}) = Cardinality(ExportsOf(r)) + 1
        BY <1>6, HoldersFinite, FS_AddElement
    <2> QED
        BY <1>5, <1>7, <1>9, <2>1, HoldersFinite DEF StandingLeases
<1>12. /\ Served(p, StandingLeases(r)' + PageLeases(r)',
                 StandingGenerations(r)' \cup PageGenerations(r)', CallGenerations(r)')
       /\ p.last >= owner[r].last /\ ~p.terminal
    <2> DEFINE o == owner[r]
               count == StandingLeases(r) + PageLeases(r)
               more == StandingLeases(r)' + PageLeases(r)'
               gens == StandingGenerations(r) \cup PageGenerations(r)
               gens2 == StandingGenerations(r)' \cup PageGenerations(r)'
    <2>1. Served(o, count, gens, CallGenerations(r))
        BY DEF LeaseInv, Kept
    <2>2. count \in Nat /\ more = count + 1
        BY <1>11, HoldersFinite
    <2>3. Acquirable(o)
        BY <1>1, <1>2, PageServed
    <2>4. gens2 \subseteq gens \cup {Acquire(o).current}
        BY <1>8, <1>9
    <2> HIDE DEF o, count, more, gens, gens2
    <2>5. /\ Served(Acquire(o), more, gens2, CallGenerations(r)')
          /\ Acquire(o).last >= o.last /\ ~Acquire(o).terminal
        BY <2>1, <2>2, <2>3, <2>4, OneLeaseMore
    <2> QED
        BY <2>5 DEF o, more, gens2
<1>13. Kept(r)'
    BY <1>3, <1>12 DEF Kept
<1> QED
    BY <1>2, <1>3, <1>5, <1>10, <1>12, <1>13, OneOwner

\* Everything an export held is released, and a registration that waited for it ends.
LEMMA ReleaseLeases ==
    ASSUME LeaseInv, NEW j \in Exports, ReleaseAll(j)
    PROVE  LeaseInv' /\ Newer
<1> DEFINE holder == job[j]
           rec == [state |-> "released", entry |-> holder.entry, source |-> holder.source,
                   reg |-> holder.reg, gen |-> holder.gen, holds |-> {}]
<1>1. /\ job[j].state = "cleaning" /\ "pipeline" \in job[j].holds
      /\ job[j].reg \in Registrations
    BY DEF ReleaseAll, LeaseInv, LeaseHolders
<1>2. PICK r \in Registrations : r = job[j].reg
    BY <1>1
<1>3. PICK g : g = job[j].gen
    OBVIOUS
<1> DEFINE left == Release(owner[r], g)
           p == IF r \in retired /\ ExportsOf(r) = {j} THEN Terminate(left) ELSE left
<1>4. /\ owner' = [owner EXCEPT ![r] = p]
      /\ UNCHANGED <<tree, reg, pipelineGen, retired, call>>
    BY <1>2, <1>3 DEF ReleaseAll, providerVars
<1>5. job' = [job EXCEPT ![j] = rec]
    <2>1. job' = [job EXCEPT ![j] = [[job[j] EXCEPT !.state = "released"] EXCEPT !.holds = {}]]
        BY DEF ReleaseAll, LeaseInv, LeaseHolders
    <2>2. [[job[j] EXCEPT !.state = "released"] EXCEPT !.holds = {}] = rec
        <3>1. [job[j] EXCEPT !.state = "released"] =
                 [state |-> "released", entry |-> holder.entry, source |-> holder.source,
                  reg |-> holder.reg, gen |-> holder.gen, holds |-> holder.holds]
            BY StateRevised DEF LeaseInv, LeaseHolders
        <3> DEFINE q == [job[j] EXCEPT !.state = "released"]
        <3>2. q = [state |-> "released", entry |-> holder.entry, source |-> holder.source,
                   reg |-> holder.reg, gen |-> holder.gen, holds |-> holder.holds]
            BY <3>1
        <3> HIDE DEF q, holder
        <3>3. [q EXCEPT !.holds = {}] = rec
            BY <3>2, HoldsRevised
        <3> QED
            BY <3>3 DEF q, holder
    <2> QED
        BY <2>1, <2>2
<1>6. /\ LeaseHolders'
      /\ job'[j].holds = {} /\ \A k \in Exports : k # j => job'[k] = job[k]
      /\ \A x : CallsOf(x)' = CallsOf(x) /\ CallGenerations(x)' = CallGenerations(x)
    <2>1. /\ rec = [state |-> rec.state, entry |-> rec.entry, source |-> rec.source,
                    reg |-> rec.reg, gen |-> rec.gen, holds |-> rec.holds]
          /\ rec.state \notin {"working", "cleaning"} /\ rec.holds = {}
        OBVIOUS
    <2>2. job' = [job EXCEPT ![j] = rec] /\ UNCHANGED call /\ LeaseHolders
        BY <1>4, <1>5 DEF LeaseInv
    <2> HIDE DEF rec
    <2> QED
        BY <2>1, <2>2, ExportChanges
<1>7. /\ j \in ExportsOf(r) /\ ExportsOf(r)' = ExportsOf(r) \ {j}
      /\ \A x \in Registrations : x # r => j \notin ExportsOf(x) /\ ExportsOf(x)' = ExportsOf(x)
    BY <1>1, <1>2, <1>6 DEF ExportsOf
<1>8. /\ StandingGenerations(r)' \subseteq StandingGenerations(r)
      /\ \A x \in Registrations : x # r => StandingGenerations(x)' = StandingGenerations(x)
    <2>1. \A x : \A k \in ExportsOf(x) : k # j => job'[k] = job[k]
        BY <1>6 DEF ExportsOf
    <2> QED
        BY <1>6, <1>7, <2>1 DEF StandingGenerations
<1>9. \A x : PageLeases(x)' = PageLeases(x) /\ PageGenerations(x)' = PageGenerations(x)
    BY <1>4 DEF PageLeases, PageGenerations
<1>10. /\ LeaseTypes' /\ owner'[r] = p
       /\ \A x \in Registrations : x # r => owner'[x] = owner[x]
    BY <1>4 DEF LeaseInv, LeaseTypes
<1>11. \A x \in Registrations : x # r => Untouched(x)
    BY <1>6, <1>7, <1>8, <1>9, <1>10 DEF Untouched
<1>12. /\ StandingLeases(r)' + PageLeases(r)' \in Nat
       /\ StandingLeases(r)' + PageLeases(r)' = StandingLeases(r) + PageLeases(r) - 1
       /\ StandingLeases(r) + PageLeases(r) \in Nat /\ StandingLeases(r) + PageLeases(r) >= 1
    <2>1. /\ Cardinality(ExportsOf(r) \ {j}) = Cardinality(ExportsOf(r)) - 1
          /\ Cardinality(ExportsOf(r) \ {j}) \in Nat
        BY <1>7, HoldersFinite, FS_RemoveElement, FS_CardinalityType
    <2> QED
        BY <1>6, <1>7, <1>9, <2>1, HoldersFinite DEF StandingLeases
<1>13. /\ Served(left, StandingLeases(r)' + PageLeases(r)',
                 StandingGenerations(r) \cup PageGenerations(r), CallGenerations(r))
       /\ left.last >= owner[r].last /\ left.terminal = owner[r].terminal
    <2> DEFINE o == owner[r]
               count == StandingLeases(r) + PageLeases(r)
               rest == StandingLeases(r)' + PageLeases(r)'
               gens == StandingGenerations(r) \cup PageGenerations(r)
    <2>1. Served(o, count, gens, CallGenerations(r))
        BY DEF LeaseInv, Kept
    <2>2. count \in Nat /\ rest \in Nat /\ count >= 1 /\ rest = count - 1
        <3>1. StandingLeases(r) \in Nat /\ PageLeases(r) \in Nat
            BY HoldersFinite
        <3> QED
            BY <1>12, <3>1
    <2>3. g \in gens
        BY <1>3, <1>7 DEF StandingGenerations
    <2> HIDE DEF o, count, rest, gens
    <2>4. /\ Served(Release(o, g), rest, gens, CallGenerations(r))
          /\ Release(o, g).last >= o.last /\ Release(o, g).terminal = o.terminal
        BY <2>1, <2>2, <2>3, OneLeaseLess
    <2> QED
        BY <2>4 DEF o, rest, gens
<1>14. /\ Served(p, StandingLeases(r)' + PageLeases(r)',
                 StandingGenerations(r)' \cup PageGenerations(r)', CallGenerations(r)')
       /\ p.last >= owner[r].last
       /\ p.terminal => r \in retired /\ ExportsOf(r)' = {}
    <2> DEFINE count == StandingLeases(r)' + PageLeases(r)'
               gens == StandingGenerations(r) \cup PageGenerations(r)
               gens2 == StandingGenerations(r)' \cup PageGenerations(r)'
               calls == CallGenerations(r)
    <2>1. Served(left, count, gens, calls) /\ count \in Nat
        BY <1>12, <1>13
    <2>2. gens2 \subseteq gens /\ calls \subseteq gens2 /\ CallGenerations(r)' = calls
        BY <1>6, <1>8, <1>9 DEF StandingGenerations
    <2>3. Served(left, count, gens2, calls)
        BY <2>1, <2>2 DEF Served
    <2>4. ~owner[r].terminal /\ ~left.terminal
        BY <1>7, <1>13 DEF LeaseInv, Kept
    <2>5. owner[r].last \in Nat /\ left.last \in Nat
        BY <1>13, OwnerFields, OwnerAssumption DEF Served, GoodOwners, LeaseInv, Kept
    <2> HIDE DEF count, gens, gens2, calls, left
    <2>6. CASE r \in retired /\ ExportsOf(r) = {j}
        <3>1. p = Terminate(left) /\ ExportsOf(r)' = {}
            BY <1>7, <2>6
        <3>2. Served(Terminate(left), count, gens2, calls) /\ Terminate(left).last >= left.last
            BY <2>1, <2>2, TerminateServed
        <3>3. Terminate(left).last \in Nat
            BY <3>2, OwnerFields, OwnerAssumption DEF Served, GoodOwners
        <3> QED
            BY <1>13, <2>2, <2>5, <2>6, <3>1, <3>2, <3>3 DEF count, gens2
    <2>7. CASE ~(r \in retired /\ ExportsOf(r) = {j})
        BY <1>13, <2>2, <2>3, <2>4, <2>7 DEF count, gens2
    <2> QED
        BY <2>6, <2>7
<1> HIDE DEF p
<1>15. Kept(r)'
    BY <1>4, <1>10, <1>14 DEF Kept
<1> QED
    BY <1>4, <1>6, <1>10, <1>11, <1>14, <1>15, OneOwner

LEMMA CallChanges ==
    ASSUME LeaseHolders, NEW c \in Calls, NEW state, NEW r, NEW g,
           call' = [call EXCEPT ![c] = [state |-> state, reg |-> r, gen |-> g]],
           UNCHANGED job, state = "open" => r \in Registrations
    PROVE  /\ LeaseHolders'
           /\ call'[c] = [state |-> state, reg |-> r, gen |-> g]
           /\ \A d \in Calls : d # c => call'[d] = call[d]
           /\ \A x : ExportsOf(x)' = ExportsOf(x)
<1>1. /\ call'[c] = [state |-> state, reg |-> r, gen |-> g]
      /\ \A d \in Calls : d # c => call'[d] = call[d]
      /\ call' = [d \in Calls |-> call'[d]]
    BY DEF LeaseHolders
<1>2. LeaseHolders'
    BY <1>1 DEF LeaseHolders
<1> QED
    BY <1>1, <1>2 DEF ExportsOf

LEMMA BeginCallLeases ==
    ASSUME LeaseInv, NEW c \in Calls, NEW r \in Registrations, BeginCall(c, r)
    PROVE  LeaseInv' /\ Newer
<1> DEFINE p == Acquire(owner[r])
<1>1. /\ call[c].state = "new" /\ Acquirable(owner[r]) /\ owner' = [owner EXCEPT ![r] = p]
      /\ call' = [call EXCEPT ![c] = [state |-> "open", reg |-> r, gen |-> owner'[r].current]]
      /\ UNCHANGED <<tree, reg, pipelineGen, retired, job>>
    BY DEF BeginCall, providerVars, jobVars
<1>2. LeaseTypes' /\ owner'[r] = p /\ \A x \in Registrations : x # r => owner'[x] = owner[x]
    BY <1>1 DEF LeaseInv, LeaseTypes
<1>3. /\ LeaseHolders'
      /\ call'[c] = [state |-> "open", reg |-> r, gen |-> owner'[r].current]
      /\ \A d \in Calls : d # c => call'[d] = call[d]
      /\ \A x : ExportsOf(x)' = ExportsOf(x)
    BY <1>1, CallChanges DEF LeaseInv
<1>4. /\ \A x : c \notin CallsOf(x)
      /\ CallsOf(r)' = CallsOf(r) \cup {c}
      /\ \A x \in Registrations : x # r => CallsOf(x)' = CallsOf(x)
    BY <1>1, <1>3 DEF CallsOf
<1>5. \A x : \A d \in CallsOf(x) : call'[d] = call[d]
    BY <1>3, <1>4 DEF CallsOf
<1>6. /\ CallGenerations(r)' \subseteq CallGenerations(r) \cup {p.current}
      /\ \A x \in Registrations : x # r => CallGenerations(x)' = CallGenerations(x)
    BY <1>2, <1>3, <1>4, <1>5 DEF CallGenerations
<1>7. /\ StandingGenerations(r)' \subseteq StandingGenerations(r) \cup {p.current}
      /\ \A x \in Registrations : x # r => StandingGenerations(x)' = StandingGenerations(x)
    BY <1>1, <1>3, <1>6 DEF StandingGenerations
<1>8. \A x : PageLeases(x)' = PageLeases(x) /\ PageGenerations(x)' = PageGenerations(x)
    BY <1>1 DEF PageLeases, PageGenerations
<1>9. \A x \in Registrations : x # r => Untouched(x)
    BY <1>2, <1>3, <1>4, <1>6, <1>7, <1>8 DEF Untouched
<1>10. StandingLeases(r)' + PageLeases(r)' = StandingLeases(r) + PageLeases(r) + 1
    <2>1. Cardinality(CallsOf(r) \cup {c}) = Cardinality(CallsOf(r)) + 1
        BY <1>4, HoldersFinite, FS_AddElement
    <2> QED
        BY <1>3, <1>4, <1>8, <2>1, HoldersFinite DEF StandingLeases
<1>11. /\ Served(p, StandingLeases(r)' + PageLeases(r)',
                 StandingGenerations(r)' \cup PageGenerations(r)', CallGenerations(r)')
       /\ p.last >= owner[r].last /\ ~p.terminal
    <2> DEFINE o == owner[r]
               count == StandingLeases(r) + PageLeases(r)
               more == StandingLeases(r)' + PageLeases(r)'
               gens == StandingGenerations(r) \cup PageGenerations(r)
               gens2 == StandingGenerations(r)' \cup PageGenerations(r)'
    <2>1. Served(o, count, gens, CallGenerations(r)) /\ Acquirable(o)
        BY <1>1 DEF LeaseInv, Kept
    <2>2. count \in Nat /\ more = count + 1
        BY <1>10, HoldersFinite
    <2>3. gens2 \subseteq gens \cup {Acquire(o).current}
        BY <1>7, <1>8
    <2> HIDE DEF o, count, more, gens, gens2
    <2>4. /\ Served(Acquire(o), more, gens2, CallGenerations(r)')
          /\ Acquire(o).last >= o.last /\ ~Acquire(o).terminal
        BY <2>1, <2>2, <2>3, OneLeaseMore
    <2> QED
        BY <2>4 DEF o, more, gens2
<1>12. Kept(r)'
    BY <1>2, <1>11 DEF Kept
<1> QED
    BY <1>1, <1>2, <1>3, <1>9, <1>11, <1>12, OneOwner

LEMMA EndCallLeases ==
    ASSUME LeaseInv, NEW c \in Calls, EndCall(c)
    PROVE  LeaseInv' /\ Newer
<1>1. call[c].state = "open" /\ call[c].reg \in Registrations
    BY DEF EndCall, LeaseInv, LeaseHolders
<1>2. PICK r \in Registrations : r = call[c].reg
    BY <1>1
<1>3. PICK g : g = call[c].gen
    OBVIOUS
<1> DEFINE p == Release(owner[r], g)
<1>4. /\ owner' = [owner EXCEPT ![r] = p]
      /\ call' = [call EXCEPT ![c] = [state |-> "ended", reg |-> r, gen |-> g]]
      /\ UNCHANGED <<tree, reg, pipelineGen, retired, job>>
    <2>1. [call[c] EXCEPT !.state = "ended"] = [state |-> "ended", reg |-> r, gen |-> g]
        BY <1>2, <1>3 DEF LeaseInv, LeaseHolders
    <2> QED
        BY <1>2, <1>3, <2>1 DEF EndCall, providerVars, jobVars
<1>5. LeaseTypes' /\ owner'[r] = p /\ \A x \in Registrations : x # r => owner'[x] = owner[x]
    BY <1>4 DEF LeaseInv, LeaseTypes
<1>6. /\ LeaseHolders'
      /\ call'[c] = [state |-> "ended", reg |-> r, gen |-> g]
      /\ \A d \in Calls : d # c => call'[d] = call[d]
      /\ \A x : ExportsOf(x)' = ExportsOf(x)
    BY <1>4, CallChanges DEF LeaseInv
<1>7. /\ c \in CallsOf(r) /\ CallsOf(r)' = CallsOf(r) \ {c}
      /\ \A x \in Registrations : x # r => c \notin CallsOf(x) /\ CallsOf(x)' = CallsOf(x)
    BY <1>1, <1>2, <1>6 DEF CallsOf
<1>8. \A x : \A d \in CallsOf(x) : d # c => call'[d] = call[d]
    BY <1>6 DEF CallsOf
<1>9. /\ CallGenerations(r)' \subseteq CallGenerations(r)
      /\ \A x \in Registrations : x # r => CallGenerations(x)' = CallGenerations(x)
    BY <1>7, <1>8 DEF CallGenerations
<1>10. /\ StandingGenerations(r)' \subseteq StandingGenerations(r)
       /\ \A x \in Registrations : x # r => StandingGenerations(x)' = StandingGenerations(x)
    BY <1>4, <1>6, <1>9 DEF StandingGenerations
<1>11. \A x : PageLeases(x)' = PageLeases(x) /\ PageGenerations(x)' = PageGenerations(x)
    BY <1>4 DEF PageLeases, PageGenerations
<1>12. \A x \in Registrations : x # r => Untouched(x)
    BY <1>5, <1>6, <1>7, <1>9, <1>10, <1>11 DEF Untouched
<1>13. /\ StandingLeases(r)' + PageLeases(r)' \in Nat
       /\ StandingLeases(r)' + PageLeases(r)' = StandingLeases(r) + PageLeases(r) - 1
       /\ StandingLeases(r) + PageLeases(r) \in Nat /\ StandingLeases(r) + PageLeases(r) >= 1
    <2>1. /\ Cardinality(CallsOf(r) \ {c}) = Cardinality(CallsOf(r)) - 1
          /\ Cardinality(CallsOf(r) \ {c}) \in Nat
        BY <1>7, HoldersFinite, FS_RemoveElement, FS_CardinalityType
    <2> QED
        BY <1>6, <1>7, <1>11, <2>1, HoldersFinite DEF StandingLeases
<1>14. /\ Served(p, StandingLeases(r)' + PageLeases(r)',
                 StandingGenerations(r)' \cup PageGenerations(r)', CallGenerations(r)')
       /\ p.last >= owner[r].last /\ p.terminal = owner[r].terminal
    <2> DEFINE o == owner[r]
               count == StandingLeases(r) + PageLeases(r)
               rest == StandingLeases(r)' + PageLeases(r)'
               gens == StandingGenerations(r) \cup PageGenerations(r)
               gens2 == StandingGenerations(r)' \cup PageGenerations(r)'
    <2>1. Served(o, count, gens, CallGenerations(r))
        BY DEF LeaseInv, Kept
    <2>2. count \in Nat /\ rest \in Nat /\ count >= 1 /\ rest = count - 1
        <3>1. StandingLeases(r) \in Nat /\ PageLeases(r) \in Nat
            BY HoldersFinite
        <3> QED
            BY <1>13, <3>1
    <2>3. g \in gens /\ gens2 \subseteq gens
        BY <1>3, <1>7, <1>10, <1>11 DEF StandingGenerations, CallGenerations
    <2> HIDE DEF o, count, rest, gens, gens2
    <2>4. /\ Served(Release(o, g), rest, gens2, CallGenerations(r)')
          /\ Release(o, g).last >= o.last /\ Release(o, g).terminal = o.terminal
        BY <1>9, <2>1, <2>2, <2>3, OneLeaseLess
    <2> QED
        BY <2>4 DEF o, rest, gens2
<1> HIDE DEF p
<1>15. Kept(r)'
    <2>1. owner[r].terminal => r \in retired' /\ ExportsOf(r)' = {}
        BY <1>4, <1>6 DEF LeaseInv, Kept
    <2> QED
        BY <1>5, <1>14, <2>1 DEF Kept
<1> QED
    BY <1>4, <1>5, <1>6, <1>12, <1>14, <1>15, OneOwner

(***************************************************************************)
(* The page takes a lease of the registration it is shown with, and ends   *)
(* the one it had before; os are the owners without the page's leases.     *)
(***************************************************************************)
LEMMA CommitLeases ==
    ASSUME LeaseInv, NEW r \in Registrations, NEW os, CommitPipeline(r, os),
           r \in {reg, reg + 1}, tree' = "shown", UNCHANGED <<job, call>>,
           \A x \in Registrations :
              /\ Served(os[x], StandingLeases(x), StandingGenerations(x), CallGenerations(x))
              /\ os[x].last >= owner[x].last
              /\ os[x].terminal = owner[x].terminal
    PROVE  LeaseInv' /\ Newer
<1>1. /\ Acquirable(os[r])
      /\ owner' = [x \in Registrations |->
                      IF x = r THEN Acquire(os[x])
                      ELSE IF x = reg THEN EndOwner(x, os[x]) ELSE os[x]]
      /\ reg' = r /\ pipelineGen' = owner'[r].current
      /\ retired' = IF r = reg THEN retired ELSE retired \cup {reg}
    BY DEF CommitPipeline
<1>2. /\ reg \in Registrations /\ reg \in Nat /\ r \in Nat
    BY LifetimeAssumption DEF LeaseInv, LeaseTypes, Registrations
<1>3. \A x \in Registrations :
          /\ ExportsOf(x)' = ExportsOf(x) /\ CallsOf(x)' = CallsOf(x)
          /\ StandingGenerations(x)' = StandingGenerations(x)
          /\ CallGenerations(x)' = CallGenerations(x)
          /\ StandingLeases(x)' = StandingLeases(x)
    BY DEF ExportsOf, CallsOf, StandingGenerations, CallGenerations, StandingLeases
<1>4. \A x \in Registrations :
          StandingLeases(x) \in Nat /\ os[x].last \in Nat /\ owner[x].last \in Nat
    <2>1. \A x \in Registrations : os[x] \in OwnerRecords /\ owner[x] \in OwnerRecords
        BY DEF Served, GoodOwners, LeaseInv, Kept
    <2> QED
        BY <2>1, HoldersFinite, OwnerFields, OwnerAssumption
<1>5. /\ Served(Acquire(os[r]), StandingLeases(r) + 1,
                StandingGenerations(r) \cup {Acquire(os[r]).current}, CallGenerations(r))
      /\ Acquire(os[r]).last >= os[r].last /\ ~Acquire(os[r]).terminal
      /\ Acquire(os[r]).last \in Nat /\ Acquire(os[r]).current \in Generations
    <2> DEFINE o == os[r]
               count == StandingLeases(r)
               more == count + 1
               gens == StandingGenerations(r)
               gens2 == gens \cup {Acquire(o).current}
    <2>1. Served(o, count, gens, CallGenerations(r)) /\ Acquirable(o) /\ count \in Nat
        BY <1>1, <1>4
    <2>2. more = count + 1 /\ gens2 \subseteq gens \cup {Acquire(o).current}
        OBVIOUS
    <2> HIDE DEF o, count, more, gens, gens2
    <2>3. /\ Served(Acquire(o), more, gens2, CallGenerations(r))
          /\ Acquire(o).last >= o.last /\ ~Acquire(o).terminal
        BY <2>1, <2>2, OneLeaseMore
    <2>4. Acquire(o).last \in Nat /\ Acquire(o).current \in Generations
        BY <2>1, <2>3, AcquireGood, OwnerFields, OwnerAssumption DEF Served, GoodOwners
    <2> QED
        BY <2>3, <2>4 DEF o, count, more, gens, gens2
<1>6. owner'[r] = Acquire(os[r]) /\ pipelineGen' \in Generations
    BY <1>1, <1>5
<1>7. LeaseTypes'
    <2>1. pipelineGen' # 0
        BY <1>6 DEF Generations
    <2>2. owner' = [x \in Registrations |-> owner'[x]]
        BY <1>1
    <2>3. \A x \in retired' : x \in Registrations /\ x < reg'
        <3>1. CASE r = reg
            BY <1>1, <3>1 DEF LeaseInv, LeaseTypes
        <3>2. CASE r = reg + 1
            BY <1>1, <1>2, <3>2 DEF LeaseInv, LeaseTypes, Registrations
        <3> QED
            BY <3>1, <3>2
    <2> QED
        BY <1>1, <2>1, <2>2, <2>3 DEF LeaseTypes
<1>8. LeaseHolders'
    BY DEF LeaseInv, LeaseHolders
<1>9. Kept(r)' /\ owner'[r].last >= owner[r].last
    <2>1. PageLeases(r)' = 1 /\ PageGenerations(r)' = {owner'[r].current}
        BY <1>1, <1>6 DEF PageLeases, PageGenerations, Generations
    <2>2. owner'[r].last >= owner[r].last
        BY <1>4, <1>5, <1>6
    <2>3. Served(owner'[r], StandingLeases(r)' + PageLeases(r)',
                 StandingGenerations(r)' \cup PageGenerations(r)', CallGenerations(r)')
        BY <1>3, <1>5, <1>6, <2>1
    <2> QED
        BY <1>5, <1>6, <2>2, <2>3 DEF Kept
<1>10. ASSUME NEW x \in Registrations, x # r
       PROVE  Kept(x)' /\ owner'[x].last >= owner[x].last
    <2>1. PageLeases(x)' = 0 /\ PageGenerations(x)' = {}
        BY <1>1, <1>10 DEF PageLeases, PageGenerations
    <2>2. StandingLeases(x)' + PageLeases(x)' = StandingLeases(x)
        BY <1>3, <1>4, <2>1
    <2>3. owner[x].terminal => x \in retired /\ ExportsOf(x) = {}
        BY DEF LeaseInv, Kept
    <2>4. retired \subseteq retired'
        BY <1>1
    <2>5. CASE x = reg /\ ExportsOf(x) = {}
        <3> DEFINE o == os[x]
                   count == StandingLeases(x)
                   gens == StandingGenerations(x)
                   calls == CallGenerations(x)
        <3>1. owner'[x] = Terminate(o) /\ x \in retired'
            BY <1>1, <1>10, <2>5 DEF EndOwner
        <3>2. Served(o, count, gens, calls) /\ count \in Nat /\ calls \subseteq gens
            BY <1>4 DEF StandingGenerations
        <3> HIDE DEF o, count, gens, calls
        <3>3. Served(Terminate(o), count, gens, calls) /\ Terminate(o).last >= o.last
            BY <3>2, TerminateServed
        <3>4. Terminate(o).last \in Nat
            BY <3>3, OwnerFields, OwnerAssumption DEF Served, GoodOwners
        <3>5. owner'[x].last >= owner[x].last
            BY <1>4, <3>1, <3>3, <3>4 DEF o
        <3>6. Served(owner'[x], StandingLeases(x)' + PageLeases(x)',
                     StandingGenerations(x)' \cup PageGenerations(x)', CallGenerations(x)')
            BY <1>3, <2>1, <2>2, <3>1, <3>3 DEF count, gens, calls
        <3> QED
            BY <1>3, <2>5, <3>1, <3>5, <3>6 DEF Kept
    <2>6. CASE ~(x = reg /\ ExportsOf(x) = {})
        <3>1. owner'[x] = os[x]
            BY <1>1, <1>10, <2>6 DEF EndOwner
        <3>2. Served(owner'[x], StandingLeases(x)' + PageLeases(x)',
                     StandingGenerations(x)' \cup PageGenerations(x)', CallGenerations(x)')
            BY <1>3, <2>1, <2>2, <3>1
        <3>3. owner'[x].terminal => x \in retired' /\ ExportsOf(x)' = {}
            BY <1>3, <2>3, <2>4, <3>1
        <3> QED
            BY <3>1, <3>2, <3>3 DEF Kept
    <2> QED
        BY <2>5, <2>6
<1>11. \A x \in Registrations : Kept(x)' /\ owner'[x].last >= owner[x].last
    BY <1>9, <1>10
<1> QED
    BY <1>7, <1>8, <1>11 DEF LeaseInv, Newer

LEMMA ReplaceLeases ==
    ASSUME LeaseInv, NEW r \in Registrations, Replace(r)
    PROVE  LeaseInv' /\ Newer
<1>1. PICK q \in Registrations : q = reg
    BY DEF LeaseInv, LeaseTypes
<1> DEFINE os == [owner EXCEPT ![q] = Release(@, pipelineGen)]
<1>2. /\ tree = "shown" /\ tree' = "shown" /\ r = reg + 1 /\ CommitPipeline(r, os)
      /\ UNCHANGED <<job, call>>
    BY <1>1 DEF Replace
<1>3. \A x \in Registrations :
         /\ Served(os[x], StandingLeases(x), StandingGenerations(x), CallGenerations(x))
         /\ os[x].last >= owner[x].last
         /\ os[x].terminal = owner[x].terminal
    <2> SUFFICES ASSUME NEW x \in Registrations
                 PROVE  /\ Served(os[x], StandingLeases(x), StandingGenerations(x),
                                  CallGenerations(x))
                        /\ os[x].last >= owner[x].last
                        /\ os[x].terminal = owner[x].terminal
        OBVIOUS
    <2>1. Kept(x) /\ StandingLeases(x) \in Nat
        BY HoldersFinite DEF LeaseInv
    <2>2. CASE x = q
        <3> DEFINE o == owner[x]
                   count == StandingLeases(x) + PageLeases(x)
                   rest == StandingLeases(x)
                   gens == StandingGenerations(x) \cup PageGenerations(x)
                   gens2 == StandingGenerations(x)
                   calls == CallGenerations(x)
        <3>1. /\ PageLeases(x) = 1 /\ pipelineGen \in PageGenerations(x)
            BY <1>1, <1>2, <2>2, PageServed
        <3>2. /\ Served(o, count, gens, calls) /\ pipelineGen \in gens
              /\ gens2 \subseteq gens /\ calls \subseteq calls
            BY <2>1, <3>1 DEF Kept
        <3>3. count \in Nat /\ rest \in Nat /\ count >= 1 /\ rest = count - 1
            BY <2>1, <3>1
        <3>4. os[x] = Release(o, pipelineGen)
            BY <2>2 DEF LeaseInv, LeaseTypes
        <3> HIDE DEF o, count, rest, gens, gens2, calls, os
        <3>5. /\ Served(Release(o, pipelineGen), rest, gens2, calls)
              /\ Release(o, pipelineGen).last >= o.last
              /\ Release(o, pipelineGen).terminal = o.terminal
            BY <3>2, <3>3, OneLeaseLess
        <3> QED
            BY <3>4, <3>5 DEF o, rest, gens2, calls
    <2>3. CASE x # q
        <3>1. PageLeases(x) = 0 /\ PageGenerations(x) = {} /\ os[x] = owner[x]
            BY <1>1, <2>3 DEF PageLeases, PageGenerations, LeaseInv, LeaseTypes
        <3>2. StandingLeases(x) + PageLeases(x) = StandingLeases(x)
            BY <2>1, <3>1
        <3>3. Served(os[x], StandingLeases(x), StandingGenerations(x), CallGenerations(x))
            BY <2>1, <3>1, <3>2 DEF Kept
        <3>4. owner[x].last \in Nat
            BY <2>1, OwnerFields, OwnerAssumption DEF Kept, Served, GoodOwners
        <3> QED
            BY <3>1, <3>3, <3>4
    <2> QED
        BY <2>2, <2>3
<1> HIDE DEF os
<1> QED
    BY <1>2, <1>3, CommitLeases

LEMMA ShowLeases ==
    ASSUME LeaseInv, NEW r \in Registrations, ShowSame(r) \/ ShowNew(r)
    PROVE  LeaseInv' /\ Newer
<1>1. /\ tree = "hidden" /\ tree' = "shown" /\ r \in {reg, reg + 1} /\ CommitPipeline(r, owner)
      /\ UNCHANGED <<job, call>>
    BY DEF ShowSame, ShowNew, Reconnectable
<1>2. \A x \in Registrations :
         /\ Served(owner[x], StandingLeases(x), StandingGenerations(x), CallGenerations(x))
         /\ owner[x].last >= owner[x].last
         /\ owner[x].terminal = owner[x].terminal
    <2> SUFFICES ASSUME NEW x \in Registrations
                 PROVE  /\ Served(owner[x], StandingLeases(x), StandingGenerations(x),
                                  CallGenerations(x))
                        /\ owner[x].last >= owner[x].last
        OBVIOUS
    <2>1. Kept(x) /\ StandingLeases(x) \in Nat
        BY HoldersFinite DEF LeaseInv
    <2>2. PageLeases(x) = 0 /\ PageGenerations(x) = {}
        BY <1>1 DEF PageLeases, PageGenerations, LeaseInv, LeaseTypes
    <2>3. StandingLeases(x) + PageLeases(x) = StandingLeases(x)
        BY <2>1, <2>2
    <2>4. owner[x].last \in Nat
        BY <2>1, OwnerFields, OwnerAssumption DEF Kept, Served, GoodOwners
    <2>5. Served(owner[x], StandingLeases(x), StandingGenerations(x), CallGenerations(x))
        BY <2>1, <2>2, <2>3 DEF Kept
    <2> QED
        BY <2>4, <2>5
<1> QED
    BY <1>1, <1>2, CommitLeases

LEMMA LeaseStep ==
    ASSUME LeaseInv, [Next]_vars
    PROVE  LeaseInv' /\ Newer
<1>1. CASE User
    <2>1. CASE BeginPreview
        BY <2>1, AloneLeases DEF BeginPreview, providerVars, pipelineVars, jobVars
    <2> QED
        BY <1>1, <2>1, HideLeases, ReplaceLeases, ShowLeases, FailedLeases, StartLeases,
           BeginCallLeases DEF User
<1>2. CASE Queued
    <2>1. CASE \/ HideHost \/ RenderExportOwner \/ CancelHidden \/ TeardownExports
               \/ ForgetExportOwner \/ DisposeHost
               \/ \E s \in Owners : DisposeSource(s)
        BY <2>1, AloneLeases
        DEF HideHost, RenderExportOwner, CancelHidden, TeardownExports, ForgetExportOwner,
            DisposeHost, DisposeSource, providerVars, pipelineVars, jobVars
    <2> QED
        BY <1>2, <2>1, RetireIdleLeases DEF Queued
<1>3. CASE Settling
    <2>1. CASE \E s \in Owners : SourceDisposed(s)
        BY <2>1, AloneLeases DEF SourceDisposed, providerVars, pipelineVars, jobVars
    <2> QED
        BY <1>3, <2>1, ExportStaysLeased, ReleaseLeases, EndCallLeases, ResolveLeases,
           DisposedLeases DEF Settling
<1>4. CASE PreviewSettling
    BY <1>4, AloneLeases DEF PreviewSettling, EndPreview, providerVars, pipelineVars, jobVars
<1>5. CASE UNCHANGED vars
    BY <1>5, AloneLeases DEF vars, providerVars, pipelineVars, jobVars
<1> QED
    BY <1>1, <1>2, <1>3, <1>4, <1>5 DEF Next

(***************************************************************************)
(* Runtimes follow their leases: as long as a registration's owner is not  *)
(* disposed of, what the page, an export or a call leases is the current   *)
(* runtime and is not being disposed of; a runtime that nothing leases has *)
(* its retirement queued; and the terminal promise resolves when neither a *)
(* runtime nor a call is left.                                             *)
(***************************************************************************)
THEOREM LeasesDecide == Spec => []RuntimesFollowLeases
<1>1. LeaseInv /\ [Next]_vars => LeaseInv'
    BY LeaseStep
<1>2. LeaseInv => RuntimesFollowLeases
    BY LeasesFollowed
<1> QED
    BY <1>1, <1>2, LeaseInit, PTL DEF Spec

(***************************************************************************)
(* The snapshot shown for a registration never goes back to an older       *)
(* runtime's, in whatever order disposals and retirements settle.          *)
(***************************************************************************)
THEOREM SnapshotGoesOn == Spec => SnapshotIsLatest
<1>1. LeaseInv /\ [Next]_vars => LeaseInv' /\ [Newer]_vars
    BY LeaseStep
<1>2. Spec => [][Newer]_vars
    BY <1>1, LeaseInit, PTL DEF Spec
<1>3. Newer <=> \A r \in Registrations : owner'[r].last >= owner[r].last
    BY DEF Newer
<1> QED
    BY <1>2, <1>3, PTL DEF SnapshotIsLatest

-----------------------------------------------------------------------------
(***************************************************************************)
(* What an export retains of its page: the source asset owner, the host of *)
(* its renderings, and the renderer.                                       *)
(***************************************************************************)

\* The exports that hold the source asset owner s, or its host.
Holders(s, what) == {j \in Exports : what \in job[j].holds /\ job[j].source = s}

Held(s, what) == IF Holders(s, what) # {} THEN 1 ELSE 0

PageHolds(s) == IF s = source /\ tree = "shown" THEN 1 ELSE 0

\* A tree that is hidden has used up one source asset owner at most.
KeepTypes ==
    /\ source \in 1 .. hides + 1
    /\ tree # "shown" => source <= hides
    /\ tree = "shown" => cancelDue = 0
    /\ lifecycle = [s \in Owners |-> lifecycle[s]]
    /\ leases = [s \in Owners |-> leases[s]]
    /\ disposalDue \subseteq 1 .. source
    /\ host = [s \in Owners |-> host[s]]
    /\ hostLeases = [s \in Owners |-> hostLeases[s]]

\* An export holds its source asset owner from its start until it has cleaned up.
HoldersWork ==
    \A j \in Exports :
        /\ job[j].holds # {} => job[j].state \in {"working", "cleaning"}
        /\ job[j].state \in {"working", "cleaning"} =>
               "source" \in job[j].holds /\ job[j].source \in 1 .. source

\* The leases are the page's and an export's; while there are any the owner
\* is neither disposed of nor about to be.
SourcesKept ==
    \A s \in Owners :
        /\ leases[s] = PageHolds(s) + Held(s, "source")
        /\ leases[s] # 0 => lifecycle[s] = "active" /\ s \notin disposalDue

HostsKept ==
    \A s \in Owners :
        /\ hostLeases[s] = Held(s, "host")
        /\ host[s] = "finalized" => hostLeases[s] = 0

KeepInv == KeepTypes /\ HoldersWork /\ SourcesKept /\ HostsKept

LEMMA KeepInit == Init => KeepInv
<1> SUFFICES ASSUME Init
             PROVE  KeepInv
    OBVIOUS
<1>1. KeepTypes
    BY LifetimeAssumption DEF Init, KeepTypes, Owners
<1>2. \A j \in Exports : job[j].holds = {} /\ job[j].state = "new"
    BY DEF Init, NewJob
<1>3. \A s, what : Holders(s, what) = {}
    BY <1>2 DEF Holders
<1>4. HoldersWork
    BY <1>2 DEF HoldersWork
<1>5. SourcesKept
    BY <1>3 DEF Init, SourcesKept, PageHolds, Held
<1>6. HostsKept
    BY <1>3 DEF Init, HostsKept, Held
<1> QED
    BY <1>1, <1>4, <1>5, <1>6 DEF KeepInv

LEMMA HeldIsNumber ==
    ASSUME NEW s, NEW what
    PROVE  Held(s, what) \in {0, 1} /\ PageHolds(s) \in {0, 1}
BY DEF Held, PageHolds

\* What the invariant is about.
LEMMA AloneKeeps ==
    ASSUME KeepInv, tree' = tree \/ (tree # "shown" /\ tree' # "shown"),
           cancelDue' = cancelDue \/ cancelDue' = 0 \/ tree' # "shown",
           UNCHANGED <<hides, sourceVars, host, hostLeases, job>>
    PROVE  KeepInv'
<1>1. \A s, what : Held(s, what)' = Held(s, what) /\ PageHolds(s)' = PageHolds(s)
    BY DEF Held, Holders, PageHolds, sourceVars
<1>2. KeepTypes' /\ HoldersWork'
    BY DEF KeepInv, KeepTypes, HoldersWork, sourceVars
<1>3. SourcesKept' /\ HostsKept'
    BY <1>1 DEF KeepInv, SourcesKept, HostsKept, sourceVars
<1> QED
    BY <1>2, <1>3 DEF KeepInv

LEMMA HideKeeps ==
    ASSUME KeepInv, hides \in 0 .. MaxHides, Hide
    PROVE  KeepInv'
<1>1. /\ tree = "shown" /\ tree' = "hidden" /\ hides \in Nat /\ hides' = hides + 1
      /\ leases' = [leases EXCEPT ![source] = @ - 1]
      /\ disposalDue' = IF leases[source] = 1 THEN disposalDue \cup {source} ELSE disposalDue
      /\ UNCHANGED <<source, lifecycle, host, hostLeases, job>>
    BY LifetimeAssumption DEF Hide, ReleaseSource, hostVars, jobVars
<1>2. \A s, what : Held(s, what)' = Held(s, what)
    BY <1>1 DEF Held, Holders
<1>3. KeepTypes'
    BY <1>1 DEF KeepInv, KeepTypes
<1>4. HoldersWork' /\ HostsKept'
    BY <1>1, <1>2 DEF KeepInv, HoldersWork, HostsKept
<1>5. SourcesKept'
    BY <1>1, <1>2, HeldIsNumber DEF KeepInv, KeepTypes, SourcesKept, PageHolds
<1> QED
    BY <1>3, <1>4, <1>5 DEF KeepInv

LEMMA ShowSameKeeps ==
    ASSUME KeepInv, NEW r, ShowSame(r)
    PROVE  KeepInv'
<1>1. /\ tree = "hidden" /\ tree' = "shown" /\ lifecycle[source] = "active" /\ cancelDue' = 0
      /\ leases' = [leases EXCEPT ![source] = @ + 1]
      /\ disposalDue' = disposalDue \ {source}
      /\ UNCHANGED <<hides, source, lifecycle, host, hostLeases, job>>
    BY DEF ShowSame, Reconnectable, CommitPipeline
<1>2. \A s, what : Held(s, what)' = Held(s, what)
    BY <1>1 DEF Held, Holders
<1>3. KeepTypes'
    BY <1>1 DEF KeepInv, KeepTypes
<1>4. HoldersWork' /\ HostsKept'
    BY <1>1, <1>2 DEF KeepInv, HoldersWork, HostsKept
<1>5. SourcesKept'
    BY <1>1, <1>2, HeldIsNumber DEF KeepInv, KeepTypes, SourcesKept, PageHolds
<1> QED
    BY <1>3, <1>4, <1>5 DEF KeepInv

\* A new source asset owner has had no holder.
LEMMA ShowNewKeeps ==
    ASSUME KeepInv, hides \in 0 .. MaxHides, NEW r, ShowNew(r)
    PROVE  KeepInv'
<1>1. /\ tree = "hidden" /\ tree' = "shown" /\ lifecycle[source] = "disposed" /\ cancelDue' = 0
      /\ source' = source + 1
      /\ lifecycle' = [lifecycle EXCEPT ![source + 1] = "active"]
      /\ leases' = [leases EXCEPT ![source + 1] = 1]
      /\ host' = [host EXCEPT ![source + 1] = "live"]
      /\ UNCHANGED <<hides, disposalDue, hostLeases, job>>
    BY DEF ShowNew, Reconnectable, CommitPipeline
<1>2. \A s, what : Held(s, what)' = Held(s, what)
    BY <1>1 DEF Held, Holders
<1>3. /\ source \in Nat /\ hides \in Nat /\ source <= hides
      /\ source + 1 \in Owners /\ source + 1 \notin disposalDue
    BY <1>1, LifetimeAssumption DEF KeepInv, KeepTypes, Owners
<1>4. Held(source + 1, "source") = 0
    <2>1. Holders(source + 1, "source") = {}
        BY <1>3 DEF KeepInv, HoldersWork, Holders
    <2> QED
        BY <2>1 DEF Held
<1>5. KeepTypes'
    <2>1. source' \in 1 .. hides' + 1 /\ disposalDue' \subseteq 1 .. source'
        BY <1>1, <1>3 DEF KeepInv, KeepTypes
    <2>2. /\ lifecycle' = [s \in Owners |-> lifecycle'[s]]
          /\ leases' = [s \in Owners |-> leases'[s]]
          /\ host' = [s \in Owners |-> host'[s]]
          /\ hostLeases' = [s \in Owners |-> hostLeases'[s]]
        BY <1>1 DEF KeepInv, KeepTypes
    <2> QED
        BY <1>1, <2>1, <2>2 DEF KeepTypes
<1>6. HoldersWork'
    BY <1>1, <1>3 DEF KeepInv, HoldersWork
<1>7. HostsKept'
    BY <1>1, <1>2, <1>3 DEF KeepInv, KeepTypes, HostsKept
<1>8. SourcesKept'
    <2> SUFFICES ASSUME NEW s \in Owners
                 PROVE  /\ leases'[s] = PageHolds(s)' + Held(s, "source")
                        /\ leases'[s] # 0 => lifecycle'[s] = "active" /\ s \notin disposalDue'
        BY <1>2 DEF SourcesKept
    <2>1. CASE s = source + 1
        BY <1>1, <1>3, <1>4, <2>1 DEF KeepInv, KeepTypes, PageHolds
    <2>2. CASE s # source + 1
        <3>1. leases'[s] = leases[s] /\ lifecycle'[s] = lifecycle[s]
            BY <1>1, <2>2 DEF KeepInv, KeepTypes
        <3>2. PageHolds(s)' = 0 /\ PageHolds(s) = 0
            BY <1>1, <2>2 DEF PageHolds
        <3> QED
            BY <1>1, <3>1, <3>2 DEF KeepInv, SourcesKept
    <2> QED
        BY <2>1, <2>2
<1> QED
    BY <1>5, <1>6, <1>7, <1>8 DEF KeepInv

\* Disposal of an owner that nobody holds.
LEMMA DisposeSourceKeeps ==
    ASSUME KeepInv, NEW s \in Owners, DisposeSource(s) \/ SourceDisposed(s)
    PROVE  KeepInv'
<1>1. /\ leases[s] = 0
      /\ \E end : lifecycle' = [lifecycle EXCEPT ![s] = end]
      /\ disposalDue' \in {disposalDue, disposalDue \ {s}}
      /\ UNCHANGED <<tree, hides, cancelDue, source, leases, host, hostLeases, job>>
    <2>1. CASE DisposeSource(s)
        BY <2>1 DEF DisposeSource, KeepInv, SourcesKept, providerVars, pipelineVars, hostVars, jobVars
    <2>2. CASE SourceDisposed(s)
        BY <2>2 DEF SourceDisposed, KeepInv, SourcesKept, providerVars, pipelineVars, hostVars, jobVars
    <2> QED
        BY <2>1, <2>2
<1>2. \A x, what : Held(x, what)' = Held(x, what) /\ PageHolds(x)' = PageHolds(x)
    BY <1>1 DEF Held, Holders, PageHolds
<1>3. PICK end : lifecycle' = [lifecycle EXCEPT ![s] = end]
    BY <1>1
<1>4. KeepTypes'
    BY <1>1, <1>3 DEF KeepInv, KeepTypes
<1>5. HoldersWork' /\ HostsKept'
    BY <1>1, <1>2 DEF KeepInv, HoldersWork, HostsKept
<1>6. SourcesKept'
    BY <1>1, <1>2, <1>3 DEF KeepInv, KeepTypes, SourcesKept
<1> QED
    BY <1>4, <1>5, <1>6 DEF KeepInv

\* The end of a host, and of a preview in it, leaves it unless nothing holds it.
LEMMA HostKeeps ==
    ASSUME KeepInv, DisposeHost \/ \E s \in Owners : EndPreview(s)
    PROVE  KeepInv'
<1>1. /\ host' = [s \in Owners |-> host'[s]]
      /\ \A s \in Owners : host'[s] = "finalized" => host[s] = "finalized" \/ hostLeases[s] = 0
      /\ UNCHANGED <<tree, hides, cancelDue, sourceVars, hostLeases, job>>
    <2>1. CASE DisposeHost
        <3>1. \A s \in Owners : host'[s] =
                  IF s = hostDue /\ host[s] = "live"
                  THEN Finalized(s, "disposed", hostLeases[s], previewing)
                  ELSE host[s]
            BY <2>1 DEF DisposeHost, KeepInv, KeepTypes
        <3> QED
            BY <2>1, <3>1 DEF DisposeHost, KeepInv, KeepTypes, Finalized, providerVars, pipelineVars, jobVars
    <2>2. CASE \E s \in Owners : EndPreview(s)
        <3>1. PICK p \in Owners : EndPreview(p)
            BY <2>2
        <3>2. \A s \in Owners : host'[s] =
                  IF s = p THEN Finalized(s, host[s], hostLeases[s], previewing') ELSE host[s]
            BY <3>1 DEF EndPreview, KeepInv, KeepTypes
        <3> QED
            BY <3>1, <3>2 DEF EndPreview, KeepInv, KeepTypes, Finalized, providerVars, pipelineVars, jobVars
    <2> QED
        BY <2>1, <2>2
<1>2. \A x, what : Held(x, what)' = Held(x, what) /\ PageHolds(x)' = PageHolds(x)
    BY <1>1 DEF Held, Holders, PageHolds, sourceVars
<1>3. KeepTypes' /\ HoldersWork'
    BY <1>1 DEF KeepInv, KeepTypes, HoldersWork, sourceVars
<1>4. SourcesKept' /\ HostsKept'
    BY <1>1, <1>2 DEF KeepInv, SourcesKept, HostsKept, sourceVars
<1> QED
    BY <1>3, <1>4 DEF KeepInv

\* What is left of an export does not matter to the others.
LEMMA OtherHolders ==
    ASSUME ExportInv, HoldersWork, NEW j \in Exports,
           \/ j \in Unsettled
           \/ Unsettled = {},
           NEW s, NEW what
    PROVE  Holders(s, what) \subseteq {j}
<1>1. \A k \in Holders(s, what) : k \in Unsettled
    BY DEF Holders, HoldersWork, Unsettled
<1> QED
    BY <1>1, SoleExport

\* An idle owner of the page is the store's: no export is on its way.
LEMMA IdleIsAlone ==
    ASSUME ExportInv, phase[entry] = "idle"
    PROVE  Unsettled = {}
<1> SUFFICES ASSUME NEW k \in Unsettled
             PROVE  FALSE
    OBVIOUS
<1>1. entry \in Owners /\ entry = mapped
    BY EntryIsOwner DEF ExportInv, StoreHasOwner
<1>2. job[k].entry \in Owners /\ active[job[k].entry] = k /\ k # NoExport
    BY LifetimeAssumption DEF ExportInv, ExportHasOwner, Unsettled
<1>3. phase[job[k].entry] \in Busy /\ job[k].entry = mapped
    BY <1>2 DEF ExportInv, StoreHasOwner, OwnerHasExport
<1> QED
    BY <1>1, <1>3 DEF Busy

LEMMA StartKeeps ==
    ASSUME KeepInv, ExportInv, NEW j \in Exports, Start(j)
    PROVE  KeepInv'
<1>1. /\ tree = "shown" /\ disposalDue = {} /\ phase[entry] = "idle" /\ source \in Owners
      /\ leases' = [leases EXCEPT ![source] = @ + 1]
      /\ UNCHANGED <<tree, hides, cancelDue, source, lifecycle, disposalDue, host>>
    BY LifetimeAssumption
    DEF Start, Quiet, Startable, KeepInv, KeepTypes, Owners, ExportInv, OwnerTypes, providerVars
<1> DEFINE hosted == host[source] = "live"
           holds == {"source", "pipeline"} \cup (IF hosted THEN {"host"} ELSE {})
           gen == owner'[reg].current
<1>2. PICK admitted \in BOOLEAN :
          /\ job' = [job EXCEPT ![j] =
                     [state |-> IF hosted /\ admitted THEN "working" ELSE "cleaning",
                      entry |-> entry, source |-> source, reg |-> reg,
                      gen |-> gen, holds |-> holds]]
          /\ hostLeases' = [hostLeases EXCEPT ![source] = IF hosted THEN @ + 1 ELSE @]
    BY DEF Start
<1> DEFINE state == IF hosted /\ admitted THEN "working" ELSE "cleaning"
<1>3. /\ state \in {"working", "cleaning"}
      /\ holds \in {{"source", "pipeline"}, {"source", "pipeline", "host"}}
      /\ job' = [job EXCEPT ![j] = [state |-> state, entry |-> entry, source |-> source,
                                    reg |-> reg, gen |-> gen, holds |-> holds]]
      /\ hostLeases' = [hostLeases EXCEPT ![source] = IF "host" \in holds THEN @ + 1 ELSE @]
      /\ "host" \in holds => host[source] = "live"
    BY <1>2
<1> HIDE DEF state, gen, holds
<1>4. /\ job'[j].state = state /\ job'[j].source = source /\ job'[j].holds = holds
      /\ \A k \in Exports : k # j => job'[k] = job[k]
    BY <1>3 DEF ExportInv, JobShape
<1>5. Unsettled = {} /\ \A s, what : Holders(s, what) = {} /\ Held(s, what) = 0
    <2>1. Unsettled = {}
        BY <1>1, IdleIsAlone
    <2>2. \A k \in Exports : job[k].holds = {}
        BY <2>1 DEF KeepInv, HoldersWork, Unsettled
    <2> QED
        BY <2>1, <2>2 DEF Holders, Held
<1>6. \A k \in Exports : k # j => job'[k].holds = {}
    BY <1>4, <1>5 DEF KeepInv, HoldersWork, Unsettled
<1>7. \A s \in Owners : /\ Held(s, "source")' = IF s = source THEN 1 ELSE 0
                        /\ Held(s, "host")' = IF s = source /\ "host" \in holds THEN 1 ELSE 0
                        /\ PageHolds(s)' = PageHolds(s)
    BY <1>1, <1>3, <1>4, <1>6 DEF Held, Holders, PageHolds
<1>8. KeepTypes'
    BY <1>1, <1>3 DEF KeepInv, KeepTypes
<1>9. HoldersWork'
    <2> SUFFICES ASSUME NEW k \in Exports
                 PROVE  /\ job'[k].holds # {} => job'[k].state \in {"working", "cleaning"}
                        /\ job'[k].state \in {"working", "cleaning"} =>
                               "source" \in job'[k].holds /\ job'[k].source \in 1 .. source'
        BY DEF HoldersWork
    <2>1. CASE k = j
        BY <1>1, <1>3, <1>4, <2>1 DEF KeepInv, KeepTypes, Owners
    <2>2. CASE k # j
        BY <1>1, <1>4, <2>2 DEF KeepInv, HoldersWork
    <2> QED
        BY <2>1, <2>2
<1>10. SourcesKept'
    <2> SUFFICES ASSUME NEW s \in Owners
                 PROVE  /\ leases'[s] = PageHolds(s)' + Held(s, "source")'
                        /\ leases'[s] # 0 => lifecycle'[s] = "active" /\ s \notin disposalDue'
        BY DEF SourcesKept
    <2>1. leases[s] = PageHolds(s)
        BY <1>5, HeldIsNumber DEF KeepInv, SourcesKept
    <2>2. CASE s = source
        <3>1. PageHolds(s) = 1 /\ leases[s] = 1 /\ lifecycle[s] = "active"
            BY <1>1, <2>1, <2>2 DEF PageHolds, KeepInv, SourcesKept
        <3> QED
            BY <1>1, <1>7, <2>2, <3>1 DEF KeepInv, KeepTypes
    <2>3. CASE s # source
        BY <1>1, <1>7, <2>1, <2>3, HeldIsNumber DEF KeepInv, KeepTypes, SourcesKept
    <2> QED
        BY <2>2, <2>3
<1>11. HostsKept'
    <2> SUFFICES ASSUME NEW s \in Owners
                 PROVE  /\ hostLeases'[s] = Held(s, "host")'
                        /\ host'[s] = "finalized" => hostLeases'[s] = 0
        BY DEF HostsKept
    <2>1. hostLeases[s] = 0
        BY <1>5 DEF KeepInv, HostsKept
    <2>2. hostLeases'[s] = IF s = source /\ "host" \in holds THEN 1 ELSE 0
        BY <1>3, <2>1 DEF KeepInv, KeepTypes
    <2> QED
        BY <1>1, <1>3, <1>7, <2>2
<1> QED
    BY <1>8, <1>9, <1>10, <1>11 DEF KeepInv

\* The end of the work and the last step of an export change nothing that is held.
LEMMA GoesOnKeeps ==
    ASSUME KeepInv, ExportInv, NEW j \in Exports, EndWork(j) \/ Settle(j)
    PROVE  KeepInv'
<1>1. /\ \/ /\ job[j].state = "working"
            /\ job' = [job EXCEPT ![j].state = "cleaning"]
         \/ /\ job[j].state = "released"
            /\ job' = [job EXCEPT ![j].state = "settled"]
      /\ UNCHANGED <<tree, hides, cancelDue, sourceVars, host, hostLeases>>
    BY DEF EndWork, Settle, providerVars, pipelineVars, hostVars
<1>2. /\ \A k \in Exports : /\ job'[k].holds = job[k].holds /\ job'[k].source = job[k].source
                            /\ job'[k].state \in {"working", "cleaning"}
                                  <=> job[k].state \in {"working", "cleaning"}
    BY <1>1 DEF ExportInv, JobShape
<1>3. \A s, what : Held(s, what)' = Held(s, what) /\ PageHolds(s)' = PageHolds(s)
    BY <1>1, <1>2 DEF Held, Holders, PageHolds, sourceVars
<1>4. KeepTypes'
    BY <1>1 DEF KeepInv, KeepTypes, sourceVars
<1>5. HoldersWork'
    BY <1>1, <1>2 DEF KeepInv, HoldersWork, sourceVars
<1>6. SourcesKept' /\ HostsKept'
    BY <1>1, <1>3 DEF KeepInv, SourcesKept, HostsKept, sourceVars
<1> QED
    BY <1>4, <1>5, <1>6 DEF KeepInv

LEMMA ReleaseKeeps ==
    ASSUME KeepInv, ExportInv, NEW j \in Exports, ReleaseAll(j)
    PROVE  KeepInv'
<1> DEFINE s0 == job[j].source
<1>1. /\ job[j].state = "cleaning" /\ j \in Unsettled
      /\ job' = [job EXCEPT ![j].state = "released", ![j].holds = {}]
      /\ hostLeases' = [hostLeases EXCEPT ![s0] = @ - HostLeases(j)]
      /\ host' = [host EXCEPT ![s0] = Finalized(s0, @, hostLeases'[s0], previewing)]
      /\ leases' = [leases EXCEPT ![s0] = @ - 1]
      /\ disposalDue' = IF leases[s0] = 1 THEN disposalDue \cup {s0} ELSE disposalDue
      /\ UNCHANGED <<tree, hides, cancelDue, source, lifecycle>>
    BY DEF ReleaseAll, ReleaseSource, Unsettled, providerVars
<1>2. "source" \in job[j].holds /\ s0 \in 1 .. source /\ s0 \in Owners
    BY <1>1, EntryIsOwner, LifetimeAssumption
    DEF KeepInv, HoldersWork, KeepTypes, Owners, ExportInv, OwnerTypes
<1>3. /\ job'[j].state = "released" /\ job'[j].holds = {}
      /\ \A k \in Exports : k # j => job'[k] = job[k]
    <2>1. job' = [job EXCEPT ![j] = [[@ EXCEPT !.state = "released"] EXCEPT !.holds = {}]]
        BY <1>1
    <2>2. job'[j] = [[job[j] EXCEPT !.state = "released"] EXCEPT !.holds = {}]
        BY <2>1 DEF ExportInv, JobShape
    <2> DEFINE held == job[j]
               q == [held EXCEPT !.state = "released"]
    <2>3. q = [state |-> "released", entry |-> held.entry, source |-> held.source,
               reg |-> held.reg, gen |-> held.gen, holds |-> held.holds]
        BY StateRevised DEF ExportInv, JobShape
    <2> HIDE DEF q
    <2>4. [q EXCEPT !.holds = {}] =
              [state |-> "released", entry |-> held.entry, source |-> held.source,
               reg |-> held.reg, gen |-> held.gen, holds |-> {}]
        BY <2>3, HoldsRevised
    <2>5. job'[j] = [q EXCEPT !.holds = {}]
        BY <2>2 DEF q
    <2> QED
        BY <2>1, <2>4, <2>5 DEF ExportInv, JobShape
<1>4. \A s, what : Holders(s, what) \subseteq {j}
    BY <1>1, OtherHolders DEF KeepInv
<1>5. \A s, what : Held(s, what)' = 0 /\ PageHolds(s)' = PageHolds(s)
    <2>1. \A s, what : Holders(s, what)' = {}
        BY <1>3, <1>4 DEF Holders
    <2> QED
        BY <1>1, <2>1 DEF Held, PageHolds
<1>6. \A s \in Owners : /\ Held(s, "source") = IF s = s0 THEN 1 ELSE 0
                        /\ Held(s, "host") = IF s = s0 THEN HostLeases(j) ELSE 0
    BY <1>2, <1>4 DEF Held, Holders, HostLeases
<1>7. KeepTypes'
    BY <1>1, <1>2 DEF KeepInv, KeepTypes
<1>8. HoldersWork'
    <2> SUFFICES ASSUME NEW k \in Exports
                 PROVE  /\ job'[k].holds # {} => job'[k].state \in {"working", "cleaning"}
                        /\ job'[k].state \in {"working", "cleaning"} =>
                               "source" \in job'[k].holds /\ job'[k].source \in 1 .. source'
        BY DEF HoldersWork
    <2> QED
        BY <1>1, <1>3 DEF KeepInv, HoldersWork
<1>9. SourcesKept'
    <2> SUFFICES ASSUME NEW s \in Owners
                 PROVE  /\ leases'[s] = PageHolds(s)' + Held(s, "source")'
                        /\ leases'[s] # 0 => lifecycle'[s] = "active" /\ s \notin disposalDue'
        BY DEF SourcesKept
    <2>1. leases[s] = PageHolds(s) + (IF s = s0 THEN 1 ELSE 0)
        BY <1>6 DEF KeepInv, SourcesKept
    <2>2. leases'[s] = PageHolds(s)
        BY <1>1, <1>2, <2>1, HeldIsNumber DEF KeepInv, KeepTypes
    <2>3. leases[s] # 0 => lifecycle[s] = "active" /\ s \notin disposalDue
        BY DEF KeepInv, SourcesKept
    <2> QED
        BY <1>1, <1>5, <2>1, <2>2, <2>3, HeldIsNumber
<1>10. HostsKept'
    <2> SUFFICES ASSUME NEW s \in Owners
                 PROVE  /\ hostLeases'[s] = Held(s, "host")'
                        /\ host'[s] = "finalized" => hostLeases'[s] = 0
        BY DEF HostsKept
    <2>1. hostLeases[s] = IF s = s0 THEN HostLeases(j) ELSE 0
        BY <1>6 DEF KeepInv, HostsKept
    <2>2. hostLeases'[s] = 0
        BY <1>1, <1>2, <2>1 DEF KeepInv, KeepTypes, HostLeases
    <2> QED
        BY <1>5, <2>2
<1> QED
    BY <1>7, <1>8, <1>9, <1>10 DEF KeepInv

LEMMA KeepStep ==
    ASSUME KeepInv, ExportInv, [Next]_vars
    PROVE  KeepInv'
<1>0. hides \in 0 .. MaxHides
    BY DEF ExportInv, OwnerTypes
<1>1. CASE User
    <2>1. CASE BeginPreview \/ \E c \in Calls, r \in Registrations : BeginCall(c, r)
        BY <2>1, AloneKeeps DEF BeginPreview, BeginCall, providerVars, pipelineVars, hostVars, jobVars
    <2>2. CASE \E r \in Registrations : Replace(r)
        BY <2>2, AloneKeeps DEF Replace, CommitPipeline, hostVars
    <2>3. CASE \E r \in Registrations : ShowFails(r)
        BY <2>3, AloneKeeps DEF ShowFails, Reconnectable, hostVars, jobVars
    <2> QED
        BY <1>0, <1>1, <2>1, <2>2, <2>3, HideKeeps, ShowSameKeeps, ShowNewKeeps, StartKeeps DEF User
<1>2. CASE Queued
    <2>1. CASE \/ HideHost \/ RenderExportOwner \/ CancelHidden \/ TeardownExports
               \/ ForgetExportOwner
               \/ \E r \in Registrations : RetireIdleRuntime(r)
        <3>1. UNCHANGED <<hides, sourceVars, host, hostLeases, job>>
            BY <2>1 DEF HideHost, RenderExportOwner, CancelHidden, TeardownExports, ForgetExportOwner,
                        RetireIdleRuntime, providerVars, hostVars, jobVars
        <3>2. tree' = tree /\ (cancelDue' = cancelDue \/ cancelDue' = 0)
            BY <2>1 DEF HideHost, RenderExportOwner, CancelHidden, TeardownExports, ForgetExportOwner,
                        RetireIdleRuntime, providerVars, pipelineVars
        <3> QED
            BY <3>1, <3>2, AloneKeeps
    <2> QED
        BY <1>2, <2>1, HostKeeps, DisposeSourceKeeps DEF Queued
<1>3. CASE Settling
    <2>1. CASE \/ \E c \in Calls : EndCall(c)
               \/ \E r \in Registrations : ResolveTerminal(r)
                                           \/ \E n \in Generations : RuntimeDisposed(r, n)
        BY <2>1, AloneKeeps DEF EndCall, ResolveTerminal, RuntimeDisposed, providerVars, hostVars,
                                jobVars
    <2> QED
        BY <1>3, <2>1, DisposeSourceKeeps, GoesOnKeeps, ReleaseKeeps DEF Settling
<1>4. CASE PreviewSettling
    BY <1>4, HostKeeps DEF PreviewSettling
<1>5. CASE UNCHANGED vars
    BY <1>5, AloneKeeps DEF vars, providerVars, pipelineVars, hostVars, jobVars
<1> QED
    BY <1>1, <1>2, <1>3, <1>4, <1>5 DEF Next

(***************************************************************************)
(* What an export retained stays for it until it has cleaned up, although  *)
(* its tree was hidden, shown again or given another registration: its     *)
(* source asset owner is not disposed of, nor its renderer, nor the        *)
(* presentations of its host.                                              *)
(***************************************************************************)
THEOREM ExportsKeepOwners == Spec => []ExportKeepsOwners
<1>1. ExportInv /\ KeepInv /\ LeaseInv /\ [Next]_vars => ExportInv' /\ KeepInv' /\ LeaseInv'
    BY ExportStep, KeepStep, LeaseStep
<1>2. ASSUME ExportInv, KeepInv, LeaseInv
      PROVE  ExportKeepsOwners
    <2> SUFFICES ASSUME NEW j \in Exports
                 PROVE  /\ Holding(j, "source") => lifecycle[job[j].source] = "active"
                        /\ Holding(j, "pipeline") => ~owner[job[j].reg].terminal
                        /\ Holding(j, "host") => host[job[j].source] # "finalized"
        BY DEF ExportKeepsOwners
    <2> DEFINE s == job[j].source
    <2>1. ASSUME job[j].holds # {}
          PROVE  s \in Owners
        BY <1>2, <2>1, EntryIsOwner, LifetimeAssumption
        DEF KeepInv, HoldersWork, KeepTypes, Owners, ExportInv, OwnerTypes
    <2>2. ASSUME Holding(j, "source")
          PROVE  lifecycle[s] = "active"
        <3>1. s \in Owners /\ Held(s, "source") = 1
            BY <2>1, <2>2 DEF Holding, Holders, Held
        <3> QED
            BY <1>2, <3>1, HeldIsNumber DEF KeepInv, SourcesKept
    <2>3. ASSUME Holding(j, "pipeline")
          PROVE  ~owner[job[j].reg].terminal
        <3>1. job[j].reg \in Registrations /\ j \in ExportsOf(job[j].reg)
            BY <1>2, <2>3 DEF LeaseInv, LeaseHolders, Holding, ExportsOf
        <3> QED
            BY <1>2, <3>1 DEF LeaseInv, Kept
    <2>4. ASSUME Holding(j, "host")
          PROVE  host[s] # "finalized"
        <3>1. s \in Owners /\ Held(s, "host") = 1
            BY <2>1, <2>4 DEF Holding, Holders, Held
        <3> QED
            BY <1>2, <3>1 DEF KeepInv, HostsKept
    <2> QED
        BY <2>2, <2>3, <2>4
<1> QED
    BY <1>1, <1>2, ExportInit, KeepInit, LeaseInit, PTL DEF Spec

\* Which exports a step cancels.
Cancels == \A j \in aborted' \ aborted : tree' # "shown" \/ reg' # job[j].reg

LEMMA CancelsOwn ==
    ASSUME ExportInv, KeepInv, NEW r, CancelExports(r), NEW j \in aborted' \ aborted
    PROVE  job[j].reg = r
<1>1. PICK e \in Owners : e \in Cancelled(r) /\ j = active[e]
    BY DEF CancelExports, Cancelled
<1>2. PICK k \in ExportsOf(r) : job[k].entry = e
    BY <1>1 DEF Cancelled
<1>3. k \in Exports /\ k \in Unsettled /\ job[k].reg = r
    BY <1>2 DEF ExportsOf, KeepInv, HoldersWork, Unsettled
<1>4. active[e] = k
    BY <1>2, <1>3 DEF ExportInv, ExportHasOwner
<1> QED
    BY <1>1, <1>3, <1>4

LEMMA CancelStep ==
    ASSUME ExportInv, KeepInv, [Next]_vars
    PROVE  Cancels
<1>1. CASE CancelHidden
    <2>1. cancelDue # 0 /\ tree' = tree
        BY <1>1 DEF CancelHidden, providerVars
    <2>2. tree # "shown"
        BY <2>1 DEF KeepInv, KeepTypes
    <2> QED
        BY <2>1, <2>2 DEF Cancels
<1>2. CASE TeardownExports
    <2>1. teardownDue # 0 /\ tree' = tree
        BY <1>2 DEF TeardownExports, providerVars
    <2>2. tree # "shown"
        BY <2>1 DEF ExportInv, HiddenBefore
    <2> QED
        BY <2>1, <2>2 DEF Cancels
<1>3. CASE \E r \in Registrations : Replace(r) \/ ShowSame(r) \/ ShowNew(r)
    <2>1. PICK r, os : CommitPipeline(r, os)
        BY <1>3 DEF Replace, ShowSame, ShowNew
    <2>2. reg' = r /\ (IF r = reg THEN aborted' = aborted ELSE CancelExports(reg))
        BY <2>1 DEF CommitPipeline
    <2>3. CASE r = reg
        BY <2>2, <2>3 DEF Cancels
    <2>4. CASE r # reg
        BY <2>2, <2>4, CancelsOwn DEF Cancels
    <2> QED
        BY <2>3, <2>4
<1>4. CASE aborted' = aborted
    BY <1>4 DEF Cancels
<1>5. CASE User
    <2>1. CASE \/ Hide \/ BeginPreview
               \/ \E r \in Registrations : ShowFails(r)
               \/ \E j \in Exports : Start(j)
               \/ \E c \in Calls, r \in Registrations : BeginCall(c, r)
        <3>1. aborted' = aborted
            BY <2>1 DEF Hide, BeginPreview, ShowFails, Start, BeginCall, jobVars
        <3> QED
            BY <3>1, <1>4
    <2> QED
        BY <1>3, <1>5, <2>1 DEF User
<1>6. CASE Queued
    <2>1. CASE \/ HideHost \/ RenderExportOwner \/ ForgetExportOwner \/ DisposeHost
               \/ \E r \in Registrations : RetireIdleRuntime(r)
               \/ \E s \in Owners : DisposeSource(s)
        <3>1. aborted' = aborted
            BY <2>1 DEF HideHost, RenderExportOwner, ForgetExportOwner, DisposeHost,
                        RetireIdleRuntime, DisposeSource, jobVars
        <3> QED
            BY <3>1, <1>4
    <2> QED
        BY <1>1, <1>2, <1>6, <2>1 DEF Queued
<1>7. CASE Settling \/ PreviewSettling
    <2>1. aborted' = aborted
        BY <1>7 DEF Settling, PreviewSettling, SourceDisposed, EndWork, ReleaseAll, Settle, EndCall,
                    ResolveTerminal, RuntimeDisposed, EndPreview, jobVars
    <2> QED
        BY <1>4, <2>1
<1>8. CASE UNCHANGED vars
    BY <1>4, <1>8 DEF vars, jobVars
<1> QED
    BY <1>5, <1>6, <1>7, <1>8 DEF Next

(***************************************************************************)
(* An export is only cancelled by hiding its tree or replacing its         *)
(* registration: a microtask that was queued when the tree was hidden does *)
(* nothing to an export once the tree is shown again.                      *)
(***************************************************************************)
THEOREM CancelsAreDeserved == Spec => NoSpuriousCancel
<1>1. ExportInv /\ KeepInv /\ [Next]_vars => ExportInv' /\ KeepInv' /\ [Cancels]_vars
    BY ExportStep, KeepStep, CancelStep
<1>2. Spec => [][Cancels]_vars
    BY <1>1, ExportInit, KeepInit, PTL DEF Spec
<1>3. Cancels <=> \A j \in aborted' \ aborted : tree' # "shown" \/ reg' # job[j].reg
    BY DEF Cancels
<1> QED
    BY <1>2, <1>3, PTL DEF NoSpuriousCancel
=============================================================================
