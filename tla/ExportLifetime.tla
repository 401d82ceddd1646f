--------------------------- MODULE ExportLifetime ---------------------------
(***************************************************************************)
(* An export and the owners of what it uses, while the page's tree is      *)
(* hidden, shown again or given another renderer registration              *)
(* (src/src/toolcraft/runtime: export/artifact-export-owner.ts,            *)
(* react/controls-panel/actions/export-action-session.ts and, under        *)
(* react/, app-shell/toolcraft-export-context.tsx,                         *)
(* toolcraft-pipeline-context.tsx, toolcraft-pipeline-export-lifetime.ts,  *)
(* toolcraft-source-asset-owner.ts, model-rendering/model-render-host.ts). *)
(*                                                                         *)
(* Effects take leases and give them back when the tree is hidden.  What   *)
(* is then no longer leased is disposed of in a microtask, unless the      *)
(* effects were connected again before (StrictMode does so in one turn,    *)
(* Activity after any time).  An export holds leases of its own.           *)
(*                                                                         *)
(* Every microtask compares a generation with a counter; the ones that     *)
(* were made stale do nothing, so a variable named ...Due says which valid *)
(* one is queued.  User events wait until the queue is empty.              *)
(***************************************************************************)
EXTENDS Naturals, FiniteSets, RendererPipelineOwner

CONSTANTS
    MaxRegistrations,  \* bound: registrations the page is given, one after the other
    MaxHides,          \* bound: times the tree is hidden
    Exports,           \* exports that are requested
    Calls,             \* calls of the pipeline client by the page or an export
    Faults             \* what may fail: "admission", "dispose"

CONSTANT NoExport

ASSUME LifetimeAssumption ==
    /\ MaxRegistrations \in Nat \ {0}
    /\ MaxHides \in Nat
    /\ IsFiniteSet(Exports) /\ NoExport \notin Exports
    /\ IsFiniteSet(Calls)
    /\ Faults \subseteq {"admission", "dispose"}

Registrations == 1 .. MaxRegistrations

\* Export owners, and source asset owners with their render hosts, in the
\* order they are made: one more than the times the tree is hidden.
Owners == 1 .. MaxHides + 1

VARIABLES
    tree,         \* "shown", "hidden", or "crashed" by an effect that threw
    hides,        \* times it was hidden
    reg,          \* committed registration
    pipelineGen,  \* runtime whose lease the pipeline provider holds, or 0
    owner,        \* pipeline runtime owner of every registration
    retired,      \* registrations whose export lifetime is retired
    cancelDue,    \* queued: cancel the exports of the hidden registration
    entry,        \* export owner of the last render
    mapped,       \* export owner of the store, 0 when there is none
    phase,        \* status of every export owner
    active,       \* its activeJob
    teardownDue,  \* queued: dispose of the export owner
    source,       \* source asset owner of the last acquisition
    lifecycle,    \* of every source asset owner
    leases,       \* its leases
    disposalDue,  \* source asset owners with a valid disposal queued
    host,         \* render host of every source asset owner
    hostLeases,
    previewing,   \* hosts with a preview in progress
    connected,    \* the host provider's effect is connected
    hostDue,      \* queued: dispose of the host
    job,          \* every export
    aborted,      \* exports whose signal is aborted
    call          \* every call of a pipeline client

providerVars == <<tree, hides, reg, pipelineGen, connected>>
pipelineVars == <<owner, retired, cancelDue>>
exportVars == <<entry, mapped, phase, active, teardownDue>>
sourceVars == <<source, lifecycle, leases, disposalDue>>
hostVars == <<host, hostLeases, previewing, hostDue>>
jobVars == <<job, aborted>>

vars == <<providerVars, pipelineVars, exportVars, sourceVars, hostVars, jobVars, call>>

NewJob == [state |-> "new", entry |-> 0, source |-> 0, reg |-> 0, gen |-> 0, holds |-> {}]

NewCall == [state |-> "new", reg |-> 0, gen |-> 0]

\* The first commit: every provider has its lease.
Init ==
    /\ tree = "shown" /\ hides = 0 /\ reg = 1 /\ pipelineGen = 1 /\ connected = TRUE
    /\ owner = [r \in Registrations |-> IF r = 1 THEN Acquire(NewOwner) ELSE NewOwner]
    /\ retired = {} /\ cancelDue = 0
    /\ entry = 1 /\ mapped = 1 /\ teardownDue = 0
    /\ phase = [e \in Owners |-> IF e = 1 THEN "idle" ELSE "none"]
    /\ active = [e \in Owners |-> NoExport]
    /\ source = 1 /\ disposalDue = {}
    /\ lifecycle = [s \in Owners |-> IF s = 1 THEN "active" ELSE "none"]
    /\ leases = [s \in Owners |-> IF s = 1 THEN 1 ELSE 0]
    /\ host = [s \in Owners |-> IF s = 1 THEN "live" ELSE "none"]
    /\ hostLeases = [s \in Owners |-> 0]
    /\ previewing = {} /\ hostDue = 0
    /\ job = [j \in Exports |-> NewJob]
    /\ aborted = {}
    /\ call = [c \in Calls |-> NewCall]

(***************************************************************************)
(* Microtasks.                                                             *)
(***************************************************************************)
\* useSyncExternalStore makes the export provider render again.
RenderDue == tree = "shown" /\ phase[entry] = "disposed"

Quiet ==
    /\ cancelDue = 0 /\ teardownDue = 0 /\ hostDue = 0 /\ disposalDue = {}
    /\ \A r \in Registrations : owner[r].due = 0
    /\ ~RenderDue

\* Nothing that was queued when the tree was hidden has run yet.
SameTurn ==
    /\ cancelDue = reg /\ teardownDue = entry
    /\ leases[source] = 0 => source \in disposalDue
    /\ owner[reg].leases = 0 => owner[reg].due # 0

ExportsOf(r) == {j \in Exports : job[j].reg = r /\ "pipeline" \in job[j].holds}

\* cancelExports: every export of the registration calls cancel of its owner.
Cancelled(r) == {e \in Owners : phase[e] = "running" /\ \E j \in ExportsOf(r) : job[j].entry = e}

\* The page's exports of the registration are cancelled in its stead.
CancelExports(r) ==
    /\ phase' = [e \in Owners |-> IF e \in Cancelled(r) THEN "cancelling" ELSE phase[e]]
    /\ aborted' = aborted \cup {active[e] : e \in Cancelled(r)}

\* Mutant: the owner is free at once, although its export still cleans up.
DisposeExportsAtOnce(e) ==
    /\ phase' = [phase EXCEPT ![e] = "disposed"]
    /\ aborted' = aborted \cup ({active[e]} \ {NoExport})

\* dispose of the artifact export owner.
DisposeExports(e) ==
    /\ phase' = [phase EXCEPT ![e] =
                    IF @ \in {"disposing", "disposed"} THEN @
                    ELSE IF active[e] = NoExport THEN "disposed" ELSE "disposing"]
    /\ aborted' = aborted \cup ({active[e]} \ {NoExport})

\* finalizeDisposal of a disposed host, with l leases and the previews ps.
Finalized(s, state, l, ps) ==
    IF state = "disposed" /\ l = 0 /\ s \notin ps THEN "finalized" ELSE state

\* The release returned by retainOwner.
ReleaseSource(s) ==
    /\ leases' = [leases EXCEPT ![s] = @ - 1]
    /\ disposalDue' = IF leases[s] = 1 THEN disposalDue \cup {s} ELSE disposalDue

(***************************************************************************)
(* The tree is hidden, shown again, and given another registration.        *)
(***************************************************************************)
Hide ==
    /\ tree = "shown" /\ Quiet /\ hides < MaxHides
    /\ tree' = "hidden"
    /\ hides' = hides + 1
    /\ owner' = [owner EXCEPT ![reg] = Release(@, pipelineGen)]
    /\ pipelineGen' = 0
    /\ cancelDue' = reg
    /\ teardownDue' = entry
    /\ ReleaseSource(source)
    /\ UNCHANGED <<reg, connected, retired, entry, mapped, phase, active, source, lifecycle,
                   hostVars, jobVars, call>>

\* Passive effects are disconnected after the layout effects.
HideHost ==
    /\ tree # "shown" /\ connected
    /\ connected' = FALSE
    /\ hostDue' = source
    /\ UNCHANGED <<tree, hides, reg, pipelineGen, pipelineVars, exportVars, sourceVars, host,
                   hostLeases, previewing, jobVars, call>>

\* Mutant: the owner ends under the exports that are being cancelled.
EndOwnerAtOnce(r, o) == Terminate(o)

\* Mutant: only an export that ends later ends the owner.
EndOwnerLater(r, o) == o

\* retire of a lifetime, which ends its owner when no export is left.
EndOwner(r, o) == IF ExportsOf(r) = {} THEN Terminate(o) ELSE o

\* Mutant: the microtask of the hidden effect is still good when it is connected again.
CommitKeepingCancel(r, os) ==
    /\ Acquirable(os[r])
    /\ owner' = [x \in Registrations |->
                    IF x = r THEN Acquire(os[x])
                    ELSE IF x = reg THEN EndOwner(x, os[x]) ELSE os[x]]
    /\ pipelineGen' = owner'[r].current
    /\ reg' = r
    /\ cancelDue' = cancelDue
    /\ IF r = reg
       THEN UNCHANGED <<retired, phase, aborted>>
       ELSE retired' = retired \cup {reg} /\ CancelExports(reg)

\* The pipeline provider's layout effect commits registration r; os are the
\* owners after its cleanup, if it had one to do.
CommitPipeline(r, os) ==
    /\ Acquirable(os[r])
    /\ owner' = [x \in Registrations |->
                    IF x = r THEN Acquire(os[x])
                    ELSE IF x = reg THEN EndOwner(x, os[x]) ELSE os[x]]
    /\ pipelineGen' = owner'[r].current
    /\ reg' = r
    /\ cancelDue' = 0
    /\ IF r = reg
       THEN UNCHANGED <<retired, phase, aborted>>
       ELSE retired' = retired \cup {reg} /\ CancelExports(reg)

Replace(r) ==
    /\ tree = "shown" /\ Quiet /\ r = reg + 1
    /\ CommitPipeline(r, [owner EXCEPT ![reg] = Release(@, pipelineGen)])
    /\ UNCHANGED <<tree, hides, connected, entry, mapped, active, teardownDue, sourceVars,
                   hostVars, job, call>>

\* The effects are connected in the turn they were disconnected in, or later.
Reconnectable(r) ==
    /\ tree = "hidden"
    /\ \/ SameTurn /\ r = reg
       \/ Quiet /\ ~connected /\ r \in {reg, reg + 1}

\* The source asset owner is still there.
ShowSame(r) ==
    /\ Reconnectable(r)
    /\ lifecycle[source] = "active"
    /\ tree' = "shown"
    /\ CommitPipeline(r, owner)
    /\ teardownDue' = 0
    /\ leases' = [leases EXCEPT ![source] = @ + 1]
    /\ disposalDue' = disposalDue \ {source}
    /\ connected' = TRUE
    /\ hostDue' = 0
    /\ UNCHANGED <<hides, entry, mapped, active, source, lifecycle, host, hostLeases,
                   previewing, job, call>>

\* It was disposed of: a coordinator is created, and a host for it.
ShowNew(r) ==
    /\ Reconnectable(r)
    /\ lifecycle[source] = "disposed"
    /\ tree' = "shown"
    /\ CommitPipeline(r, owner)
    /\ teardownDue' = 0
    /\ source' = source + 1
    /\ lifecycle' = [lifecycle EXCEPT ![source + 1] = "active"]
    /\ leases' = [leases EXCEPT ![source + 1] = 1]
    /\ host' = [host EXCEPT ![source + 1] = "live"]
    /\ connected' = TRUE
    /\ UNCHANGED <<hides, entry, mapped, active, disposalDue, hostLeases, previewing, hostDue,
                   job, call>>

\* It is being disposed of, or could not be: the effect throws, and React
\* takes down the tree, whose other effects have been connected.
ShowFails(r) ==
    /\ Reconnectable(r) /\ r = reg
    /\ lifecycle[source] \in {"disposing", "failed"}
    /\ Acquirable(owner[r])
    /\ tree' = "crashed"
    /\ owner' = [owner EXCEPT ![r] = Release(Acquire(@), Acquire(@).current)]
    /\ cancelDue' = r
    /\ teardownDue' = entry
    /\ UNCHANGED <<hides, reg, pipelineGen, connected, retired, entry, mapped, phase, active,
                   sourceVars, hostVars, jobVars, call>>

\* getOwner, when the export provider renders after its owner was disposed of.
RenderExportOwner ==
    /\ RenderDue
    /\ IF mapped = 0 \/ phase[mapped] = "disposed"
       THEN /\ entry' = entry + 1
            /\ phase' = [phase EXCEPT ![entry + 1] = "idle"]
       ELSE /\ entry' = mapped
            /\ phase' = phase
    /\ mapped' = entry'
    /\ UNCHANGED <<providerVars, pipelineVars, active, teardownDue, sourceVars, hostVars, jobVars,
                   call>>

(***************************************************************************)
(* What was queued.                                                        *)
(***************************************************************************)
CancelHidden ==
    /\ cancelDue # 0
    /\ CancelExports(cancelDue)
    /\ cancelDue' = 0
    /\ UNCHANGED <<providerVars, owner, retired, entry, mapped, active, teardownDue, sourceVars,
                   hostVars, job, call>>

TeardownExports ==
    /\ teardownDue # 0
    /\ DisposeExports(teardownDue)
    /\ teardownDue' = 0
    /\ UNCHANGED <<providerVars, pipelineVars, entry, mapped, active, sourceVars, hostVars, job,
                   call>>

\* dispose().finally(): the store forgets the owner.
ForgetExportOwner ==
    /\ mapped # 0 /\ phase[mapped] = "disposed" /\ teardownDue # mapped
    /\ mapped' = 0
    /\ UNCHANGED <<providerVars, pipelineVars, entry, phase, active, teardownDue, sourceVars,
                   hostVars, jobVars, call>>

RetireIdleRuntime(r) ==
    /\ owner[r].due # 0
    /\ owner' = [owner EXCEPT ![r] = RetireIdle(@)]
    /\ UNCHANGED <<providerVars, retired, cancelDue, exportVars, sourceVars, hostVars, jobVars,
                   call>>

DisposeSource(s) ==
    /\ s \in disposalDue
    /\ disposalDue' = disposalDue \ {s}
    /\ lifecycle' = [lifecycle EXCEPT ![s] = "disposing"]
    /\ UNCHANGED <<providerVars, pipelineVars, exportVars, source, leases, hostVars, jobVars,
                   call>>

\* disposeOwner has awaited the coordinator.
SourceDisposed(s) ==
    /\ lifecycle[s] = "disposing"
    /\ \E end \in {"disposed"} \cup (IF "dispose" \in Faults THEN {"failed"} ELSE {}) :
          lifecycle' = [lifecycle EXCEPT ![s] = end]
    /\ UNCHANGED <<providerVars, pipelineVars, exportVars, source, leases, disposalDue, hostVars,
                   jobVars, call>>

DisposeHost ==
    /\ hostDue # 0
    /\ host' = [host EXCEPT ![hostDue] =
                  IF @ = "live"
                  THEN Finalized(hostDue, "disposed", hostLeases[hostDue], previewing)
                  ELSE @]
    /\ hostDue' = 0
    /\ UNCHANGED <<providerVars, pipelineVars, exportVars, sourceVars, hostLeases, previewing,
                   jobVars, call>>

BeginPreview ==
    /\ tree = "shown" /\ Quiet
    /\ host[source] = "live" /\ source \notin previewing
    /\ previewing' = previewing \cup {source}
    /\ UNCHANGED <<providerVars, pipelineVars, exportVars, sourceVars, host, hostLeases, hostDue,
                   jobVars, call>>

EndPreview(s) ==
    /\ s \in previewing
    /\ previewing' = previewing \ {s}
    /\ host' = [host EXCEPT ![s] = Finalized(s, @, hostLeases[s], previewing')]
    /\ UNCHANGED <<providerVars, pipelineVars, exportVars, sourceVars, hostLeases, hostDue,
                   jobVars, call>>

(***************************************************************************)
(* An export: start of the export owner and the session it runs.           *)
(***************************************************************************)
\* A request that finds another export is answered "busy", and one that finds
\* the owner disposing throws: neither changes anything.
Startable(e) == phase[e] = "idle"

\* Exports are alike: they are requested in one order.
NextExport(j) ==
    /\ job[j].state = "new"
    /\ j = CHOOSE x \in Exports : job[x].state = "new"

\* The session retains the source owner, the pipeline and the host at once; a
\* disposed host throws, and so may the admission of the saved resources.
Start(j) ==
    /\ tree = "shown" /\ Quiet
    /\ NextExport(j)
    /\ Startable(entry)
    /\ phase' = [phase EXCEPT ![entry] = "running"]
    /\ active' = [active EXCEPT ![entry] = j]
    /\ leases' = [leases EXCEPT ![source] = @ + 1]
    /\ owner' = [owner EXCEPT ![reg] = Acquire(@)]
    /\ \E admitted \in {TRUE} \cup (IF "admission" \in Faults THEN {FALSE} ELSE {}) :
          LET hosted == host[source] = "live"
          IN /\ job' = [job EXCEPT ![j] =
                           [state  |-> IF hosted /\ admitted THEN "working" ELSE "cleaning",
                            entry  |-> entry,
                            source |-> source,
                            reg    |-> reg,
                            gen    |-> owner'[reg].current,
                            holds  |-> {"source", "pipeline"}
                                         \cup (IF hosted THEN {"host"} ELSE {})]]
             /\ hostLeases' = [hostLeases EXCEPT ![source] = IF hosted THEN @ + 1 ELSE @]
    /\ UNCHANGED <<providerVars, retired, cancelDue, entry, mapped, teardownDue, source, lifecycle,
                   disposalDue, host, previewing, hostDue, aborted, call>>

\* The action returns, throws, or notices the abort.
EndWork(j) ==
    /\ job[j].state = "working"
    /\ job' = [job EXCEPT ![j].state = "cleaning"]
    /\ UNCHANGED <<providerVars, pipelineVars, exportVars, sourceVars, hostVars, aborted, call>>

\* The leases of the host that the export has to give back.
HostLeases(j) == IF "host" \in job[j].holds THEN 1 ELSE 0

\* The decoded sources are disposed of; then everything is released in reverse.
ReleaseAll(j) ==
    /\ job[j].state = "cleaning"
    /\ job' = [job EXCEPT ![j].state = "released", ![j].holds = {}]
    /\ LET s == job[j].source
           r == job[j].reg
           left == Release(owner[r], job[j].gen)
       IN /\ hostLeases' = [hostLeases EXCEPT ![s] = @ - HostLeases(j)]
          /\ host' = [host EXCEPT ![s] = Finalized(s, @, hostLeases'[s], previewing)]
          /\ owner' = [owner EXCEPT ![r] =
                          IF r \in retired /\ ExportsOf(r) = {j} THEN Terminate(left) ELSE left]
          /\ ReleaseSource(s)
    /\ UNCHANGED <<providerVars, retired, cancelDue, exportVars, source, lifecycle, previewing,
                   hostDue, aborted, call>>

\* The finally of start.
Settle(j) ==
    /\ job[j].state = "released"
    /\ job' = [job EXCEPT ![j].state = "settled"]
    /\ LET e == job[j].entry
       IN /\ active' = [active EXCEPT ![e] = NoExport]
          /\ phase' = [phase EXCEPT ![e] = IF @ = "disposing" THEN "disposed" ELSE "idle"]
    /\ UNCHANGED <<providerVars, pipelineVars, entry, mapped, teardownDue, sourceVars, hostVars,
                   aborted, call>>

(***************************************************************************)
(* Calls of a pipeline client, by the page or an export, which may go on   *)
(* when the tree was hidden and its registration replaced.                 *)
(***************************************************************************)
BeginCall(c, r) ==
    /\ call[c].state = "new"
    /\ r <= reg
    /\ Acquirable(owner[r])
    /\ owner' = [owner EXCEPT ![r] = Acquire(@)]
    /\ call' = [call EXCEPT ![c] = [state |-> "open", reg |-> r, gen |-> owner'[r].current]]
    /\ UNCHANGED <<providerVars, retired, cancelDue, exportVars, sourceVars, hostVars, jobVars>>

EndCall(c) ==
    /\ call[c].state = "open"
    /\ owner' = [owner EXCEPT ![call[c].reg] = Release(@, call[c].gen)]
    /\ call' = [call EXCEPT ![c].state = "ended"]
    /\ UNCHANGED <<providerVars, retired, cancelDue, exportVars, sourceVars, hostVars, jobVars>>

\* A runtime's disposal waits for the calls that run in it.
RuntimeDisposed(r, n) ==
    /\ owner[r].disposal[n] = "pending"
    /\ \A c \in Calls : ~(call[c].state = "open" /\ call[c].reg = r /\ call[c].gen = n)
    /\ owner' = [owner EXCEPT ![r] = Disposed(@, n)]
    /\ UNCHANGED <<providerVars, retired, cancelDue, exportVars, sourceVars, hostVars, jobVars,
                   call>>

ResolveTerminal(r) ==
    /\ Resolvable(owner[r])
    /\ owner' = [owner EXCEPT ![r].resolved = TRUE]
    /\ UNCHANGED <<providerVars, retired, cancelDue, exportVars, sourceVars, hostVars, jobVars,
                   call>>

User ==
    \/ Hide
    \/ \E r \in Registrations : Replace(r) \/ ShowSame(r) \/ ShowNew(r) \/ ShowFails(r)
    \/ BeginPreview
    \/ \E j \in Exports : Start(j)
    \/ \E c \in Calls, r \in Registrations : BeginCall(c, r)

Queued ==
    \/ HideHost \/ RenderExportOwner \/ CancelHidden \/ TeardownExports \/ ForgetExportOwner
    \/ DisposeHost
    \/ \E r \in Registrations : RetireIdleRuntime(r)
    \/ \E s \in Owners : DisposeSource(s)

Settling ==
    \/ \E s \in Owners : SourceDisposed(s)
    \/ \E j \in Exports : EndWork(j) \/ ReleaseAll(j) \/ Settle(j)
    \/ \E c \in Calls : EndCall(c)
    \/ \E r \in Registrations : ResolveTerminal(r) \/ \E n \in Generations : RuntimeDisposed(r, n)

PreviewSettling == \E s \in Owners : EndPreview(s)

Next == User \/ Queued \/ Settling \/ PreviewSettling

Spec == Init /\ [][Next]_vars

\* Microtasks run; disposals, previews, calls and exports settle.
FairSpec == Spec /\ WF_vars(Queued) /\ WF_vars(Settling) /\ WF_vars(PreviewSettling)

(***************************************************************************)
(* Properties.                                                             *)
(***************************************************************************)
JobRecords ==
    [state : {"new", "working", "cleaning", "released", "settled"}, entry : Owners \cup {0},
     source : Owners \cup {0}, reg : Registrations \cup {0}, gen : 0 .. MaxGenerations,
     holds : SUBSET {"source", "pipeline", "host"}]

CallRecords ==
    [state : {"new", "open", "ended"}, reg : Registrations \cup {0}, gen : 0 .. MaxGenerations]

\* Every variable has its type; lease counts are never negative.
TypeOK ==
    /\ tree \in {"shown", "hidden", "crashed"} /\ hides \in 0 .. MaxHides
    /\ reg \in Registrations /\ pipelineGen \in 0 .. MaxGenerations /\ connected \in BOOLEAN
    /\ owner \in [Registrations -> OwnerRecords]
    /\ retired \subseteq Registrations /\ cancelDue \in Registrations \cup {0}
    /\ entry \in Owners /\ mapped \in Owners \cup {0} /\ teardownDue \in Owners \cup {0}
    /\ phase \in [Owners -> {"none", "idle", "running", "cancelling", "disposing", "disposed"}]
    /\ active \in [Owners -> Exports \cup {NoExport}]
    /\ source \in Owners /\ disposalDue \subseteq Owners
    /\ lifecycle \in [Owners -> {"none", "active", "disposing", "failed", "disposed"}]
    /\ leases \in [Owners -> Nat]
    /\ host \in [Owners -> {"none", "live", "disposed", "finalized"}]
    /\ hostLeases \in [Owners -> Nat]
    /\ previewing \subseteq Owners /\ hostDue \in Owners \cup {0}
    /\ job \in [Exports -> JobRecords] /\ aborted \subseteq Exports
    /\ call \in [Calls -> CallRecords]

Holding(j, what) == job[j].state \in {"working", "cleaning"} /\ what \in job[j].holds

\* What an export retained stays for it until it has cleaned up, although the
\* tree that owned it is hidden or has another registration: the coordinator is
\* not disposed of, nor the renderer, nor the host's presentations.
ExportKeepsOwners ==
    \A j \in Exports :
        /\ Holding(j, "source") => lifecycle[job[j].source] = "active"
        /\ Holding(j, "pipeline") => ~owner[job[j].reg].terminal
        /\ Holding(j, "host") => host[job[j].source] # "finalized"

\* The generations of a registration's runtimes that a lease is held of.
LeasedGenerations(r) ==
    {job[j].gen : j \in ExportsOf(r)}
      \cup {call[c].gen : c \in {x \in Calls : call[x].state = "open" /\ call[x].reg = r}}
      \cup (IF r = reg THEN {pipelineGen} \ {0} ELSE {})

\* As long as its owner is not disposed of, a runtime that is leased, or was
\* when a call began, is the current one and is not being disposed of.
LeaseKeepsRuntime ==
    \A r \in Registrations : ~owner[r].terminal =>
        \A n \in LeasedGenerations(r) :
            owner[r].current = n /\ owner[r].disposal[n] = "no"

\* A runtime that nothing leases has its retirement queued: none is left over.
NoIdleRuntime ==
    \A r \in Registrations :
        ~owner[r].terminal /\ owner[r].leases = 0 /\ owner[r].current # 0 =>
            owner[r].due = owner[r].current

\* The terminal promise resolves when no runtime is left, and no call uses one.
TerminalIsLast ==
    \A r \in Registrations : owner[r].resolved =>
        /\ owner[r].current = 0 /\ Pending(owner[r]) = {}
        /\ \A c \in Calls : ~(call[c].state = "open" /\ call[c].reg = r)

\* Runtimes follow their leases: held ones stay, others go, and the end waits.
RuntimesFollowLeases == LeaseKeepsRuntime /\ NoIdleRuntime /\ TerminalIsLast

Unsettled == {j \in Exports : job[j].state \in {"working", "cleaning", "released"}}

\* A store has one export at a time, until it has cleaned up, although its
\* owner was disposed of meanwhile and the page has another one.
OneExportAtATime == Cardinality(Unsettled) <= 1

\* An export is only cancelled by hiding its tree or replacing its registration.
NoSpuriousCancel ==
    [][\A j \in aborted' \ aborted : tree' # "shown" \/ reg' # job[j].reg]_vars

\* The snapshot shown for a registration never goes back to an older runtime's,
\* in whatever order their disposals settle.
SnapshotIsLatest ==
    [][\A r \in Registrations : owner'[r].last >= owner[r].last]_vars

AllReleased ==
    /\ \A s \in Owners : lifecycle[s] \notin {"active", "disposing"} /\ host[s] \notin {"live", "disposed"}
    /\ \A r \in Registrations : owner[r].current = 0 /\ Pending(owner[r]) = {}
    /\ \A e \in Owners : phase[e] \in {"none", "disposed"}

\* When the tree stays hidden, everything it owned is disposed of in the end.
HiddenIsReleased == <>[](tree # "shown") => <>[]AllReleased

\* A registration that was replaced is disposed of for good.
ReplacedIsDisposed ==
    \A r \in Registrations : (r < reg) ~> owner[r].resolved

\* A tree that stays shown gets an export owner that can start exports.
FreshExportOwner ==
    <>[](tree = "shown") => <>[](phase[entry] \in {"idle", "running", "cancelling"})

\* Every owner comes to its end, or to its use.
OwnersSettle == HiddenIsReleased /\ ReplacedIsDisposed /\ FreshExportOwner
=============================================================================
