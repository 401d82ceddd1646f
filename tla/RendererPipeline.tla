-------------------------- MODULE RendererPipeline --------------------------
(***************************************************************************)
(* The renderer pipeline runtime: the passes of a renderer, their cached   *)
(* results and the resources they retain                                   *)
(* (src/src/toolcraft/runtime/rendering/renderer-pipeline-*.ts).           *)
(*                                                                         *)
(* A pass has a current generation, which holds a cache of results and a   *)
(* set of resources.  Work that runs in a generation leases it.  An        *)
(* invalidation replaces the generation at once and retires the old one:   *)
(* its cache is cleared, and once no lease is left its resources are       *)
(* disposed of.  Disposing of the runtime retires every generation and *)
(* waits for all of them.  An action is what runs between two awaits.      *)
(*                                                                         *)
(* A key has one part, which an invalidation may name as a source.         *)
(***************************************************************************)
EXTENDS Naturals, FiniteSets

CONSTANTS
    Passes,          \* passes of the renderer
    Cached,          \* those that memoize results
    Retaining,       \* those that retain resources too
    SourceScoped,    \* those whose resources are named by sources
    Runs,            \* calls of runPass
    Keys,            \* cache keys, resource keys and sources
    MaxGenerations,  \* bound: generations of a pass
    Helpers,         \* invalidations that work requests itself: "pass", "source"
    Faults           \* callbacks that may fail: "work", "create"

CONSTANTS NoRun, NoSlot, NoKey

ASSUME PassesAssumption == 
    Cached \subseteq Passes /\ Retaining \subseteq Cached /\ SourceScoped \subseteq Retaining
ASSUME GenerationsAssumption == MaxGenerations \in Nat \ {0}
ASSUME InstanceAssumption ==
    Helpers \subseteq {"pass", "source"} /\ Faults \subseteq {"work", "create"}
ASSUME SentinelAssumption == NoRun \notin Runs /\ NoKey \notin Keys

\* A slot is a generation of a pass.
Slots == Passes \X (1 .. MaxGenerations)

ASSUME SlotAssumption == NoSlot \notin Slots

VARIABLES
    disposal,   \* progress of the runtime's disposal
    current,    \* number of the current generation of every pass
    cleanup,    \* progress of every slot's retirement
    cached,     \* runs whose result is in the cache of their slot
    completed,  \* runs whose result is there
    latest,     \* latestRequested of every slot
    resource,   \* resource entry of every slot and key
    pc,         \* where every run is suspended
    slot,       \* slot a run executes in
    key,        \* its cache key
    leased,     \* runs that hold the lease of their slot
    sources,    \* executionSourceKeys of every run
    using,      \* resources whose promise the work of a run holds
    awaited     \* slots whose cleanup the work of a run awaits

cacheVars == <<cached, completed, latest>>
runVars   == <<pc, slot, key, leased, sources, using, awaited>>
vars == <<disposal, current, cleanup, cacheVars, resource, runVars>>

Init ==
    /\ disposal = "no"
    /\ current = [p \in Passes |-> 1]
    /\ cleanup = [s \in Slots |-> "no"]
    /\ cached = {}
    /\ completed = {}
    /\ latest = [s \in Slots |-> NoRun]
    /\ resource = [s \in Slots |-> [k \in Keys |-> "none"]]
    /\ pc = [e \in Runs |-> "new"]
    /\ slot = [e \in Runs |-> NoSlot]
    /\ key = [e \in Runs |-> NoKey]
    /\ leased = {}
    /\ sources = [e \in Runs |-> {}]
    /\ using = [e \in Runs |-> {}]
    /\ awaited = [e \in Runs |-> {}]

CurrentSlot(p) == <<p, current[p]>>

Retired(s) == cleanup[s] # "no"

(***************************************************************************)
(* The cache of a slot keeps the pending entries and, of the completed     *)
(* ones, the one requested last.                                           *)
(***************************************************************************)
Entries(s) == {e \in cached : slot[e] = s}

Evicted(s, e) == {f \in Entries(s) : f \in completed /\ f # e}

\* Mutant: the pass keeps every result.
KeepsAll(e) ==
    /\ completed' = completed \cup {e}
    /\ UNCHANGED <<cached, latest>>

\* completeRendererPipelineCacheEntry
CompleteEntry(e) ==
    IF latest[slot[e]] = e
    THEN /\ cached' = cached \ Evicted(slot[e], e)
         /\ completed' = (completed \ Evicted(slot[e], e)) \cup {e}
         /\ latest' = latest
    ELSE /\ cached' = cached \ {e}
         /\ UNCHANGED <<completed, latest>>

\* rejectRendererPipelineCacheEntry
RejectEntry(e) ==
    /\ cached' = cached \ {e}
    /\ latest' = [s \in Slots |-> IF latest[s] = e THEN NoRun ELSE latest[s]]
    /\ completed' = completed

(***************************************************************************)
(* runPass.                                                                *)
(***************************************************************************)
\* The result is in the cache, or is being computed.
RunHit(e, p, k) ==
    /\ disposal = "no"
    /\ pc[e] = "new"
    /\ p \in Cached
    /\ \E f \in Entries(CurrentSlot(p)) :
          /\ key[f] = k
          /\ latest' = [latest EXCEPT ![CurrentSlot(p)] = f]
          /\ LET gone == IF f \in completed THEN Evicted(CurrentSlot(p), f) ELSE {}
             IN cached' = cached \ gone /\ completed' = completed \ gone
    /\ pc' = [pc EXCEPT ![e] = "hit"]
    /\ UNCHANGED <<disposal, current, cleanup, resource, slot, key, leased,
                   sources, using, awaited>>

RunMiss(e, p, k) ==
    /\ disposal = "no"
    /\ pc[e] = "new"
    /\ \A f \in Entries(CurrentSlot(p)) : key[f] # k
    /\ pc' = [pc EXCEPT ![e] = "working"]
    /\ slot' = [slot EXCEPT ![e] = CurrentSlot(p)]
    /\ leased' = leased \cup {e}
    /\ \/ /\ p \in Cached
          /\ key' = [key EXCEPT ![e] = k]
          /\ sources' = [sources EXCEPT ![e] = {k}]
          /\ cached' = cached \cup {e}
          /\ latest' = [latest EXCEPT ![CurrentSlot(p)] = e]
       \/ /\ p \notin Cached
          /\ UNCHANGED <<key, sources, cached, latest>>
    /\ UNCHANGED <<disposal, current, cleanup, completed, resource, using, awaited>>

\* The work settles; a microtask later its lease is released.
Succeed(e) ==
    /\ pc[e] = "working"
    /\ pc' = [pc EXCEPT ![e] = "settled"]
    /\ CompleteEntry(e)
    /\ UNCHANGED <<disposal, current, cleanup, resource, slot, key, leased,
                   sources, using, awaited>>

Fail(e) ==
    /\ "work" \in Faults
    /\ pc[e] = "working"
    /\ pc' = [pc EXCEPT ![e] = "failed"]
    /\ RejectEntry(e)
    /\ UNCHANGED <<disposal, current, cleanup, resource, slot, key, leased,
                   sources, using, awaited>>

Release(e) ==
    /\ pc[e] \in {"settled", "failed"}
    /\ pc' = [pc EXCEPT ![e] = "done"]
    /\ leased' = leased \ {e}
    /\ UNCHANGED <<disposal, current, cleanup, cacheVars, resource, slot, key,
                   sources, using, awaited>>

(***************************************************************************)
(* getOrCreateResource.  A retired generation accepts no request.          *)
(***************************************************************************)
GetOrCreateResource(e, r) ==
    /\ pc[e] = "working"
    /\ slot[e][1] \in Retaining
    /\ r \notin using[e]
    /\ sources' = IF slot[e][1] \in SourceScoped
                  THEN [sources EXCEPT ![e] = @ \cup {r}] ELSE sources
    /\ \/ /\ ~Retired(slot[e])
          /\ using' = [using EXCEPT ![e] = @ \cup {r}]
          /\ resource' = IF resource[slot[e]][r] = "none"
                         THEN [resource EXCEPT ![slot[e]][r] = "creating"] ELSE resource
       \/ /\ Retired(slot[e])
          /\ UNCHANGED <<using, resource>>
    /\ UNCHANGED <<disposal, current, cleanup, cacheVars, pc, slot, key, leased, awaited>>

Created(s, r) ==
    /\ \/ /\ resource[s][r] = "creating"
          /\ resource' = [resource EXCEPT ![s][r] = "live"]
       \/ /\ resource[s][r] = "doomed"
          /\ resource' = [resource EXCEPT ![s][r] = "disposing"]
    /\ UNCHANGED <<disposal, current, cleanup, cacheVars, runVars>>

CreateFails(s, r) ==
    /\ "create" \in Faults
    /\ resource[s][r] \in {"creating", "doomed"}
    /\ resource' = [resource EXCEPT ![s][r] = "none"]
    /\ using' = [e \in Runs |-> IF slot[e] = s THEN using[e] \ {r} ELSE using[e]]
    /\ UNCHANGED <<disposal, current, cleanup, cacheVars, pc, slot, key, leased,
                   sources, awaited>>

(***************************************************************************)
(* Retirement: the slots S retire in one step that leaves the leases L.    *)
(* The cleanup of a slot without leases starts in the same step.           *)
(***************************************************************************)
\* Mutant: the cleanup does not wait for the leases.
UnleasedAlways(s, L) == TRUE

Unleased(s, L) == \A e \in L : slot[e] # s

\* A resource that is not there yet is disposed of as soon as it is.
Doomed(state) ==
    IF state = "creating" THEN "doomed" ELSE IF state = "live" THEN "disposing" ELSE state

Retire(S, L) ==
    LET new == {s \in S : ~Retired(s)}
        free == {s \in new : Unleased(s, L)}
    IN
    /\ cleanup' = [s \in Slots |-> IF s \in free THEN "disposing"
                                   ELSE IF s \in new THEN "waiting" ELSE cleanup[s]]
    /\ resource' = [s \in Slots |-> IF s \in free
                                    THEN [k \in Keys |-> Doomed(resource[s][k])]
                                    ELSE resource[s]]
    /\ cached' = cached \ UNION {Entries(s) : s \in S}
    /\ completed' = completed \ UNION {Entries(s) : s \in S}
    /\ latest' = [s \in Slots |-> IF s \in S THEN NoRun ELSE latest[s]]

\* The current generations of the passes P are replaced, unless the runtime
\* is disposed, and retired.
Replace(P, L) ==
    /\ disposal = "no" => \A p \in P : current[p] < MaxGenerations
    /\ current' = IF disposal = "no"
                  THEN [p \in Passes |-> IF p \in P THEN current[p] + 1 ELSE current[p]]
                  ELSE current
    /\ Retire({CurrentSlot(p) : p \in P}, L)

\* Mutant: the cache is not asked.
ContainsResource(s, k) == s[1] \in SourceScoped /\ resource[s][k] \in {"creating", "live"}

\* rendererPipelineGenerationContainsSource
Contains(s, k) ==
    \/ \E e \in Entries(s) : key[e] = k
    \/ s[1] \in SourceScoped /\ resource[s][k] \in {"creating", "live"}

Matching(k) == {p \in Passes : Contains(CurrentSlot(p), k)}

InvalidatePass(p) ==
    /\ disposal = "no"
    /\ Replace({p}, leased)
    /\ UNCHANGED <<disposal, runVars>>

InvalidateSource(k) ==
    /\ disposal = "no"
    /\ Matching(k) # {}
    /\ Replace(Matching(k), leased)
    /\ UNCHANGED <<disposal, runVars>>

\* Work may await the cleanups it has requested, or go on.
MayAwait(e, S) ==
    \/ UNCHANGED <<pc, awaited>>
    \/ /\ pc' = [pc EXCEPT ![e] = "awaiting"]
       /\ awaited' = [awaited EXCEPT ![e] = S]

\* Mutant: the work keeps its lease.
InvalidateOwnPassLeased(e) ==
    /\ "pass" \in Helpers
    /\ pc[e] = "working"
    /\ Replace({p \in Passes : CurrentSlot(p) = slot[e]}, leased)
    /\ MayAwait(e, {slot[e]})
    /\ UNCHANGED <<disposal, slot, key, leased, sources, using>>

\* The helpers of the execution context.
InvalidateOwnPass(e) ==
    /\ "pass" \in Helpers
    /\ pc[e] = "working"
    /\ leased' = leased \ {e}
    /\ Replace({p \in Passes : CurrentSlot(p) = slot[e]}, leased \ {e})
    /\ MayAwait(e, {slot[e]})
    /\ UNCHANGED <<disposal, slot, key, sources, using>>

\* Does the invalidation of source k concern the slot that run e runs in?
InvalidatesOwn(e, k) ==
    \/ k \in sources[e]
    \/ slot[e] = CurrentSlot(slot[e][1]) /\ Contains(slot[e], k)

InvalidateSourceInside(e, k) ==
    LET left == IF InvalidatesOwn(e, k) THEN leased \ {e} ELSE leased
        former == {slot[e]} \ {CurrentSlot(p) : p \in Passes}
    IN
    /\ "source" \in Helpers
    /\ pc[e] = "working"
    /\ leased' = left
    /\ Replace(Matching(k), left)
    /\ MayAwait(e, {CurrentSlot(p) : p \in Matching(k)}
                     \cup (IF InvalidatesOwn(e, k) THEN former ELSE {}))
    /\ UNCHANGED <<disposal, slot, key, sources, using>>

Resume(e) ==
    /\ pc[e] = "awaiting"
    /\ \A s \in awaited[e] : cleanup[s] = "done"
    /\ pc' = [pc EXCEPT ![e] = "working"]
    /\ awaited' = [awaited EXCEPT ![e] = {}]
    /\ UNCHANGED <<disposal, current, cleanup, cacheVars, resource, slot, key,
                   leased, sources, using>>

(***************************************************************************)
(* The cleanup of a retired slot.                                          *)
(***************************************************************************)
\* The last lease has been released.
StartCleanup(s) ==
    /\ cleanup[s] = "waiting"
    /\ Unleased(s, leased)
    /\ cleanup' = [cleanup EXCEPT ![s] = "disposing"]
    /\ resource' = [resource EXCEPT ![s] = [k \in Keys |-> Doomed(@[k])]]
    /\ UNCHANGED <<disposal, current, cacheVars, runVars>>

\* The callback that disposes of a resource settles, also when it fails.
Disposed(s, r) ==
    /\ resource[s][r] = "disposing"
    /\ resource' = [resource EXCEPT ![s][r] = "none"]
    /\ UNCHANGED <<disposal, current, cleanup, cacheVars, runVars>>

EndCleanup(s) ==
    /\ cleanup[s] = "disposing"
    /\ \A k \in Keys : resource[s][k] \notin {"doomed", "disposing"}
    /\ cleanup' = [cleanup EXCEPT ![s] = "done"]
    /\ UNCHANGED <<disposal, current, cacheVars, resource, runVars>>

Dispose ==
    /\ disposal = "no"
    /\ disposal' = "waiting"
    /\ Retire({CurrentSlot(p) : p \in Passes}, leased)
    /\ UNCHANGED <<current, runVars>>

\* Mutant: the disposal waits for the current generations only.
DrainedCurrent == \A p \in Passes : cleanup[CurrentSlot(p)] = "done"

\* The cleanups of the current generations and the retired barriers.
Drained == \A s \in Slots : Retired(s) => cleanup[s] = "done"

EndDispose ==
    /\ disposal = "waiting"
    /\ Drained
    /\ disposal' = "done"
    /\ UNCHANGED <<current, cleanup, cacheVars, resource, runVars>>

Work(e) ==
    \/ \E k \in Keys : GetOrCreateResource(e, k) \/ InvalidateSourceInside(e, k)
    \/ InvalidateOwnPass(e)

Settle(e) == Succeed(e) \/ Fail(e)

Run(e) ==
    \/ \E p \in Passes, k \in Keys : RunHit(e, p, k) \/ RunMiss(e, p, k)
    \/ Work(e) \/ Settle(e) \/ Release(e) \/ Resume(e)

Answer(s, r) == Created(s, r) \/ CreateFails(s, r) \/ Disposed(s, r)

Slot(s) ==
    \/ StartCleanup(s) \/ EndCleanup(s)
    \/ \E r \in Keys : Answer(s, r)

Next ==
    \/ \E e \in Runs : Run(e)
    \/ \E s \in Slots : Slot(s)
    \/ \E p \in Passes : InvalidatePass(p)
    \/ \E k \in Keys : InvalidateSource(k)
    \/ Dispose \/ EndDispose

Spec == Init /\ [][Next]_vars

(***************************************************************************)
(* Work that waits for nothing settles in the end, however often it asks   *)
(* for resources; so do the callbacks that create and dispose of them.     *)
(***************************************************************************)
Fairness ==
    /\ \A e \in Runs : WF_vars(Release(e)) /\ WF_vars(Resume(e)) /\ SF_vars(Settle(e))
    /\ \A s \in Slots : WF_vars(StartCleanup(s)) /\ WF_vars(EndCleanup(s))
    /\ \A s \in Slots, r \in Keys : WF_vars(Answer(s, r))
    /\ WF_vars(EndDispose)

FairSpec == Spec /\ Fairness

-----------------------------------------------------------------------------
TypeOK ==
    /\ disposal \in {"no", "waiting", "done"}
    /\ current \in [Passes -> 1 .. MaxGenerations]
    /\ cleanup \in [Slots -> {"no", "waiting", "disposing", "done"}]
    /\ cached \in SUBSET Runs
    /\ completed \in SUBSET Runs
    /\ latest \in [Slots -> Runs \cup {NoRun}]
    /\ resource \in [Slots -> [Keys -> {"none", "creating", "live", "doomed",
                                        "disposing"}]]
    /\ pc \in [Runs -> {"new", "hit", "working", "awaiting", "settled", "failed", "done"}]
    /\ slot \in [Runs -> Slots \cup {NoSlot}]
    /\ key \in [Runs -> Keys \cup {NoKey}]
    /\ leased \in SUBSET Runs
    /\ sources \in [Runs -> SUBSET Keys]
    /\ using \in [Runs -> SUBSET Keys]
    /\ awaited \in [Runs -> SUBSET Slots]

(***************************************************************************)
(* While work holds the lease of its generation, no resource it has asked  *)
(* for is disposed of, whoever invalidates the pass or disposes of the     *)
(* runtime meanwhile (executionLeases).                                    *)
(***************************************************************************)
LeasedResourcesLive ==
    \A e \in leased : \A r \in using[e] : resource[slot[e]][r] \in {"creating", "live"}

(***************************************************************************)
(* memoizedCachePolicy: besides what is pending, a generation retains at   *)
(* most one completed result, never a failed one, and the run it takes for *)
(* the latest request is one it retains.  A retired generation retains     *)
(* none, also when its runs settle later.                                  *)
(***************************************************************************)
RetainsLatest ==
    /\ \A e, f \in cached \cap completed : slot[e] = slot[f] => e = f
    /\ \A s \in Slots : latest[s] # NoRun => latest[s] \in Entries(s)
    /\ \A e \in cached : ~Retired(slot[e]) /\ pc[e] # "failed"

(***************************************************************************)
(* When the runtime's disposal has ended, no resource of any generation is *)
(* left: the disposal of each has been asked for and has settled.          *)
(***************************************************************************)
DisposedLeavesNothing ==
    disposal = "done" =>
        \A s \in Slots, r \in Keys : resource[s][r] = "none"

(***************************************************************************)
(* invalidateSource of the execution context, by its comment, releases     *)
(* this execution's lease when its generation contains the source, and     *)
(* retires every matching generation: so work that goes on without its     *)
(* lease runs in a retired generation.  The code does not keep this: a     *)
(* source stays in executionSourceKeys when the creation of its resource   *)
(* has failed, though the generation contains it no longer.                *)
(***************************************************************************)
WorkKeepsLease ==
    \A e \in Runs : pc[e] = "working" /\ e \notin leased => Retired(slot[e])

(***************************************************************************)
(* What the code keeps of it.  The step that takes the lease of work that  *)
(* goes on retires its generation, if that is not retired already; or the  *)
(* work has asked for a resource that its generation does not have,        *)
(* because the creation has failed or the resource is disposed of.         *)
(***************************************************************************)
LeaseLeavesWithGeneration ==
    [][\A e \in leased \ leased' :
          pc'[e] \in {"working", "awaiting"} =>
              \/ Retired(slot[e])'
              \/ \E r \in sources[e] \ {key[e]} : resource[slot[e]][r] = "none"]_vars

(***************************************************************************)
(* A retired generation is cleaned up, also when the work that runs in it  *)
(* awaits that; so the disposal of the runtime ends.                       *)
(***************************************************************************)
CleanupEnds == \A s \in Slots : Retired(s) ~> cleanup[s] = "done"

DisposalEnds == disposal # "no" ~> disposal = "done"

EverythingEnds == CleanupEnds /\ DisposalEnds
=============================================================================
