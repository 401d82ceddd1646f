----------------------- MODULE RendererPipelineProofs -----------------------
(***************************************************************************)
(* Proofs about RendererPipeline, for any number of passes, runs, keys and *)
(* generations, whatever fails.                                            *)
(*                                                                         *)
(* The inductive invariant relates the three things an invalidation        *)
(* changes at different times: which generation is current, how far the    *)
(* cleanup of a former one has come, and the state of its resources.       *)
(***************************************************************************)
EXTENDS RendererPipeline, TLAPS

\* A run that has started executes in a generation that exists by now.
RunsPlaced ==
    /\ \A e \in Runs : pc[e] \notin {"new", "hit"} =>
           slot[e] \in Slots /\ slot[e][2] <= current[slot[e][1]]
    /\ \A e \in Runs : pc[e] \in {"new", "hit"} => e \notin leased /\ using[e] = {}

\* Exactly the former generations are retired, and all once disposal begins.
FormerRetired ==
    \A s \in Slots : Retired(s) <=>
        \/ s[2] < current[s[1]]
        \/ s[2] = current[s[1]] /\ disposal # "no"

\* Resources are disposed of during the cleanup and at no other time.
CleanupOwnsResources ==
    \A s \in Slots, k \in Keys :
        /\ resource[s][k] \in {"doomed", "disposing"} => cleanup[s] = "disposing"
        /\ resource[s][k] \in {"creating", "live"} => cleanup[s] \in {"no", "waiting"}
        /\ s[2] > current[s[1]] => resource[s][k] = "none"

\* No lease is left when the cleanup begins, and none comes later.
CleanupUnleased ==
    \A s \in Slots : cleanup[s] \in {"disposing", "done"} => Unleased(s, leased)

\* What leased work has asked for is still there.
UsedPresent ==
    \A e \in leased : \A r \in using[e] : resource[slot[e]][r] # "none"

DisposalDrained ==
    disposal = "done" => \A s \in Slots : Retired(s) => cleanup[s] = "done"

IInv ==
    /\ TypeOK
    /\ RunsPlaced
    /\ FormerRetired
    /\ CleanupOwnsResources
    /\ CleanupUnleased
    /\ UsedPresent
    /\ DisposalDrained

\* The variables the invariant, apart from types, is about.
coreVars == <<disposal, current, cleanup, resource, slot, leased, using>>

-----------------------------------------------------------------------------
\* The current generation of a pass is one of its slots.
LEMMA CurrentIsSlot ==
    ASSUME TypeOK, NEW p \in Passes
    PROVE  CurrentSlot(p) \in Slots /\ CurrentSlot(p)[1] = p /\ CurrentSlot(p)[2] = current[p]
  BY DEF TypeOK, CurrentSlot, Slots

\* A step that changes only caches and the position of a run, and starts
\* none, keeps the invariant.
LEMMA CacheStep ==
    ASSUME IInv, TypeOK', UNCHANGED coreVars,
           \A e \in Runs : pc'[e] \in {"new", "hit"} <=> pc[e] \in {"new", "hit"}
    PROVE  IInv'
  <1>1. RunsPlaced'
    BY DEF IInv, RunsPlaced, coreVars
  <1>2. FormerRetired'
    BY DEF IInv, FormerRetired, coreVars, Retired
  <1>3. CleanupOwnsResources' /\ CleanupUnleased' /\ UsedPresent'
    BY DEF IInv, CleanupOwnsResources, CleanupUnleased, UsedPresent, coreVars, Unleased
  <1>4. DisposalDrained'
    BY DEF IInv, DisposalDrained, coreVars, Retired
  <1>. QED BY <1>1, <1>2, <1>3, <1>4 DEF IInv

LEMMA InitIInv == Init => IInv
  <1>. SUFFICES ASSUME Init PROVE IInv
    OBVIOUS
  <1>. USE GenerationsAssumption, SentinelAssumption, SlotAssumption
  <1>1. TypeOK
    BY DEF Init, TypeOK, Slots
  <1>2. RunsPlaced
    BY DEF Init, RunsPlaced
  <1>3. FormerRetired
    BY DEF Init, FormerRetired, Retired, Slots
  <1>4. CleanupOwnsResources /\ CleanupUnleased /\ UsedPresent /\ DisposalDrained
    BY DEF Init, CleanupOwnsResources, CleanupUnleased, UsedPresent, DisposalDrained
  <1>. QED BY <1>1, <1>2, <1>3, <1>4 DEF IInv

-----------------------------------------------------------------------------
(***************************************************************************)
(* runPass and its settling.                                               *)
(***************************************************************************)
LEMMA RunHitIInv ==
    ASSUME IInv, NEW e \in Runs, NEW p \in Passes, NEW k \in Keys, RunHit(e, p, k)
    PROVE  IInv'
  <1>1. TypeOK'
    <2>1. PICK f \in Entries(CurrentSlot(p)) :
              /\ latest' = [latest EXCEPT ![CurrentSlot(p)] = f]
              /\ cached' \subseteq cached /\ completed' \subseteq completed
      BY DEF RunHit
    <2>2. f \in Runs
      BY <2>1 DEF Entries, IInv, TypeOK
    <2>. QED BY <2>1, <2>2 DEF RunHit, IInv, TypeOK
  <1>2. UNCHANGED coreVars
    BY DEF RunHit, coreVars
  <1>3. \A f \in Runs : pc'[f] \in {"new", "hit"} <=> pc[f] \in {"new", "hit"}
    BY DEF RunHit, IInv, TypeOK
  <1>. QED BY <1>1, <1>2, <1>3, CacheStep

LEMMA RunMissIInv ==
    ASSUME IInv, NEW e \in Runs, NEW p \in Passes, NEW k \in Keys, RunMiss(e, p, k)
    PROVE  IInv'
  <1>. USE SlotAssumption
  <1>1. /\ CurrentSlot(p) \in Slots
        /\ CurrentSlot(p)[1] = p
        /\ CurrentSlot(p)[2] = current[p]
    BY CurrentIsSlot DEF IInv
  <1>2. cleanup[CurrentSlot(p)] = "no"
    BY <1>1 DEF RunMiss, IInv, FormerRetired, Retired, TypeOK, Slots
  <1>3. /\ slot' = [slot EXCEPT ![e] = CurrentSlot(p)]
        /\ leased' = leased \cup {e}
        /\ pc' = [pc EXCEPT ![e] = "working"]
        /\ UNCHANGED <<disposal, current, cleanup, resource, using>>
        /\ pc[e] = "new" /\ e \notin leased /\ using[e] = {}
    BY DEF RunMiss, IInv, RunsPlaced
  <1>4. TypeOK'
    <2>1. /\ key' \in [Runs -> Keys \cup {NoKey}]
          /\ sources' \in [Runs -> SUBSET Keys]
          /\ cached' \in SUBSET Runs
          /\ latest' \in [Slots -> Runs \cup {NoRun}]
      <3>1. CASE p \in Cached
        <4>1. /\ key' = [key EXCEPT ![e] = k]
              /\ sources' = [sources EXCEPT ![e] = {k}]
              /\ cached' = cached \cup {e}
              /\ latest' = [latest EXCEPT ![CurrentSlot(p)] = e]
          BY <3>1 DEF RunMiss
        <4>. QED BY <1>1, <4>1 DEF IInv, TypeOK
      <3>2. CASE p \notin Cached
        BY <3>2 DEF RunMiss, IInv, TypeOK
      <3>. QED BY <3>1, <3>2
    <2>2. /\ pc' \in [Runs -> {"new", "hit", "working", "awaiting", "settled", "failed", "done"}]
          /\ slot' \in [Runs -> Slots \cup {NoSlot}]
          /\ leased' \in SUBSET Runs
      BY <1>1, <1>3 DEF IInv, TypeOK
    <2>3. UNCHANGED <<disposal, current, cleanup, completed, resource, using, awaited>>
      BY DEF RunMiss
    <2>. QED BY <2>1, <2>2, <2>3 DEF IInv, TypeOK
  <1>5. RunsPlaced'
    BY <1>1, <1>3 DEF IInv, RunsPlaced, TypeOK, Slots
  <1>6. FormerRetired' /\ DisposalDrained'
    BY <1>3 DEF IInv, FormerRetired, DisposalDrained, Retired
  <1>7. CleanupOwnsResources'
    BY <1>3 DEF IInv, CleanupOwnsResources
  <1>8. CleanupUnleased'
    BY <1>1, <1>2, <1>3 DEF IInv, CleanupUnleased, Unleased, TypeOK
  <1>9. UsedPresent'
    BY <1>3 DEF IInv, UsedPresent, TypeOK
  <1>. QED BY <1>4, <1>5, <1>6, <1>7, <1>8, <1>9 DEF IInv

LEMMA SettleIInv ==
    ASSUME IInv, NEW e \in Runs, Settle(e)
    PROVE  IInv'
  <1>1. TypeOK'
    <2>1. CASE Succeed(e)
      BY <2>1 DEF Succeed, CompleteEntry, Evicted, Entries, IInv, TypeOK
    <2>2. CASE Fail(e)
      BY <2>2 DEF Fail, RejectEntry, IInv, TypeOK
    <2>. QED BY <2>1, <2>2 DEF Settle
  <1>2. UNCHANGED coreVars
    BY DEF Settle, Succeed, Fail, coreVars
  <1>3. \A f \in Runs : pc'[f] \in {"new", "hit"} <=> pc[f] \in {"new", "hit"}
    BY DEF Settle, Succeed, Fail, IInv, TypeOK
  <1>. QED BY <1>1, <1>2, <1>3, CacheStep

LEMMA ReleaseIInv ==
    ASSUME IInv, NEW e \in Runs, Release(e)
    PROVE  IInv'
  <1>1. TypeOK'
    BY DEF Release, IInv, TypeOK, cacheVars
  <1>2. /\ leased' = leased \ {e}
        /\ pc' = [pc EXCEPT ![e] = "done"]
        /\ UNCHANGED <<disposal, current, cleanup, resource, slot, using>>
        /\ pc[e] \notin {"new", "hit"}
    BY DEF Release
  <1>3. RunsPlaced'
    BY <1>2 DEF IInv, RunsPlaced, TypeOK
  <1>4. FormerRetired' /\ DisposalDrained'
    BY <1>2 DEF IInv, FormerRetired, DisposalDrained, Retired
  <1>5. CleanupOwnsResources' /\ CleanupUnleased' /\ UsedPresent'
    BY <1>2 DEF IInv, CleanupOwnsResources, CleanupUnleased, UsedPresent, Unleased
  <1>. QED BY <1>1, <1>3, <1>4, <1>5 DEF IInv

LEMMA ResumeIInv ==
    ASSUME IInv, NEW e \in Runs, Resume(e)
    PROVE  IInv'
  <1>1. TypeOK'
    BY DEF Resume, IInv, TypeOK, cacheVars
  <1>2. UNCHANGED coreVars
    BY DEF Resume, coreVars
  <1>3. \A f \in Runs : pc'[f] \in {"new", "hit"} <=> pc[f] \in {"new", "hit"}
    BY DEF Resume, IInv, TypeOK
  <1>. QED BY <1>1, <1>2, <1>3, CacheStep

-----------------------------------------------------------------------------
(***************************************************************************)
(* Resources.                                                              *)
(***************************************************************************)
LEMMA GetOrCreateResourceIInv ==
    ASSUME IInv, NEW e \in Runs, NEW r \in Keys, GetOrCreateResource(e, r)
    PROVE  IInv'
  <1>1. slot[e] \in Slots /\ slot[e][2] <= current[slot[e][1]] /\ pc[e] = "working"
    BY DEF GetOrCreateResource, IInv, RunsPlaced
  <1>2. UNCHANGED <<disposal, current, cleanup, cacheVars, pc, slot, key, leased, awaited>>
    BY DEF GetOrCreateResource
  <1>3. sources' \in [Runs -> SUBSET Keys]
    BY DEF GetOrCreateResource, IInv, TypeOK
  <1>4. CASE Retired(slot[e])
    <2>1. UNCHANGED <<using, resource>>
      BY <1>4 DEF GetOrCreateResource
    <2>2. TypeOK'
      BY <1>2, <1>3, <2>1 DEF IInv, TypeOK, cacheVars
    <2>3. UNCHANGED coreVars
      BY <1>2, <2>1 DEF coreVars
    <2>. QED BY <2>2, <2>3, <1>2, CacheStep
  <1>5. CASE ~Retired(slot[e])
    <2>1. /\ using' = [using EXCEPT ![e] = @ \cup {r}]
          /\ resource' = IF resource[slot[e]][r] = "none"
                         THEN [resource EXCEPT ![slot[e]][r] = "creating"] ELSE resource
      BY <1>5 DEF GetOrCreateResource
    <2>2. resource' \in [Slots -> [Keys -> {"none", "creating", "live", "doomed", "disposing"}]]
      BY <1>1, <2>1 DEF IInv, TypeOK
    <2>3. TypeOK'
      BY <1>2, <1>3, <2>1, <2>2 DEF IInv, TypeOK, cacheVars
    <2>4. RunsPlaced'
      BY <1>1, <1>2, <2>1 DEF IInv, RunsPlaced, TypeOK
    <2>5. FormerRetired' /\ DisposalDrained' /\ CleanupUnleased'
      BY <1>2 DEF IInv, FormerRetired, DisposalDrained, CleanupUnleased, Retired, Unleased
    <2>6. /\ resource'[slot[e]][r] # "none"
          /\ \A s \in Slots, k \in Keys :
                 \/ resource'[s][k] = resource[s][k]
                 \/ s = slot[e] /\ k = r /\ resource'[s][k] = "creating"
      BY <1>1, <2>1 DEF IInv, TypeOK
    <2>7. CleanupOwnsResources'
      <3>. SUFFICES ASSUME NEW s \in Slots, NEW k \in Keys
                    PROVE  /\ resource'[s][k] \in {"doomed", "disposing"} => cleanup[s] = "disposing"
                           /\ resource'[s][k] \in {"creating", "live"} => cleanup[s] \in {"no", "waiting"}
                           /\ s[2] > current[s[1]] => resource'[s][k] = "none"
        BY <1>2 DEF CleanupOwnsResources
      <3>1. CASE resource'[s][k] = resource[s][k]
        BY <3>1 DEF IInv, CleanupOwnsResources
      <3>2. CASE s = slot[e] /\ k = r /\ resource'[s][k] = "creating"
        BY <3>2, <1>1, <1>5 DEF Retired, IInv, TypeOK, Slots
      <3>. QED BY <3>1, <3>2, <2>6
    <2>8. UsedPresent'
      <3>. SUFFICES ASSUME NEW f \in leased, NEW k \in using'[f]
                    PROVE  resource'[slot[f]][k] # "none"
        BY <1>2 DEF UsedPresent
      <3>1. f \in Runs /\ slot[f] \in Slots /\ k \in Keys
        BY <2>3 DEF IInv, TypeOK, RunsPlaced
      <3>2. CASE f = e /\ k = r
        BY <3>2, <2>6
      <3>3. CASE k \in using[f]
        BY <3>1, <3>3, <2>6 DEF IInv, UsedPresent
      <3>. QED BY <3>1, <3>2, <3>3, <2>1 DEF IInv, TypeOK
    <2>. QED BY <2>3, <2>4, <2>5, <2>7, <2>8 DEF IInv
  <1>. QED BY <1>4, <1>5

LEMMA CreatedIInv ==
    ASSUME IInv, NEW s \in Slots, NEW r \in Keys, Created(s, r)
    PROVE  IInv'
  <1>1. UNCHANGED <<disposal, current, cleanup, cacheVars, runVars>>
    BY DEF Created
  <1>2. PICK old \in {"creating", "doomed"} :
            /\ resource[s][r] = old
            /\ resource' = [resource EXCEPT ![s][r] =
                               IF old = "creating" THEN "live" ELSE "disposing"]
    BY DEF Created
  <1>3. TypeOK'
    BY <1>1, <1>2 DEF IInv, TypeOK, cacheVars, runVars
  <1>4. \A t \in Slots, k \in Keys :
            \/ resource'[t][k] = resource[t][k]
            \/ resource[t][k] = "creating" /\ resource'[t][k] = "live"
            \/ resource[t][k] = "doomed" /\ resource'[t][k] = "disposing"
    BY <1>2 DEF IInv, TypeOK
  <1>5. CleanupOwnsResources'
    <2>1. \A t \in Slots, k \in Keys :
              /\ resource'[t][k] \in {"doomed", "disposing"} => resource[t][k] \in {"doomed", "disposing"}
              /\ resource'[t][k] \in {"creating", "live"} => resource[t][k] \in {"creating", "live"}
              /\ resource[t][k] = "none" => resource'[t][k] = "none"
      BY <1>4
    <2>. QED BY <2>1, <1>1 DEF IInv, CleanupOwnsResources
  <1>6. UsedPresent'
    <2>1. \A e \in leased : slot[e] \in Slots /\ using[e] \subseteq Keys
      BY DEF IInv, TypeOK, RunsPlaced
    <2>. QED BY <1>1, <1>4, <2>1 DEF IInv, UsedPresent, runVars
  <1>7. RunsPlaced' /\ FormerRetired' /\ CleanupUnleased' /\ DisposalDrained'
    BY <1>1 DEF IInv, RunsPlaced, FormerRetired, CleanupUnleased, DisposalDrained,
                Retired, Unleased, runVars
  <1>. QED BY <1>3, <1>5, <1>6, <1>7 DEF IInv

LEMMA CreateFailsIInv ==
    ASSUME IInv, NEW s \in Slots, NEW r \in Keys, CreateFails(s, r)
    PROVE  IInv'
  <1>1. /\ UNCHANGED <<disposal, current, cleanup, cacheVars, pc, slot, key, leased, sources, awaited>>
        /\ resource' = [resource EXCEPT ![s][r] = "none"]
        /\ using' = [e \in Runs |-> IF slot[e] = s THEN using[e] \ {r} ELSE using[e]]
    BY DEF CreateFails
  <1>2. TypeOK'
    <2>1. using' \in [Runs -> SUBSET Keys]
      BY <1>1 DEF IInv, TypeOK
    <2>2. resource' \in [Slots -> [Keys -> {"none", "creating", "live", "doomed", "disposing"}]]
      BY <1>1 DEF IInv, TypeOK
    <2>. QED BY <1>1, <2>1, <2>2 DEF IInv, TypeOK, cacheVars
  <1>3. \A t \in Slots, k \in Keys : \/ resource'[t][k] = resource[t][k]
                                     \/ t = s /\ k = r /\ resource'[t][k] = "none"
    BY <1>1 DEF IInv, TypeOK
  <1>4. \A e \in Runs : using'[e] \subseteq using[e] /\ (slot[e] = s => r \notin using'[e])
    BY <1>1 DEF IInv, TypeOK
  <1>5. CleanupOwnsResources'
    BY <1>1, <1>3 DEF IInv, CleanupOwnsResources
  <1>6. UsedPresent'
    <2>1. \A e \in leased : e \in Runs /\ slot[e] \in Slots /\ using[e] \subseteq Keys
      BY DEF IInv, TypeOK, RunsPlaced
    <2>. QED BY <1>1, <1>3, <1>4, <2>1 DEF IInv, UsedPresent
  <1>7. RunsPlaced'
    BY <1>1, <1>4 DEF IInv, RunsPlaced
  <1>8. FormerRetired' /\ CleanupUnleased' /\ DisposalDrained'
    BY <1>1 DEF IInv, FormerRetired, CleanupUnleased, DisposalDrained, Retired, Unleased
  <1>. QED BY <1>2, <1>5, <1>6, <1>7, <1>8 DEF IInv

LEMMA DisposedIInv ==
    ASSUME IInv, NEW s \in Slots, NEW r \in Keys, Disposed(s, r)
    PROVE  IInv'
  <1>1. /\ UNCHANGED <<disposal, current, cleanup, cacheVars, runVars>>
        /\ resource' = [resource EXCEPT ![s][r] = "none"]
        /\ resource[s][r] = "disposing"
    BY DEF Disposed
  <1>2. TypeOK'
    BY <1>1 DEF IInv, TypeOK, cacheVars, runVars
  <1>3. \A t \in Slots, k \in Keys : \/ resource'[t][k] = resource[t][k]
                                     \/ t = s /\ k = r /\ resource'[t][k] = "none"
    BY <1>1 DEF IInv, TypeOK
  <1>4. CleanupOwnsResources'
    BY <1>1, <1>3 DEF IInv, CleanupOwnsResources
  <1>5. UsedPresent'
    <2>1. \A e \in leased : slot[e] # s
      BY <1>1 DEF IInv, CleanupOwnsResources, CleanupUnleased, Unleased
    <2>2. \A e \in leased : e \in Runs /\ slot[e] \in Slots /\ using[e] \subseteq Keys
      BY DEF IInv, TypeOK, RunsPlaced
    <2>. QED BY <1>1, <1>3, <2>1, <2>2 DEF IInv, UsedPresent, runVars
  <1>6. RunsPlaced' /\ FormerRetired' /\ CleanupUnleased' /\ DisposalDrained'
    BY <1>1 DEF IInv, RunsPlaced, FormerRetired, CleanupUnleased, DisposalDrained,
                Retired, Unleased, runVars
  <1>. QED BY <1>2, <1>4, <1>5, <1>6 DEF IInv

-----------------------------------------------------------------------------
(***************************************************************************)
(* Retirement.  What a step does that begins the cleanup of the slots B    *)
(* and leaves the leases L.                                                *)
(***************************************************************************)
Begins(B, L) ==
    /\ \A s \in B : Unleased(s, L) /\ cleanup[s] \in {"no", "waiting"} /\ cleanup'[s] = "disposing"
    /\ \A s \in Slots \ B : \/ cleanup'[s] = cleanup[s]
                            \/ cleanup[s] = "no" /\ cleanup'[s] = "waiting"
    /\ resource' = [s \in Slots |-> IF s \in B THEN [k \in Keys |-> Doomed(resource[s][k])]
                                    ELSE resource[s]]
    /\ leased' = L /\ L \subseteq leased
    /\ slot' = slot /\ using' = using

\* Such a step keeps the parts of the invariant about resources and leases.
LEMMA BeginsKeeps ==
    ASSUME IInv, NEW B \in SUBSET Slots, NEW L, Begins(B, L),
           current' \in [Passes -> Nat], \A p \in Passes : current'[p] >= current[p]
    PROVE  CleanupOwnsResources' /\ CleanupUnleased' /\ UsedPresent'
  <1>1. \A s \in Slots, k \in Keys :
            resource'[s][k] = IF s \in B THEN Doomed(resource[s][k]) ELSE resource[s][k]
    BY DEF Begins
  <1>2. CleanupOwnsResources'
    <2>. SUFFICES ASSUME NEW s \in Slots, NEW k \in Keys
                  PROVE  /\ resource'[s][k] \in {"doomed", "disposing"} => cleanup'[s] = "disposing"
                         /\ resource'[s][k] \in {"creating", "live"} => cleanup'[s] \in {"no", "waiting"}
                         /\ s[2] > current'[s[1]] => resource'[s][k] = "none"
      BY DEF CleanupOwnsResources
    <2>1. s[1] \in Passes /\ s[2] \in Nat /\ current[s[1]] \in Nat
      BY DEF Slots, IInv, TypeOK
    <2>2. /\ resource[s][k] \in {"doomed", "disposing"} => cleanup[s] = "disposing"
          /\ resource[s][k] \in {"creating", "live"} => cleanup[s] \in {"no", "waiting"}
          /\ s[2] > current[s[1]] => resource[s][k] = "none"
      BY DEF IInv, CleanupOwnsResources
    <2>3. s[2] > current'[s[1]] => resource[s][k] = "none"
      BY <2>1, <2>2
    <2>4. CASE s \in B
      BY <1>1, <2>2, <2>3, <2>4 DEF Begins, Doomed, IInv, TypeOK
    <2>5. CASE s \notin B
      BY <1>1, <2>2, <2>3, <2>5 DEF Begins
    <2>. QED BY <2>4, <2>5
  <1>3. CleanupUnleased'
    <2>. SUFFICES ASSUME NEW s \in Slots, cleanup'[s] \in {"disposing", "done"}, NEW e \in leased'
                  PROVE  slot[e] # s
      BY DEF CleanupUnleased, Unleased, Begins
    <2>1. CASE s \in B
      BY <2>1 DEF Begins, Unleased
    <2>2. CASE s \notin B
      BY <2>2 DEF Begins, Unleased, IInv, CleanupUnleased
    <2>. QED BY <2>1, <2>2
  <1>4. UsedPresent'
    <2>. SUFFICES ASSUME NEW e \in leased', NEW r \in using[e]
                  PROVE  resource'[slot[e]][r] # "none"
      BY DEF UsedPresent, Begins
    <2>1. e \in leased /\ e \in Runs /\ slot[e] \in Slots /\ r \in Keys
      BY DEF Begins, IInv, TypeOK, RunsPlaced
    <2>. QED BY <1>1, <2>1 DEF IInv, UsedPresent, Doomed
  <1>. QED BY <1>2, <1>3, <1>4

LEMMA StartCleanupIInv ==
    ASSUME IInv, NEW s \in Slots, StartCleanup(s)
    PROVE  IInv'
  <1>1. /\ UNCHANGED <<disposal, current, cacheVars, runVars>>
        /\ cleanup[s] = "waiting"
        /\ Unleased(s, leased)
        /\ cleanup' = [cleanup EXCEPT ![s] = "disposing"]
        /\ resource' = [resource EXCEPT ![s] = [k \in Keys |-> Doomed(@[k])]]
    BY DEF StartCleanup
  <1>2. TypeOK'
    <2>1. [k \in Keys |-> Doomed(resource[s][k])]
              \in [Keys -> {"none", "creating", "live", "doomed", "disposing"}]
      BY DEF Doomed, IInv, TypeOK
    <2>. QED BY <1>1, <2>1 DEF IInv, TypeOK, cacheVars, runVars
  <1>3. Begins({s}, leased)
    BY <1>1 DEF Begins, runVars, IInv, TypeOK
  <1>4. CleanupOwnsResources' /\ CleanupUnleased' /\ UsedPresent'
    BY <1>1, <1>3, BeginsKeeps DEF IInv, TypeOK
  <1>5. \A t \in Slots : /\ Retired(t)' <=> Retired(t)
                         /\ cleanup[t] = "done" => cleanup'[t] = "done"
    BY <1>1 DEF Retired, IInv, TypeOK
  <1>6. RunsPlaced' /\ FormerRetired' /\ DisposalDrained'
    BY <1>1, <1>5 DEF IInv, RunsPlaced, FormerRetired, DisposalDrained, runVars
  <1>. QED BY <1>2, <1>4, <1>6 DEF IInv

LEMMA EndCleanupIInv ==
    ASSUME IInv, NEW s \in Slots, EndCleanup(s)
    PROVE  IInv'
  <1>1. /\ UNCHANGED <<disposal, current, cacheVars, resource, runVars>>
        /\ cleanup[s] = "disposing"
        /\ \A k \in Keys : resource[s][k] \notin {"doomed", "disposing"}
        /\ cleanup' = [cleanup EXCEPT ![s] = "done"]
    BY DEF EndCleanup
  <1>2. TypeOK'
    BY <1>1 DEF IInv, TypeOK, cacheVars, runVars
  <1>3. \A t \in Slots : /\ Retired(t)' <=> Retired(t)
                         /\ t # s => cleanup'[t] = cleanup[t]
                         /\ cleanup'[s] = "done"
    BY <1>1 DEF Retired, IInv, TypeOK
  <1>4. CleanupOwnsResources' /\ CleanupUnleased' /\ UsedPresent'
    BY <1>1, <1>3 DEF IInv, CleanupOwnsResources, CleanupUnleased, UsedPresent, Unleased, runVars
  <1>5. RunsPlaced' /\ FormerRetired' /\ DisposalDrained'
    BY <1>1, <1>3 DEF IInv, RunsPlaced, FormerRetired, DisposalDrained, runVars
  <1>. QED BY <1>2, <1>4, <1>5 DEF IInv

LEMMA EndDisposeIInv ==
    ASSUME IInv, EndDispose
    PROVE  IInv'
  <1>1. /\ UNCHANGED <<current, cleanup, cacheVars, resource, runVars>>
        /\ disposal = "waiting" /\ disposal' = "done"
        /\ \A s \in Slots : Retired(s) => cleanup[s] = "done"
    BY DEF EndDispose, Drained
  <1>2. TypeOK'
    BY <1>1 DEF IInv, TypeOK, cacheVars, runVars
  <1>3. RunsPlaced' /\ FormerRetired' /\ DisposalDrained'
    BY <1>1 DEF IInv, RunsPlaced, FormerRetired, DisposalDrained, Retired, runVars
  <1>4. CleanupOwnsResources' /\ CleanupUnleased' /\ UsedPresent'
    BY <1>1 DEF IInv, CleanupOwnsResources, CleanupUnleased, UsedPresent, Unleased, runVars
  <1>. QED BY <1>2, <1>3, <1>4 DEF IInv

-----------------------------------------------------------------------------
(***************************************************************************)
(* Invalidation and disposal.                                              *)
(***************************************************************************)
\* What retiring current slots does to the variables.
LEMMA RetireEffect ==
    ASSUME IInv, NEW P \in SUBSET Passes, NEW L \in SUBSET leased,
           Retire({CurrentSlot(p) : p \in P}, L), leased' = L, slot' = slot, using' = using
    PROVE  /\ \E B \in SUBSET Slots : Begins(B, L)
           /\ \A s \in Slots : /\ Retired(s)' <=> Retired(s) \/ \E p \in P : s = CurrentSlot(p)
                               /\ Retired(s) => cleanup'[s] = cleanup[s]
           /\ cleanup' \in [Slots -> {"no", "waiting", "disposing", "done"}]
           /\ resource' \in [Slots -> [Keys -> {"none", "creating", "live", "doomed", "disposing"}]]
           /\ cached' \in SUBSET Runs /\ completed' \in SUBSET Runs
           /\ latest' \in [Slots -> Runs \cup {NoRun}]
  <1>. DEFINE S == {CurrentSlot(p) : p \in P}
              new == {s \in S : ~Retired(s)}
              free == {s \in new : Unleased(s, L)}
  <1>1. S \subseteq Slots
    BY CurrentIsSlot DEF IInv
  <1>2. /\ cleanup' = [s \in Slots |-> IF s \in free THEN "disposing"
                                      ELSE IF s \in new THEN "waiting" ELSE cleanup[s]]
        /\ resource' = [s \in Slots |-> IF s \in free
                                       THEN [k \in Keys |-> Doomed(resource[s][k])]
                                       ELSE resource[s]]
        /\ cached' \subseteq cached /\ completed' \subseteq completed
        /\ latest' = [s \in Slots |-> IF s \in S THEN NoRun ELSE latest[s]]
    BY DEF Retire
  <1>3. free \in SUBSET Slots
    BY <1>1
  <1>4. Begins(free, L)
    <2>1. \A s \in free : Unleased(s, L) /\ cleanup[s] \in {"no", "waiting"} /\ cleanup'[s] = "disposing"
      BY <1>2, <1>3 DEF Retired
    <2>2. \A s \in Slots \ free : \/ cleanup'[s] = cleanup[s]
                                  \/ cleanup[s] = "no" /\ cleanup'[s] = "waiting"
      BY <1>2 DEF Retired
    <2>. HIDE DEF free
    <2>. QED BY <1>2, <2>1, <2>2 DEF Begins
  <1>5. \A s \in Slots : /\ Retired(s)' <=> Retired(s) \/ \E p \in P : s = CurrentSlot(p)
                         /\ Retired(s) => cleanup'[s] = cleanup[s]
    <2>. SUFFICES ASSUME NEW s \in Slots
                  PROVE  /\ cleanup'[s] # "no" <=> cleanup[s] # "no" \/ s \in S
                         /\ cleanup[s] # "no" => cleanup'[s] = cleanup[s]
      BY DEF Retired
    <2>1. s \in new <=> s \in S /\ cleanup[s] = "no"
      BY DEF Retired
    <2>2. s \in free => s \in new
      OBVIOUS
    <2>. HIDE DEF new, free, S
    <2>. QED BY <1>2, <2>1, <2>2
  <1>6. cleanup' \in [Slots -> {"no", "waiting", "disposing", "done"}]
    BY <1>2 DEF IInv, TypeOK
  <1>7. resource' \in [Slots -> [Keys -> {"none", "creating", "live", "doomed", "disposing"}]]
    <2>1. \A s \in Slots : [k \in Keys |-> Doomed(resource[s][k])]
              \in [Keys -> {"none", "creating", "live", "doomed", "disposing"}]
      BY DEF Doomed, IInv, TypeOK
    <2>. HIDE DEF free
    <2>. QED BY <1>2, <2>1 DEF IInv, TypeOK
  <1>8. /\ cached' \in SUBSET Runs /\ completed' \in SUBSET Runs
        /\ latest' \in [Slots -> Runs \cup {NoRun}]
    BY <1>2 DEF IInv, TypeOK
  <1>. QED BY <1>3, <1>4, <1>5, <1>6, <1>7, <1>8

\* The four ways to replace generations have this in common.
LEMMA ReplaceIInv ==
    ASSUME IInv, NEW P \in SUBSET Passes, NEW L \in SUBSET leased, Replace(P, L),
           leased' = L, UNCHANGED <<disposal, slot, key, using, sources>>,
           pc' \in [Runs -> {"new", "hit", "working", "awaiting", "settled", "failed", "done"}],
           \A e \in Runs : pc'[e] \in {"new", "hit"} <=> pc[e] \in {"new", "hit"},
           awaited' \in [Runs -> SUBSET Slots]
    PROVE  IInv'
  <1>1. /\ disposal = "no" => \A p \in P : current[p] < MaxGenerations
        /\ current' = IF disposal = "no"
                      THEN [p \in Passes |-> IF p \in P THEN current[p] + 1 ELSE current[p]]
                      ELSE current
        /\ Retire({CurrentSlot(p) : p \in P}, L)
    BY DEF Replace
  <1>2. /\ \E B \in SUBSET Slots : Begins(B, L)
        /\ \A s \in Slots : /\ Retired(s)' <=> Retired(s) \/ \E p \in P : s = CurrentSlot(p)
                            /\ Retired(s) => cleanup'[s] = cleanup[s]
        /\ cleanup' \in [Slots -> {"no", "waiting", "disposing", "done"}]
        /\ resource' \in [Slots -> [Keys -> {"none", "creating", "live", "doomed", "disposing"}]]
        /\ cached' \in SUBSET Runs /\ completed' \in SUBSET Runs
        /\ latest' \in [Slots -> Runs \cup {NoRun}]
    BY <1>1, RetireEffect
  <1>3. /\ current' \in [Passes -> 1 .. MaxGenerations]
        /\ current' \in [Passes -> Nat]
        /\ \A p \in Passes : current'[p] >= current[p]
    BY <1>1, GenerationsAssumption DEF IInv, TypeOK
  <1>4. TypeOK'
    BY <1>2, <1>3 DEF IInv, TypeOK
  <1>5. RunsPlaced'
    <2>1. \A e \in Runs : slot[e] \in Slots => slot[e][1] \in Passes /\ slot[e][2] \in Nat
      BY DEF Slots
    <2>2. \A p \in Passes : current[p] \in Nat /\ current'[p] \in Nat
      BY <1>3 DEF IInv, TypeOK
    <2>3. \A e \in Runs : slot[e] \in Slots /\ slot[e][2] <= current[slot[e][1]]
                              => slot[e][2] <= current'[slot[e][1]]
      BY <1>3, <2>1, <2>2
    <2>. QED BY <2>3 DEF IInv, RunsPlaced
  <1>6. CleanupOwnsResources' /\ CleanupUnleased' /\ UsedPresent'
    BY <1>2, <1>3, BeginsKeeps
  <1>7. FormerRetired'
    <2>. SUFFICES ASSUME NEW s \in Slots
                  PROVE  Retired(s)' <=> \/ s[2] < current'[s[1]]
                                         \/ s[2] = current'[s[1]] /\ disposal # "no"
      BY DEF FormerRetired
    <2>1. s[1] \in Passes /\ s[2] \in Nat /\ current[s[1]] \in Nat
      BY DEF Slots, IInv, TypeOK
    <2>2. Retired(s) <=> \/ s[2] < current[s[1]]
                         \/ s[2] = current[s[1]] /\ disposal # "no"
      BY DEF IInv, FormerRetired
    <2>3. (\E p \in P : s = CurrentSlot(p)) <=> s[1] \in P /\ s[2] = current[s[1]]
      BY DEF CurrentSlot, Slots
    <2>4. Retired(s)' <=> Retired(s) \/ (s[1] \in P /\ s[2] = current[s[1]])
      BY <1>2, <2>3
    <2>5. current'[s[1]] = IF disposal = "no" /\ s[1] \in P
                           THEN current[s[1]] + 1 ELSE current[s[1]]
      BY <1>1, <2>1
    <2>. QED BY <2>1, <2>2, <2>4, <2>5
  <1>8. DisposalDrained'
    <2>. SUFFICES ASSUME disposal = "done", NEW s \in Slots, cleanup'[s] # "no"
                  PROVE  cleanup'[s] = "done"
      BY DEF DisposalDrained, Retired
    <2>1. current' = current
      BY <1>1
    <2>2. Retired(s)
      BY <1>7, <2>1 DEF IInv, FormerRetired, Retired
    <2>. QED BY <1>2, <2>2 DEF IInv, DisposalDrained
  <1>. QED BY <1>4, <1>5, <1>6, <1>7, <1>8 DEF IInv

LEMMA InvalidatePassIInv ==
    ASSUME IInv, NEW p \in Passes, InvalidatePass(p)
    PROVE  IInv'
  BY ReplaceIInv DEF InvalidatePass, runVars, IInv, TypeOK

LEMMA InvalidateSourceIInv ==
    ASSUME IInv, NEW k \in Keys, InvalidateSource(k)
    PROVE  IInv'
  <1>1. Matching(k) \in SUBSET Passes
    BY DEF Matching
  <1>. QED BY <1>1, ReplaceIInv DEF InvalidateSource, runVars, IInv, TypeOK

\* Awaiting cleanups starts no run.
LEMMA MayAwaitEffect ==
    ASSUME IInv, NEW e \in Runs, pc[e] = "working", NEW S \in SUBSET Slots, MayAwait(e, S)
    PROVE  /\ pc' \in [Runs -> {"new", "hit", "working", "awaiting", "settled", "failed", "done"}]
           /\ \A f \in Runs : pc'[f] \in {"new", "hit"} <=> pc[f] \in {"new", "hit"}
           /\ awaited' \in [Runs -> SUBSET Slots]
  <1>1. CASE UNCHANGED <<pc, awaited>>
    BY <1>1 DEF IInv, TypeOK
  <1>2. CASE pc' = [pc EXCEPT ![e] = "awaiting"] /\ awaited' = [awaited EXCEPT ![e] = S]
    BY <1>2 DEF IInv, TypeOK
  <1>. QED BY <1>1, <1>2 DEF MayAwait

LEMMA InvalidateOwnPassIInv ==
    ASSUME IInv, NEW e \in Runs, InvalidateOwnPass(e)
    PROVE  IInv'
  <1>1. {slot[e]} \in SUBSET Slots
    BY DEF InvalidateOwnPass, IInv, RunsPlaced
  <1>2. /\ pc' \in [Runs -> {"new", "hit", "working", "awaiting", "settled", "failed", "done"}]
        /\ \A f \in Runs : pc'[f] \in {"new", "hit"} <=> pc[f] \in {"new", "hit"}
        /\ awaited' \in [Runs -> SUBSET Slots]
    BY <1>1, MayAwaitEffect DEF InvalidateOwnPass
  <1>3. {p \in Passes : CurrentSlot(p) = slot[e]} \in SUBSET Passes
    OBVIOUS
  <1>. QED BY <1>2, <1>3, ReplaceIInv DEF InvalidateOwnPass

LEMMA InvalidateSourceInsideIInv ==
    ASSUME IInv, NEW e \in Runs, NEW k \in Keys, InvalidateSourceInside(e, k)
    PROVE  IInv'
  <1>1. PICK L \in SUBSET leased :
            /\ leased' = L
            /\ Replace(Matching(k), L)
    BY DEF InvalidateSourceInside
  <1>2. PICK S \in SUBSET Slots : MayAwait(e, S)
    <2>1. slot[e] \in Slots
      BY DEF InvalidateSourceInside, IInv, RunsPlaced
    <2>2. {CurrentSlot(p) : p \in Matching(k)} \subseteq Slots
      BY CurrentIsSlot DEF IInv, Matching
    <2>. DEFINE former == {slot[e]} \ {CurrentSlot(p) : p \in Passes}
                S == {CurrentSlot(p) : p \in Matching(k)}
                       \cup (IF InvalidatesOwn(e, k) THEN former ELSE {})
    <2>3. MayAwait(e, S)
      BY DEF InvalidateSourceInside
    <2>4. S \in SUBSET Slots
      BY <2>1, <2>2
    <2>. HIDE DEF S
    <2>. QED BY <2>3, <2>4
  <1>3. /\ pc' \in [Runs -> {"new", "hit", "working", "awaiting", "settled", "failed", "done"}]
        /\ \A f \in Runs : pc'[f] \in {"new", "hit"} <=> pc[f] \in {"new", "hit"}
        /\ awaited' \in [Runs -> SUBSET Slots]
    BY <1>2, MayAwaitEffect DEF InvalidateSourceInside
  <1>4. Matching(k) \in SUBSET Passes
    BY DEF Matching
  <1>5. UNCHANGED <<disposal, slot, key, using, sources>>
    BY DEF InvalidateSourceInside
  <1>. QED BY <1>1, <1>3, <1>4, <1>5, ReplaceIInv

LEMMA DisposeIInv ==
    ASSUME IInv, Dispose
    PROVE  IInv'
  <1>1. /\ disposal = "no" /\ disposal' = "waiting"
        /\ Retire({CurrentSlot(p) : p \in Passes}, leased)
        /\ UNCHANGED <<current, runVars>>
    BY DEF Dispose
  <1>2. /\ \E B \in SUBSET Slots : Begins(B, leased)
        /\ \A s \in Slots : Retired(s)' <=> Retired(s) \/ \E p \in Passes : s = CurrentSlot(p)
        /\ cleanup' \in [Slots -> {"no", "waiting", "disposing", "done"}]
        /\ resource' \in [Slots -> [Keys -> {"none", "creating", "live", "doomed", "disposing"}]]
        /\ cached' \in SUBSET Runs /\ completed' \in SUBSET Runs
        /\ latest' \in [Slots -> Runs \cup {NoRun}]
    BY <1>1, RetireEffect DEF runVars
  <1>3. TypeOK'
    BY <1>1, <1>2 DEF IInv, TypeOK, runVars
  <1>4. RunsPlaced' /\ DisposalDrained'
    BY <1>1 DEF IInv, RunsPlaced, DisposalDrained, runVars
  <1>5. CleanupOwnsResources' /\ CleanupUnleased' /\ UsedPresent'
    <2>1. current' \in [Passes -> Nat] /\ \A p \in Passes : current'[p] >= current[p]
      BY <1>1 DEF IInv, TypeOK
    <2>. QED BY <1>2, <2>1, BeginsKeeps
  <1>6. FormerRetired'
    <2>. SUFFICES ASSUME NEW s \in Slots
                  PROVE  Retired(s)' <=> s[2] < current[s[1]] \/ s[2] = current[s[1]]
      BY <1>1 DEF FormerRetired
    <2>1. Retired(s) <=> s[2] < current[s[1]]
      BY <1>1 DEF IInv, FormerRetired
    <2>2. (\E p \in Passes : s = CurrentSlot(p)) <=> s[2] = current[s[1]]
      BY DEF CurrentSlot, Slots
    <2>. QED BY <1>2, <2>1, <2>2
  <1>. QED BY <1>3, <1>4, <1>5, <1>6 DEF IInv

-----------------------------------------------------------------------------
\* Every step keeps the invariant.
LEMMA NextIInv == IInv /\ [Next]_vars => IInv'
  <1>. SUFFICES ASSUME IInv, [Next]_vars PROVE IInv'
    OBVIOUS
  <1>1. CASE \E e \in Runs : Run(e)
    <2>. PICK e \in Runs : Run(e)
      BY <1>1
    <2>. QED BY RunHitIInv, RunMissIInv, GetOrCreateResourceIInv, InvalidateSourceInsideIInv,
                InvalidateOwnPassIInv, SettleIInv, ReleaseIInv, ResumeIInv DEF Run, Work
  <1>2. CASE \E s \in Slots : Slot(s)
    BY <1>2, StartCleanupIInv, EndCleanupIInv, CreatedIInv, CreateFailsIInv, DisposedIInv
       DEF Slot, Answer
  <1>3. CASE \E p \in Passes : InvalidatePass(p)
    BY <1>3, InvalidatePassIInv
  <1>4. CASE \E k \in Keys : InvalidateSource(k)
    BY <1>4, InvalidateSourceIInv
  <1>5. CASE Dispose
    BY <1>5, DisposeIInv
  <1>6. CASE EndDispose
    BY <1>6, EndDisposeIInv
  <1>7. CASE UNCHANGED vars
    <2>1. TypeOK'
      BY <1>7 DEF vars, cacheVars, runVars, IInv, TypeOK
    <2>2. UNCHANGED coreVars /\ pc' = pc
      BY <1>7 DEF vars, runVars, coreVars
    <2>. QED BY <2>1, <2>2, CacheStep
  <1>. QED BY <1>1, <1>2, <1>3, <1>4, <1>5, <1>6, <1>7 DEF Next

\* The inductive invariant of the renderer pipeline runtime.
THEOREM Invariance == Spec => []IInv
  <1>1. Init => IInv
    BY InitIInv
  <1>2. IInv /\ [Next]_vars => IInv'
    BY NextIInv
  <1>. QED BY <1>1, <1>2, PTL DEF Spec

\* Every variable of the pipeline keeps its type.
THEOREM TypeCorrect == Spec => []TypeOK
  <1>1. IInv => TypeOK
    BY DEF IInv
  <1>. QED BY <1>1, Invariance, PTL

\* executionLeases: no resource is disposed of that leased work has asked for.
THEOREM LeasesProtect == Spec => []LeasedResourcesLive
  <1>1. IInv => LeasedResourcesLive
    <2>. SUFFICES ASSUME IInv, NEW e \in leased, NEW r \in using[e]
                  PROVE  resource[slot[e]][r] \in {"creating", "live"}
      BY DEF LeasedResourcesLive
    <2>1. e \in Runs /\ slot[e] \in Slots /\ r \in Keys
      BY DEF IInv, TypeOK, RunsPlaced
    <2>2. resource[slot[e]][r] \in {"none", "creating", "live", "doomed", "disposing"}
      BY <2>1 DEF IInv, TypeOK
    <2>3. cleanup[slot[e]] # "disposing"
      BY <2>1 DEF IInv, CleanupUnleased, Unleased
    <2>. QED BY <2>1, <2>2, <2>3 DEF IInv, UsedPresent, CleanupOwnsResources
  <1>. QED BY <1>1, Invariance, PTL

\* dispose: when it has ended, no generation keeps a resource.
THEOREM DisposalDisposes == Spec => []DisposedLeavesNothing
  <1>1. IInv => DisposedLeavesNothing
    <2>. SUFFICES ASSUME IInv, disposal = "done", NEW s \in Slots, NEW r \in Keys
                  PROVE  resource[s][r] = "none"
      BY DEF DisposedLeavesNothing
    <2>1. resource[s][r] \in {"none", "creating", "live", "doomed", "disposing"}
      BY DEF IInv, TypeOK
    <2>2. s[1] \in Passes /\ s[2] \in Nat /\ current[s[1]] \in Nat
      BY DEF Slots, IInv, TypeOK
    <2>3. CASE s[2] > current[s[1]]
      BY <2>3 DEF IInv, CleanupOwnsResources
    <2>4. CASE Retired(s)
      BY <2>1, <2>4 DEF IInv, DisposalDrained, CleanupOwnsResources
    <2>. QED BY <2>2, <2>3, <2>4 DEF IInv, FormerRetired
  <1>. QED BY <1>1, Invariance, PTL

-----------------------------------------------------------------------------
(***************************************************************************)
(* The cache.  An entry is pending while its run works and completed       *)
(* afterwards; it is in a slot that is not retired.                        *)
(***************************************************************************)
EntriesOfRuns ==
    /\ completed \subseteq cached
    /\ \A e \in cached : ~Retired(slot[e])
    /\ \A e \in cached \ completed : pc[e] \in {"working", "awaiting"}
    /\ \A e \in completed : pc[e] \in {"settled", "done"}

OneCompleted == \A e, f \in completed : slot[e] = slot[f] => e = f

LatestIsEntry == \A s \in Slots : latest[s] # NoRun => latest[s] \in Entries(s)

CInv == EntriesOfRuns /\ OneCompleted /\ LatestIsEntry

LEMMA CInvRetainsLatest == CInv => RetainsLatest
  BY DEF CInv, EntriesOfRuns, OneCompleted, LatestIsEntry, RetainsLatest

LEMMA InitCInv == Init => CInv
  BY DEF Init, CInv, EntriesOfRuns, OneCompleted, LatestIsEntry

\* A step that leaves cache and slots alone and settles nothing keeps CInv.
LEMMA QuietStep ==
    ASSUME CInv, UNCHANGED <<cacheVars, slot>>,
           \A s \in Slots : Retired(s)' <=> Retired(s),
           \A e \in cached : slot[e] \in Slots,
           \A e \in cached : \/ pc'[e] = pc[e]
                             \/ pc[e] \in {"working", "awaiting"} /\ pc'[e] \in {"working", "awaiting"}
                             \/ pc[e] \in {"settled", "done"} /\ pc'[e] \in {"settled", "done"}
    PROVE  CInv'
  <1>1. UNCHANGED <<cached, completed, latest, slot>>
    BY DEF cacheVars
  <1>2. EntriesOfRuns'
    BY <1>1 DEF CInv, EntriesOfRuns
  <1>3. OneCompleted' /\ LatestIsEntry'
    BY <1>1 DEF CInv, OneCompleted, LatestIsEntry, Entries
  <1>. QED BY <1>2, <1>3 DEF CInv

\* Cached entries are runs that have started.
LEMMA CachedPlaced ==
    ASSUME IInv, CInv
    PROVE  \A e \in cached : e \in Runs /\ slot[e] \in Slots /\ pc[e] \notin {"new", "hit", "failed"}
  <1>1. \A e \in cached : e \in Runs /\ pc[e] \in {"working", "awaiting", "settled", "done"}
    BY DEF IInv, TypeOK, CInv, EntriesOfRuns
  <1>. QED BY <1>1 DEF IInv, RunsPlaced

LEMMA RunHitCInv ==
    ASSUME IInv, CInv, NEW e \in Runs, NEW p \in Passes, NEW k \in Keys, RunHit(e, p, k)
    PROVE  CInv'
  <1>. DEFINE s0 == CurrentSlot(p)
  <1>1. PICK f \in Entries(s0) :
            /\ latest' = [latest EXCEPT ![s0] = f]
            /\ cached' = cached \ (IF f \in completed THEN Evicted(s0, f) ELSE {})
            /\ completed' = completed \ (IF f \in completed THEN Evicted(s0, f) ELSE {})
    BY DEF RunHit
  <1>2. UNCHANGED <<slot, cleanup>> /\ pc' = [pc EXCEPT ![e] = "hit"] /\ pc[e] = "new"
    BY DEF RunHit
  <1>3. s0 \in Slots
    BY CurrentIsSlot DEF IInv
  <1>4. f \in cached /\ slot[f] = s0 /\ e \notin cached
    BY <1>2, CachedPlaced DEF Entries
  <1>5. /\ \A g \in cached : g \in cached' <=> ~(f \in completed /\ g \in completed /\ slot[g] = s0 /\ g # f)
        /\ cached' \subseteq cached
        /\ completed' = completed \cap cached'
    BY <1>1 DEF Evicted, Entries, CInv, EntriesOfRuns
  <1>6. EntriesOfRuns'
    BY <1>2, <1>4, <1>5, CachedPlaced DEF CInv, EntriesOfRuns, Retired, IInv, TypeOK
  <1>7. OneCompleted'
    BY <1>2, <1>5 DEF CInv, OneCompleted
  <1>8. LatestIsEntry'
    <2>. SUFFICES ASSUME NEW s \in Slots, latest'[s] # NoRun
                  PROVE  latest'[s] \in cached' /\ slot[latest'[s]] = s
      BY <1>2 DEF LatestIsEntry, Entries
    <2>1. CASE s = s0
      BY <2>1, <1>1, <1>3, <1>4, <1>5 DEF IInv, TypeOK
    <2>2. CASE s # s0
      <3>1. latest'[s] = latest[s]
        BY <2>2, <1>1 DEF IInv, TypeOK
      <3>2. latest[s] \in cached /\ slot[latest[s]] = s
        BY <3>1 DEF CInv, LatestIsEntry, Entries
      <3>. QED BY <2>2, <3>1, <3>2, <1>5
    <2>. QED BY <2>1, <2>2
  <1>. QED BY <1>6, <1>7, <1>8 DEF CInv

LEMMA RunMissCInv ==
    ASSUME IInv, CInv, NEW e \in Runs, NEW p \in Passes, NEW k \in Keys, RunMiss(e, p, k)
    PROVE  CInv'
  <1>. DEFINE s0 == CurrentSlot(p)
  <1>1. s0 \in Slots /\ ~Retired(s0)
    <2>1. s0 \in Slots /\ s0[1] = p /\ s0[2] = current[p] /\ current[p] \in Nat
      BY CurrentIsSlot DEF IInv, TypeOK
    <2>. QED BY <2>1 DEF RunMiss, IInv, FormerRetired
  <1>2. /\ pc[e] = "new"
        /\ pc' = [pc EXCEPT ![e] = "working"]
        /\ slot' = [slot EXCEPT ![e] = s0]
        /\ UNCHANGED <<cleanup, completed>>
    BY DEF RunMiss
  <1>3. e \notin cached /\ e \notin completed
    BY <1>2, CachedPlaced DEF CInv, EntriesOfRuns
  <1>4. \A f \in cached : f # e /\ f \in Runs /\ slot'[f] = slot[f] /\ pc'[f] = pc[f]
    BY <1>2, <1>3, CachedPlaced DEF IInv, TypeOK
  <1>5. slot'[e] = s0 /\ pc'[e] = "working"
    BY <1>2 DEF IInv, TypeOK
  <1>6. \/ cached' = cached \cup {e} /\ latest' = [latest EXCEPT ![s0] = e]
        \/ cached' = cached /\ latest' = latest
    BY DEF RunMiss
  <1>7. EntriesOfRuns'
    BY <1>1, <1>2, <1>3, <1>4, <1>5, <1>6 DEF CInv, EntriesOfRuns, Retired
  <1>8. OneCompleted'
    BY <1>2, <1>4 DEF CInv, OneCompleted, EntriesOfRuns
  <1>9. LatestIsEntry'
    <2>. SUFFICES ASSUME NEW s \in Slots, latest'[s] # NoRun
                  PROVE  latest'[s] \in cached' /\ slot'[latest'[s]] = s
      BY DEF LatestIsEntry, Entries
    <2>1. CASE latest'[s] = latest[s]
      BY <2>1, <1>4, <1>6 DEF CInv, LatestIsEntry, Entries
    <2>2. CASE latest'[s] # latest[s]
      BY <2>2, <1>5, <1>6, <1>1 DEF IInv, TypeOK
    <2>. QED BY <2>1, <2>2
  <1>. QED BY <1>7, <1>8, <1>9 DEF CInv

LEMMA SucceedCInv ==
    ASSUME IInv, CInv, NEW e \in Runs, Succeed(e)
    PROVE  CInv'
  <1>1. /\ pc[e] = "working" /\ pc' = [pc EXCEPT ![e] = "settled"]
        /\ UNCHANGED <<slot, cleanup>>
        /\ CompleteEntry(e)
    BY DEF Succeed
  <1>2. e \notin completed /\ slot[e] \in Slots
    BY <1>1 DEF CInv, EntriesOfRuns, IInv, RunsPlaced
  <1>3. \A f \in Runs : pc'[f] = IF f = e THEN "settled" ELSE pc[f]
    BY <1>1 DEF IInv, TypeOK
  <1>4. cached \subseteq Runs
    BY DEF IInv, TypeOK
  <1>5. CASE latest[slot[e]] = e
    <2>1. /\ cached' = cached \ Evicted(slot[e], e)
          /\ completed' = (completed \ Evicted(slot[e], e)) \cup {e}
          /\ latest' = latest
      BY <1>1, <1>5 DEF CompleteEntry
    <2>2. e \in cached
      BY <1>2, <1>5, SentinelAssumption DEF CInv, LatestIsEntry, Entries
    <2>3. \A f \in cached : f \in Evicted(slot[e], e) <=> slot[f] = slot[e] /\ f \in completed /\ f # e
      BY DEF Evicted, Entries
    <2>4. EntriesOfRuns'
      BY <1>1, <1>2, <1>3, <1>4, <2>1, <2>2, <2>3 DEF CInv, EntriesOfRuns, Retired
    <2>5. OneCompleted'
      BY <1>1, <2>1, <2>2, <2>3 DEF CInv, OneCompleted, EntriesOfRuns
    <2>6. LatestIsEntry'
      <3>. SUFFICES ASSUME NEW s \in Slots, latest[s] # NoRun
                    PROVE  latest[s] \in cached' /\ slot[latest[s]] = s
        BY <1>1, <2>1 DEF LatestIsEntry, Entries
      <3>1. latest[s] \in cached /\ slot[latest[s]] = s
        BY DEF CInv, LatestIsEntry, Entries
      <3>. QED BY <3>1, <2>1, <2>3, <1>5
    <2>. QED BY <2>4, <2>5, <2>6 DEF CInv
  <1>6. CASE latest[slot[e]] # e
    <2>1. cached' = cached \ {e} /\ completed' = completed /\ latest' = latest
      BY <1>1, <1>6 DEF CompleteEntry
    <2>2. EntriesOfRuns'
      BY <1>1, <1>2, <1>3, <1>4, <2>1 DEF CInv, EntriesOfRuns, Retired
    <2>3. OneCompleted'
      BY <1>1, <2>1 DEF CInv, OneCompleted
    <2>4. LatestIsEntry'
      BY <1>1, <1>6, <2>1 DEF CInv, LatestIsEntry, Entries
    <2>. QED BY <2>2, <2>3, <2>4 DEF CInv
  <1>. QED BY <1>5, <1>6

LEMMA FailCInv ==
    ASSUME IInv, CInv, NEW e \in Runs, Fail(e)
    PROVE  CInv'
  <1>1. /\ pc[e] = "working" /\ pc' = [pc EXCEPT ![e] = "failed"]
        /\ UNCHANGED <<slot, cleanup, completed>>
        /\ cached' = cached \ {e}
        /\ latest' = [s \in Slots |-> IF latest[s] = e THEN NoRun ELSE latest[s]]
    BY DEF Fail, RejectEntry
  <1>2. e \notin completed
    BY <1>1 DEF CInv, EntriesOfRuns
  <1>3. \A f \in cached' : pc'[f] = pc[f]
    BY <1>1 DEF IInv, TypeOK
  <1>4. EntriesOfRuns'
    BY <1>1, <1>2, <1>3 DEF CInv, EntriesOfRuns, Retired
  <1>5. OneCompleted'
    BY <1>1 DEF CInv, OneCompleted
  <1>6. LatestIsEntry'
    BY <1>1 DEF CInv, LatestIsEntry, Entries
  <1>. QED BY <1>4, <1>5, <1>6 DEF CInv

\* Retiring slots removes their entries and no others.
LEMMA RetireCInv ==
    ASSUME IInv, CInv, NEW P \in SUBSET Passes, NEW L \in SUBSET leased,
           Retire({CurrentSlot(p) : p \in P}, L), leased' = L, slot' = slot, using' = using,
           \A e \in cached : \/ pc'[e] = pc[e]
                             \/ pc[e] = "working" /\ pc'[e] = "awaiting"
    PROVE  CInv'
  <1>. DEFINE S == {CurrentSlot(p) : p \in P}
  <1>1. \A s \in Slots : Retired(s)' <=> Retired(s) \/ s \in S
    BY RetireEffect
  <1>2. /\ cached' = cached \ UNION {Entries(s) : s \in S}
        /\ completed' = completed \ UNION {Entries(s) : s \in S}
        /\ latest' = [s \in Slots |-> IF s \in S THEN NoRun ELSE latest[s]]
    BY DEF Retire
  <1>3. \A e \in cached : e \in UNION {Entries(s) : s \in S} <=> slot[e] \in S
    BY DEF Entries
  <1>4. /\ \A e \in cached : e \in cached' <=> slot[e] \notin S
        /\ cached' \subseteq cached
        /\ completed' = completed \cap cached'
    BY <1>2, <1>3 DEF CInv, EntriesOfRuns
  <1>. HIDE DEF S
  <1>5. EntriesOfRuns'
    BY <1>1, <1>4, CachedPlaced DEF CInv, EntriesOfRuns
  <1>6. OneCompleted'
    BY <1>4 DEF CInv, OneCompleted
  <1>7. LatestIsEntry'
    <2>. SUFFICES ASSUME NEW s \in Slots, latest'[s] # NoRun
                  PROVE  latest'[s] \in cached' /\ slot[latest'[s]] = s
      BY DEF LatestIsEntry, Entries
    <2>1. s \notin S /\ latest'[s] = latest[s]
      BY <1>2
    <2>2. latest[s] \in cached /\ slot[latest[s]] = s
      BY <2>1 DEF CInv, LatestIsEntry, Entries
    <2>. QED BY <2>1, <2>2, <1>4
  <1>. QED BY <1>5, <1>6, <1>7 DEF CInv

LEMMA InvalidationCInv ==
    ASSUME IInv, CInv,
           \/ \E p \in Passes : InvalidatePass(p)
           \/ \E k \in Keys : InvalidateSource(k)
           \/ Dispose
    PROVE  CInv'
  <1>1. PICK P \in SUBSET Passes : Retire({CurrentSlot(p) : p \in P}, leased)
    <2>1. CASE \E p \in Passes : InvalidatePass(p)
      BY <2>1 DEF InvalidatePass, Replace
    <2>2. CASE \E k \in Keys : InvalidateSource(k)
      <3>1. PICK k \in Keys : Retire({CurrentSlot(p) : p \in Matching(k)}, leased)
        BY <2>2 DEF InvalidateSource, Replace
      <3>2. Matching(k) \in SUBSET Passes
        BY DEF Matching
      <3>. QED BY <3>1, <3>2
    <2>3. CASE Dispose
      BY <2>3 DEF Dispose
    <2>. QED BY <2>1, <2>2, <2>3
  <1>2. UNCHANGED <<leased, slot, using, pc>>
    BY DEF InvalidatePass, InvalidateSource, Dispose, runVars
  <1>. QED BY <1>1, <1>2, RetireCInv

LEMMA InvalidationInsideCInv ==
    ASSUME IInv, CInv, NEW e \in Runs,
           InvalidateOwnPass(e) \/ \E k \in Keys : InvalidateSourceInside(e, k)
    PROVE  CInv'
  <1>1. PICK P \in SUBSET Passes, L \in SUBSET leased :
            Retire({CurrentSlot(p) : p \in P}, L) /\ leased' = L
    <2>1. CASE InvalidateOwnPass(e)
      <3>1. {p \in Passes : CurrentSlot(p) = slot[e]} \in SUBSET Passes
        OBVIOUS
      <3>. QED BY <2>1, <3>1 DEF InvalidateOwnPass, Replace
    <2>2. CASE \E k \in Keys : InvalidateSourceInside(e, k)
      <3>1. PICK k \in Keys : InvalidateSourceInside(e, k)
        BY <2>2
      <3>2. PICK L \in SUBSET leased : leased' = L /\ Replace(Matching(k), L)
        BY <3>1 DEF InvalidateSourceInside
      <3>3. Matching(k) \in SUBSET Passes
        BY DEF Matching
      <3>. QED BY <3>2, <3>3 DEF Replace
    <2>. QED BY <2>1, <2>2
  <1>2. UNCHANGED <<slot, using>> /\ pc[e] = "working"
    BY DEF InvalidateOwnPass, InvalidateSourceInside
  <1>3. \A f \in cached : \/ pc'[f] = pc[f]
                          \/ pc[f] = "working" /\ pc'[f] = "awaiting"
    <2>1. pc' = pc \/ pc' = [pc EXCEPT ![e] = "awaiting"]
      BY DEF InvalidateOwnPass, InvalidateSourceInside, MayAwait
    <2>. QED BY <2>1, <1>2, CachedPlaced DEF IInv, TypeOK
  <1>. QED BY <1>1, <1>2, <1>3, RetireCInv

LEMMA NextCInv == IInv /\ CInv /\ [Next]_vars => CInv'
  <1>. SUFFICES ASSUME IInv, CInv, [Next]_vars PROVE CInv'
    OBVIOUS
  <1>1. CASE \E e \in Runs, p \in Passes, k \in Keys : RunHit(e, p, k) \/ RunMiss(e, p, k)
    BY <1>1, RunHitCInv, RunMissCInv
  <1>2. CASE \E e \in Runs : Settle(e)
    BY <1>2, SucceedCInv, FailCInv DEF Settle
  <1>3. CASE \E e \in Runs : InvalidateOwnPass(e) \/ \E k \in Keys : InvalidateSourceInside(e, k)
    BY <1>3, InvalidationInsideCInv
  <1>4. CASE \/ \E p \in Passes : InvalidatePass(p)
             \/ \E k \in Keys : InvalidateSource(k)
             \/ Dispose
    BY <1>4, InvalidationCInv
  <1>5. CASE \E e \in Runs : Release(e) \/ Resume(e)
    <2>1. UNCHANGED <<cacheVars, slot, cleanup>>
      BY <1>5 DEF Release, Resume
    <2>2. \A f \in cached : \/ pc'[f] = pc[f]
                            \/ pc[f] \in {"working", "awaiting"} /\ pc'[f] \in {"working", "awaiting"}
                            \/ pc[f] \in {"settled", "done"} /\ pc'[f] \in {"settled", "done"}
      BY <1>5, CachedPlaced DEF Release, Resume, IInv, TypeOK
    <2>. QED BY <2>1, <2>2, QuietStep, CachedPlaced DEF Retired
  <1>6. CASE \/ \E e \in Runs, k \in Keys : GetOrCreateResource(e, k)
             \/ \E s \in Slots, r \in Keys : Answer(s, r)
             \/ EndDispose
             \/ UNCHANGED vars
    <2>1. UNCHANGED <<cacheVars, slot, cleanup, pc>>
      BY <1>6 DEF GetOrCreateResource, Answer, Created, CreateFails, Disposed, EndDispose, vars, runVars
    <2>. QED BY <2>1, QuietStep, CachedPlaced DEF Retired
  <1>7. CASE \E s \in Slots : StartCleanup(s) \/ EndCleanup(s)
    <2>1. UNCHANGED <<cacheVars, slot, pc>>
      BY <1>7 DEF StartCleanup, EndCleanup, runVars
    <2>2. \A s \in Slots : Retired(s)' <=> Retired(s)
      BY <1>7 DEF StartCleanup, EndCleanup, Retired, IInv, TypeOK
    <2>. QED BY <2>1, <2>2, QuietStep, CachedPlaced
  <1>. QED BY <1>1, <1>2, <1>3, <1>4, <1>5, <1>6, <1>7 DEF Next, Run, Work, Slot

\* memoizedCachePolicy: only the latest completed result is retained.
THEOREM LatestRetained == Spec => []RetainsLatest
  <1>1. Init => CInv
    BY InitCInv
  <1>2. IInv /\ CInv /\ [Next]_vars => CInv'
    BY NextCInv
  <1>3. Spec => []CInv
    BY <1>1, <1>2, Invariance, PTL DEF Spec
  <1>. QED BY <1>3, CInvRetainsLatest, PTL

-----------------------------------------------------------------------------
(***************************************************************************)
(* Where a source of running work comes from, as long as its generation is *)
(* not retired: it is the key of the work's own entry, which is pending in *)
(* the cache, or it names a resource that the work has asked for.          *)
(***************************************************************************)
Works(e) == pc[e] \in {"working", "awaiting"} /\ ~Retired(slot[e])

SourcesPlaced(e) ==
    /\ key[e] # NoKey => e \in cached
    /\ \A k \in sources[e] \ {key[e]} : slot[e][1] \in SourceScoped

WorkInv ==
    \A e \in Runs : /\ Works(e) => SourcesPlaced(e)
                    /\ pc[e] = "new" => sources[e] = {} /\ key[e] = NoKey

\* Running work is in the current generation of its pass.
LEMMA WorksInCurrent ==
    ASSUME IInv, NEW e \in Runs, Works(e)
    PROVE  /\ slot[e] \in Slots /\ slot[e][1] \in Passes
           /\ slot[e] = CurrentSlot(slot[e][1])
  <1>1. slot[e] \in Slots /\ slot[e][2] <= current[slot[e][1]]
    BY DEF Works, IInv, RunsPlaced
  <1>2. slot[e][1] \in Passes /\ slot[e][2] \in Nat /\ current[slot[e][1]] \in Nat
    BY <1>1 DEF Slots, IInv, TypeOK
  <1>3. slot[e][2] = current[slot[e][1]]
    BY <1>1, <1>2 DEF Works, IInv, FormerRetired
  <1>. QED BY <1>1, <1>2, <1>3 DEF CurrentSlot, Slots

\* A step that starts no work, keeps the pending entries of what goes on
\* working, and undoes no retirement.
LEMMA WorkGoesOn ==
    ASSUME WorkInv, UNCHANGED <<slot, key, sources>>,
           \A e \in Runs : pc'[e] \in {"new", "working", "awaiting"} =>
               pc[e] = pc'[e] \/ {pc[e], pc'[e]} = {"working", "awaiting"},
           \A e \in Runs : Works(e)' => ~Retired(slot[e]) /\ (e \in cached => e \in cached')
    PROVE  WorkInv'
  <1>. SUFFICES ASSUME NEW e \in Runs
                PROVE  /\ Works(e)' => SourcesPlaced(e)'
                       /\ pc'[e] = "new" => sources'[e] = {} /\ key'[e] = NoKey
    BY DEF WorkInv
  <1>1. ASSUME Works(e)' PROVE SourcesPlaced(e)'
    <2>1. Works(e)
      BY <1>1 DEF Works
    <2>. QED BY <1>1, <2>1 DEF WorkInv, SourcesPlaced
  <1>2. ASSUME pc'[e] = "new" PROVE sources'[e] = {} /\ key'[e] = NoKey
    BY <1>2 DEF WorkInv
  <1>. QED BY <1>1, <1>2

\* A retirement touches no entry of the generations it does not retire.
LEMMA RetireWork ==
    ASSUME IInv, WorkInv, NEW P \in SUBSET Passes, NEW L \in SUBSET leased,
           Retire({CurrentSlot(p) : p \in P}, L), leased' = L,
           UNCHANGED <<slot, using, key, sources>>,
           \A e \in Runs : pc'[e] \in {"new", "working", "awaiting"} =>
               pc[e] = pc'[e] \/ {pc[e], pc'[e]} = {"working", "awaiting"}
    PROVE  WorkInv'
  <1>. DEFINE S == {CurrentSlot(p) : p \in P}
  <1>1. ASSUME NEW e \in Runs, Works(e)'
        PROVE  ~Retired(slot[e]) /\ (e \in cached => e \in cached')
    <2>1. slot[e] \in Slots
      BY <1>1 DEF Works, IInv, RunsPlaced
    <2>2. ~Retired(slot[e]) /\ slot[e] \notin S
      BY <1>1, <2>1, RetireEffect DEF Works
    <2>. QED BY <2>2 DEF Retire, Entries
  <1>. HIDE DEF S
  <1>. QED BY <1>1, WorkGoesOn

LEMMA RunWork ==
    ASSUME IInv, CInv, WorkInv, NEW f \in Runs,
           \/ \E p \in Passes, j \in Keys : RunHit(f, p, j)
           \/ Settle(f) \/ Release(f) \/ Resume(f)
    PROVE  WorkInv'
  <1>1. UNCHANGED <<cleanup, slot, key, sources>>
    BY DEF RunHit, Settle, Succeed, Fail, Release, Resume
  <1>2. \A e \in Runs : pc'[e] \in {"new", "working", "awaiting"} =>
            pc[e] = pc'[e] \/ {pc[e], pc'[e]} = {"working", "awaiting"}
    BY DEF RunHit, Settle, Succeed, Fail, Release, Resume, IInv, TypeOK
  <1>3. \A g \in cached : \/ g \in cached' \/ g \in completed
                          \/ g = f /\ pc'[f] \in {"settled", "failed"}
    BY DEF RunHit, Settle, Succeed, Fail, Release, Resume, CompleteEntry, RejectEntry,
           Evicted, Entries, cacheVars, IInv, TypeOK
  <1>4. ASSUME NEW e \in Runs, Works(e)'
        PROVE  ~Retired(slot[e]) /\ (e \in cached => e \in cached')
    <2>1. pc[e] \in {"working", "awaiting"} /\ ~Retired(slot[e])
      BY <1>1, <1>2, <1>4 DEF Works, Retired
    <2>2. e \notin completed
      BY <2>1 DEF CInv, EntriesOfRuns
    <2>. QED BY <1>3, <1>4, <2>1, <2>2 DEF Works
  <1>. QED BY <1>1, <1>2, <1>4, WorkGoesOn

LEMMA RunMissWork ==
    ASSUME IInv, WorkInv, NEW f \in Runs, NEW p \in Passes, NEW j \in Keys, RunMiss(f, p, j)
    PROVE  WorkInv'
  <1>1. /\ UNCHANGED cleanup
        /\ pc[f] = "new" /\ pc' = [pc EXCEPT ![f] = "working"]
        /\ slot' = [slot EXCEPT ![f] = CurrentSlot(p)]
        /\ \/ /\ key' = [key EXCEPT ![f] = j]
              /\ sources' = [sources EXCEPT ![f] = {j}]
              /\ cached' = cached \cup {f}
           \/ UNCHANGED <<key, sources, cached>>
    BY DEF RunMiss
  <1>2. sources[f] = {} /\ key[f] = NoKey
    BY <1>1 DEF WorkInv
  <1>3. SourcesPlaced(f)' /\ pc'[f] # "new"
    BY <1>1, <1>2 DEF SourcesPlaced, IInv, TypeOK
  <1>4. ASSUME NEW e \in Runs, e # f
        PROVE  /\ Works(e)' => SourcesPlaced(e)'
               /\ pc'[e] = "new" => sources'[e] = {} /\ key'[e] = NoKey
    <2>1. /\ slot'[e] = slot[e] /\ key'[e] = key[e] /\ sources'[e] = sources[e]
          /\ pc'[e] = pc[e] /\ (e \in cached => e \in cached')
      BY <1>1, <1>4 DEF IInv, TypeOK
    <2>2. Works(e)' => Works(e)
      BY <1>1, <2>1 DEF Works, Retired
    <2>. QED BY <2>1, <2>2 DEF WorkInv, SourcesPlaced
  <1>. QED BY <1>3, <1>4 DEF WorkInv

\* Only a source-scoped pass counts the keys of resources as sources.
LEMMA GetOrCreateWork ==
    ASSUME IInv, WorkInv, NEW f \in Runs, NEW r \in Keys, GetOrCreateResource(f, r)
    PROVE  WorkInv'
  <1>1. UNCHANGED <<cleanup, cached, pc, slot, key>> /\ pc[f] = "working"
    BY DEF GetOrCreateResource, cacheVars
  <1>2. \A e \in Runs : \/ sources'[e] = sources[e]
                        \/ /\ e = f /\ sources'[e] = sources[e] \cup {r}
                           /\ slot[e][1] \in SourceScoped
    BY DEF GetOrCreateResource, IInv, TypeOK
  <1>. QED BY <1>1, <1>2 DEF WorkInv, Works, Retired, SourcesPlaced

LEMMA InvalidationWork ==
    ASSUME IInv, WorkInv,
           \/ \E p \in Passes : InvalidatePass(p)
           \/ \E k \in Keys : InvalidateSource(k)
           \/ Dispose
    PROVE  WorkInv'
  <1>1. PICK P \in SUBSET Passes : Retire({CurrentSlot(p) : p \in P}, leased)
    <2>1. CASE \E p \in Passes : InvalidatePass(p)
      BY <2>1 DEF InvalidatePass, Replace
    <2>2. CASE \E k \in Keys : InvalidateSource(k)
      <3>1. PICK k \in Keys : Retire({CurrentSlot(p) : p \in Matching(k)}, leased)
        BY <2>2 DEF InvalidateSource, Replace
      <3>2. Matching(k) \in SUBSET Passes
        BY DEF Matching
      <3>. QED BY <3>1, <3>2
    <2>3. CASE Dispose
      BY <2>3 DEF Dispose
    <2>. QED BY <2>1, <2>2, <2>3
  <1>2. UNCHANGED <<leased, slot, using, key, sources, pc>>
    BY DEF InvalidatePass, InvalidateSource, Dispose, runVars
  <1>. QED BY <1>1, <1>2, RetireWork

LEMMA InvalidationInsideWork ==
    ASSUME IInv, WorkInv, NEW e \in Runs,
           InvalidateOwnPass(e) \/ \E k \in Keys : InvalidateSourceInside(e, k)
    PROVE  WorkInv'
  <1>1. UNCHANGED <<slot, using, key, sources>> /\ pc[e] = "working"
    BY DEF InvalidateOwnPass, InvalidateSourceInside
  <1>2. pc' = pc \/ pc' = [pc EXCEPT ![e] = "awaiting"]
    BY DEF InvalidateOwnPass, InvalidateSourceInside, MayAwait
  <1>3. \A f \in Runs : pc'[f] \in {"new", "working", "awaiting"} =>
            pc[f] = pc'[f] \/ {pc[f], pc'[f]} = {"working", "awaiting"}
    BY <1>1, <1>2 DEF IInv, TypeOK
  <1>4. PICK P \in SUBSET Passes, L \in SUBSET leased :
            Retire({CurrentSlot(p) : p \in P}, L) /\ leased' = L
    <2>1. CASE InvalidateOwnPass(e)
      <3>. DEFINE P == {p \in Passes : CurrentSlot(p) = slot[e]}
      <3>1. P \in SUBSET Passes /\ leased \ {e} \in SUBSET leased
        OBVIOUS
      <3>2. leased' = leased \ {e} /\ Retire({CurrentSlot(p) : p \in P}, leased \ {e})
        BY <2>1 DEF InvalidateOwnPass, Replace
      <3>. HIDE DEF P
      <3>. QED BY <3>1, <3>2
    <2>2. CASE \E k \in Keys : InvalidateSourceInside(e, k)
      <3>1. PICK k \in Keys : InvalidateSourceInside(e, k)
        BY <2>2
      <3>. DEFINE L == IF InvalidatesOwn(e, k) THEN leased \ {e} ELSE leased
      <3>2. leased' = L /\ Retire({CurrentSlot(p) : p \in Matching(k)}, L)
        BY <3>1 DEF InvalidateSourceInside, Replace
      <3>3. Matching(k) \in SUBSET Passes /\ L \in SUBSET leased
        BY DEF Matching
      <3>. HIDE DEF L
      <3>. QED BY <3>2, <3>3
    <2>. QED BY <2>1, <2>2
  <1>. QED BY <1>1, <1>3, <1>4, RetireWork

LEMMA NextWork == IInv /\ CInv /\ WorkInv /\ [Next]_vars => WorkInv'
  <1>. SUFFICES ASSUME IInv, CInv, WorkInv, [Next]_vars PROVE WorkInv'
    OBVIOUS
  <1>1. ASSUME NEW e \in Runs, Run(e) PROVE WorkInv'
    BY <1>1, RunWork, RunMissWork, GetOrCreateWork, InvalidationInsideWork DEF Run, Work
  <1>2. ASSUME NEW s \in Slots, Slot(s) PROVE WorkInv'
    <2>1. UNCHANGED <<cached, pc, slot, key, sources>>
      BY <1>2 DEF Slot, Answer, StartCleanup, EndCleanup, Created, CreateFails, Disposed,
                  cacheVars, runVars
    <2>2. \A t \in Slots : Retired(t) => Retired(t)'
      BY <1>2 DEF Slot, Answer, StartCleanup, EndCleanup, Created, CreateFails, Disposed,
                  Retired, IInv, TypeOK
    <2>3. \A e \in Runs : Works(e)' => ~Retired(slot[e])
      BY <2>1, <2>2 DEF Works, Retired, IInv, RunsPlaced
    <2>. QED BY <2>1, <2>3, WorkGoesOn
  <1>3. CASE \/ \E p \in Passes : InvalidatePass(p)
             \/ \E k \in Keys : InvalidateSource(k)
             \/ Dispose
    BY <1>3, InvalidationWork
  <1>4. CASE EndDispose \/ UNCHANGED vars
    <2>1. UNCHANGED <<cleanup, cached, pc, slot, key, sources>>
      BY <1>4 DEF EndDispose, vars, cacheVars, runVars
    <2>. QED BY <2>1 DEF WorkInv, Works, Retired, SourcesPlaced
  <1>. QED BY <1>1, <1>2, <1>3, <1>4 DEF Next

(***************************************************************************)
(* The step that takes the lease of work that goes on is one of the two    *)
(* invalidations the work asks for itself.                                 *)
(***************************************************************************)
LEMMA LeaseTaken ==
    ASSUME IInv, Next, NEW e \in leased, e \notin leased', pc'[e] \in {"working", "awaiting"}
    PROVE  InvalidateOwnPass(e) \/ \E k \in Keys : InvalidateSourceInside(e, k) /\ InvalidatesOwn(e, k)
  <1>1. e \in Runs
    BY DEF IInv, TypeOK
  <1>2. ASSUME NEW f \in Runs, Run(f), ~Work(f) PROVE FALSE
    <2>1. leased' # leased
      OBVIOUS
    <2>2. Release(f)
      BY <1>2, <2>1 DEF Run, RunHit, RunMiss, Settle, Succeed, Fail, Resume
    <2>3. e = f /\ pc'[e] = "done"
      BY <1>1, <2>2 DEF Release, IInv, TypeOK
    <2>. QED BY <2>3
  <1>3. ASSUME NEW s \in Slots, Slot(s) PROVE FALSE
    BY <1>3 DEF Slot, Answer, StartCleanup, EndCleanup, Created, CreateFails, Disposed, runVars
  <1>4. ~(\/ \E p \in Passes : InvalidatePass(p)
          \/ \E k \in Keys : InvalidateSource(k)
          \/ Dispose \/ EndDispose)
    BY DEF InvalidatePass, InvalidateSource, Dispose, EndDispose, runVars
  <1>5. PICK f \in Runs : Work(f)
    BY <1>2, <1>3, <1>4 DEF Next
  <1>. QED BY <1>5 DEF Work, GetOrCreateResource, InvalidateOwnPass, InvalidateSourceInside

\* A generation that is not retired contains every source of its work whose
\* resource it has.
LEMMA ContainsSource ==
    ASSUME IInv, WorkInv, NEW e \in Runs, Works(e), NEW k \in sources[e],
           \A r \in sources[e] \ {key[e]} : resource[slot[e]][r] # "none"
    PROVE  Contains(slot[e], k)
  <1>1. k \in Keys /\ slot[e] \in Slots
    BY WorksInCurrent DEF IInv, TypeOK
  <1>2. CASE k = key[e]
    <2>1. e \in cached
      BY <1>1, <1>2, SentinelAssumption DEF WorkInv, SourcesPlaced
    <2>. QED BY <1>2, <2>1 DEF Contains, Entries
  <1>3. CASE k # key[e]
    <2>1. slot[e][1] \in SourceScoped
      BY <1>3 DEF WorkInv, SourcesPlaced
    <2>2. resource[slot[e]][k] \in {"creating", "live"}
      BY <1>1, <1>3 DEF Works, Retired, IInv, TypeOK, CleanupOwnsResources
    <2>. QED BY <2>1, <2>2 DEF Contains
  <1>. QED BY <1>2, <1>3

LEMMA LeaseStep ==
    ASSUME IInv, WorkInv, Next, NEW e \in leased, e \notin leased',
           pc'[e] \in {"working", "awaiting"},
           \A r \in sources[e] \ {key[e]} : resource[slot[e]][r] # "none"
    PROVE  Retired(slot[e])'
  <1>1. e \in Runs /\ slot' = slot /\ using' = using /\ pc[e] = "working"
    BY LeaseTaken DEF IInv, TypeOK, InvalidateOwnPass, InvalidateSourceInside
  <1>2. slot[e] \in Slots
    BY <1>1 DEF IInv, RunsPlaced
  <1>3. CASE InvalidateOwnPass(e)
    <2>. DEFINE P == {p \in Passes : CurrentSlot(p) = slot[e]}
    <2>1. P \in SUBSET Passes /\ leased \ {e} \in SUBSET leased
      OBVIOUS
    <2>2. leased' = leased \ {e} /\ Retire({CurrentSlot(p) : p \in P}, leased \ {e})
      BY <1>3 DEF InvalidateOwnPass, Replace
    <2>3. Retired(slot[e]) \/ \E p \in P : slot[e] = CurrentSlot(p)
      BY <1>1, WorksInCurrent DEF Works
    <2>. HIDE DEF P
    <2>4. Retired(slot[e])' <=> Retired(slot[e]) \/ \E p \in P : slot[e] = CurrentSlot(p)
      BY <1>1, <1>2, <2>1, <2>2, RetireEffect
    <2>. QED BY <2>3, <2>4
  <1>4. CASE \E k \in Keys : InvalidateSourceInside(e, k) /\ InvalidatesOwn(e, k)
    <2>1. PICK k \in Keys : InvalidateSourceInside(e, k) /\ InvalidatesOwn(e, k)
      BY <1>4
    <2>2. leased' = leased \ {e} /\ Retire({CurrentSlot(p) : p \in Matching(k)}, leased \ {e})
      BY <2>1 DEF InvalidateSourceInside, Replace
    <2>3. Matching(k) \in SUBSET Passes /\ leased \ {e} \in SUBSET leased
      BY DEF Matching
    <2>4. Retired(slot[e])' <=> Retired(slot[e]) \/ \E p \in Matching(k) : slot[e] = CurrentSlot(p)
      BY <1>1, <1>2, <2>2, <2>3, RetireEffect
    <2>5. ASSUME ~Retired(slot[e])
          PROVE  slot[e][1] \in Matching(k) /\ slot[e] = CurrentSlot(slot[e][1])
      <3>1. Works(e)
        BY <1>1, <2>5 DEF Works
      <3>2. slot[e][1] \in Passes /\ slot[e] = CurrentSlot(slot[e][1])
        BY <1>1, <3>1, WorksInCurrent
      <3>3. Contains(slot[e], k)
        BY <1>1, <2>1, <3>1, ContainsSource DEF InvalidatesOwn
      <3>. QED BY <3>2, <3>3 DEF Matching
    <2>. QED BY <2>4, <2>5
  <1>. QED BY <1>3, <1>4, LeaseTaken

(***************************************************************************)
(* Whatever fails, the step that takes the lease of work that goes on      *)
(* retires its generation, unless that lacks a resource the work has asked *)
(* for: the generation contains every other source of the work.            *)
(***************************************************************************)
THEOREM LeasesLeaveWithGenerations == Spec => LeaseLeavesWithGeneration
  <1>1. Init => CInv /\ WorkInv
    BY InitCInv DEF Init, WorkInv, Works
  <1>2. IInv /\ CInv /\ WorkInv /\ [Next]_vars => CInv' /\ WorkInv'
    BY NextCInv, NextWork
  <1>. DEFINE LeaseLeaves ==
         \A e \in leased \ leased' :
             pc'[e] \in {"working", "awaiting"} =>
                 \/ Retired(slot[e])'
                 \/ \E r \in sources[e] \ {key[e]} : resource[slot[e]][r] = "none"
  <1>3. IInv /\ WorkInv /\ [Next]_vars => LeaseLeaves
    BY LeaseStep DEF vars, runVars
  <1>4. IInv /\ WorkInv /\ [Next]_vars => [LeaseLeaves]_vars
    BY <1>3
  <1>5. LeaseLeavesWithGeneration <=> [][LeaseLeaves]_vars
    BY DEF LeaseLeavesWithGeneration
  <1>. HIDE DEF LeaseLeaves
  <1>. QED BY <1>1, <1>2, <1>4, <1>5, Invariance, PTL DEF Spec
=============================================================================
