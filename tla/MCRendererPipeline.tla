------------------------- MODULE MCRendererPipeline -------------------------
(***************************************************************************)
(* An instance of RendererPipeline for TLC: a pass `a` that retains        *)
(* resources named by sources, and a pass `c` that caches nothing.  A      *)
(* behaviour plays one of three scenes, chosen once.                       *)
(***************************************************************************)
EXTENDS RendererPipeline

CONSTANTS a, c, x, y

VARIABLE scene

Generations(p, n) == {p} \X (1 .. n)

\* One key and three generations; two keys, of which one names a resource;
\* two keys without resources, an uncached pass, and work that may fail.
Scenes ==
    {[slots |-> Generations(a, 3), keys |-> {x}, resources |-> {x}, fails |-> FALSE],
     [slots |-> Generations(a, 2), keys |-> {x, y}, resources |-> {x}, fails |-> FALSE],
     [slots |-> Generations(a, 2) \cup Generations(c, 1), keys |-> {x, y},
      resources |-> {}, fails |-> TRUE]}

\* What the scene leaves out is not used; work that awaits nothing goes on.
InScene ==
    /\ \A p \in Passes : current[p] > 1 => CurrentSlot(p) \in scene.slots
    /\ \A e \in Runs :
          /\ slot[e] \in scene.slots \cup {NoSlot}
          /\ key[e] \in scene.keys \cup {NoKey}
          /\ using[e] \subseteq scene.resources
          /\ sources[e] \subseteq scene.resources \cup {key[e]}
          /\ pc[e] = "failed" => scene.fails
          /\ pc[e] = "awaiting" => awaited[e] # {}

MCInit == Init /\ scene \in Scenes

MCNext == Next /\ UNCHANGED scene /\ InScene'

MCSpec == MCInit /\ [][MCNext]_<<vars, scene>>

MCFairSpec == MCSpec /\ Fairness
=============================================================================
