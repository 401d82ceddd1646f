----------------------------- MODULE AssetStore -----------------------------
(***************************************************************************)
(* What the binary asset repository promises to the tabs that share it: a  *)
(* store of immutable entries in which a batch appears as a whole, and     *)
(* which reclaims only entries that nothing held depends on.  Something is *)
(* held while a running tab that has committed or read it still reaches    *)
(* it, or a saved workspace names it.                                      *)
(***************************************************************************)
CONSTANTS Refs, Payloads, Dependencies, Absent

VARIABLES
    entries,   \* the payload of every ref, or Absent
    held       \* the refs that are held

storeVars == <<entries, held>>

Present(es) == {r \in Refs : es[r] # Absent}

\* The refs reached from S through the dependencies of the entries.
Needed(S) ==
    {r \in Refs : \A T \in SUBSET Refs :
        /\ S \subseteq T
        /\ \A t \in T : entries[t] # Absent => Dependencies[entries[t]] \subseteq T
        => r \in T}

Init ==
    /\ entries = [r \in Refs |-> Absent]
    /\ held = {}

\* A batch of entries is added; the dependencies of each are there too.
Publish ==
    /\ \E batch \in SUBSET Refs :
          entries' \in {es \in [Refs -> Payloads \cup {Absent}] :
                          \A r \in Refs : r \in batch \/ es[r] = entries[r]}
    /\ \A r \in Present(entries) : entries'[r] = entries[r]
    /\ \A r \in Present(entries') : Dependencies[entries'[r]] \subseteq Present(entries')
    /\ held' \in SUBSET Present(entries')
    /\ held \subseteq held'

\* Entries that nothing held needs are deleted.
Reclaim ==
    \E garbage \in SUBSET (Refs \ Needed(held)) :
        /\ entries' = [r \in Refs |-> IF r \in garbage THEN Absent ELSE entries[r]]
        /\ held' = held

\* A tab comes to hold what it reads, or lets go of something.
Rely ==
    /\ held' \in SUBSET Present(entries)
    /\ entries' = entries

Next == Publish \/ Reclaim \/ Rely

Spec == Init /\ [][Next]_storeVars
=============================================================================
