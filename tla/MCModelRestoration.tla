------------------------ MODULE MCModelRestoration ------------------------
(***************************************************************************)
(* An instance of ModelRestoration for TLC: two default models, of which b *)
(* is declared wrongly.  Either may be a model of the saved workspace.  A  *)
(* behaviour plays one of four scenes, chosen once, with few acts of the   *)
(* user.                                                                   *)
(***************************************************************************)
EXTENDS ModelRestoration

CONSTANTS d, b, i1, r1, r2, r3

VARIABLE scene

\* Acts of the user: on any model; on d; on d, the only model; an import on d,
\* the only model at first, while b comes and goes.
Budget == [any |-> 1, same |-> 2, alone |-> 3, other |-> 3]

Acts == edits + Cardinality({i \in Imports : target[i] # NoTarget})

ImportsOn(m) == \A i \in Imports : target'[i] \in {NoTarget, m}

CancelsOn(m) == \A t \in Models \ {m} : latest'[t] # Nobody

EditsOn(m) == edits' # edits => \A t \in Models \ {m} : asset'[t] = asset[t]

\* An undo or a redo.
Toggled == edit # NoEdit /\ edit' = [edit EXCEPT !.undone = ~@]

MCInit ==
    /\ Init
    /\ scene \in DOMAIN Budget
    /\ scene \in {"alone", "other"} => asset[b] = Absent

MCNext ==
    /\ Next
    /\ UNCHANGED scene
    /\ Acts' <= Budget[scene]
    /\ scene # "any" => ImportsOn(d)
    /\ scene \in {"same", "alone"} => EditsOn(d) /\ CancelsOn(d)
    /\ scene = "other" => (EditsOn(b) /\ CancelsOn(d)) \/ Toggled

MCSpec == MCInit /\ [][MCNext]_<<vars, scene>>

MCFairSpec == MCSpec /\ Fairness
=============================================================================
