----------------------- MODULE MCWorkspacePersistence -----------------------
(***************************************************************************)
(* The instance of WorkspacePersistence for TLC.                           *)
(***************************************************************************)
EXTENDS WorkspacePersistence, TLC

Symmetry == Permutations(Tabs) \cup Permutations(Versions) \cup Permutations(Bodies)
=============================================================================
