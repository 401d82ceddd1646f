------------------------- MODULE MCAssetRepository -------------------------
(***************************************************************************)
(* Instances of AssetRepository for TLC.  A document payload depends on    *)
(* the appearance resource `tex`, which the handler stages before it.      *)
(***************************************************************************)
EXTENDS AssetRepository, TLC

CONSTANTS tex, doc, plain, other, document

MCDependencies == [c \in Payloads |-> IF c = document THEN {tex} ELSE {}]

Symmetry == Permutations(Owners) \cup Permutations(Leases)
=============================================================================
