----------------------- MODULE MCSourceAssetImports -----------------------
(***************************************************************************)
(* An instance of SourceAssetImports for TLC.                              *)
(***************************************************************************)
EXTENDS SourceAssetImports

CONSTANTS a, b, x, y

\* Both imports stage x, as when one file is chosen twice; b stages y, too.
SharedContent == [i \in Imports |-> IF i = a THEN {x} ELSE {x, y}]
=============================================================================
