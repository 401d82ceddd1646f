------------------------ MODULE MCModelImportWorker ------------------------
(***************************************************************************)
(* Instances of ModelImportWorker for TLC.                                 *)
(***************************************************************************)
EXTENDS ModelImportWorker

CONSTANTS d1, d2, l1, l2

MCRequests ==
    {[op |-> "decode-and-analyze", doc |-> d1, limits |-> l1],
     [op |-> "decode-and-analyze", doc |-> d1, limits |-> l2],
     [op |-> "decode-and-analyze", doc |-> d2, limits |-> l1],
     [op |-> "repair", doc |-> d1, limits |-> l1],
     [op |-> "extract-model-package", doc |-> d1, limits |-> l1]}

\* A document and its analysis fit beside one analysis more, but not beside
\* another document: a stage is full in its entries or all are in their bytes.
MCSizeOf(stage, doc) == IF stage = "analyze" THEN 1 ELSE 2
=============================================================================
