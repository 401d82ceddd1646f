-------------------------- MODULE MCExportLifetime --------------------------
(***************************************************************************)
(* Two registrations, a tree that is hidden once, two exports and one      *)
(* call of a pipeline client.                                              *)
(***************************************************************************)
EXTENDS ExportLifetime

AllFaults == {"admission", "dispose"}
=============================================================================
