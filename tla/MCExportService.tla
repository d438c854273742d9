--------------------------- MODULE MCExportService ---------------------------
(***************************************************************************)
(* ExportService for TLC: tasks are interchangeable in the safety runs.    *)
(***************************************************************************)
EXTENDS ExportServiceInv, TLC

TaskSymmetry == Permutations(Tasks) \union Permutations(Deletes)

=============================================================================
