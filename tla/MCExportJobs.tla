---------------------------- MODULE MCExportJobs ----------------------------
(***************************************************************************)
(* Small instances of ExportJobs for TLC.                                  *)
(***************************************************************************)
EXTENDS ExportJobs, TLC

CONSTANTS j1, j2, wide, tall

MCJobs == {j1, j2}
MCPresets == {wide, tall}
=============================================================================
