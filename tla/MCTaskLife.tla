----------------------------- MODULE MCTaskLife -----------------------------
(* The instance of TaskLife for TLC; all its constants are sets of model    *)
(* values.                                                                  *)
EXTENDS TaskLife
=============================================================================
