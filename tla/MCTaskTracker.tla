--------------------------- MODULE MCTaskTracker ---------------------------
(* A file of one chunk or two, the tracker's real 90 s, 30 s and 6 s.       *)
EXTENDS TaskTracker
=============================================================================
