--------------------------- MODULE MCFileLayout ---------------------------
(* Segments of four bytes, chunks of two or three, a file of eleven.       *)
EXTENDS FileLayout
=============================================================================
