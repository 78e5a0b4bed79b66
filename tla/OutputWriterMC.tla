--------------------------- MODULE OutputWriterMC ---------------------------
(***************************************************************************)
(* The writer on a small instance: two sessions, and ids for three.        *)
(***************************************************************************)
EXTENDS OutputWriter

=============================================================================
