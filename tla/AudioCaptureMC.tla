--------------------------- MODULE AudioCaptureMC ---------------------------
(***************************************************************************)
(* The microphone on a small instance.                                     *)
(***************************************************************************)
EXTENDS AudioCapture

=============================================================================
