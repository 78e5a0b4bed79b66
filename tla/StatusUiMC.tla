----------------------------- MODULE StatusUiMC -----------------------------
(***************************************************************************)
(* The menu on a small instance.                                           *)
(***************************************************************************)
EXTENDS StatusUi

=============================================================================
