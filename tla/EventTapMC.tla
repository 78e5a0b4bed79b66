----------------------------- MODULE EventTapMC -----------------------------
(***************************************************************************)
(* The hotkey on a small keyboard: the two Option keys, which share a      *)
(* flag, the Command key on the right and an ordinary key.                 *)
(***************************************************************************)
EXTENDS EventTap, TLC

CONSTANTS rightOption, leftOption, rightCommand, f5, option, command, plain

MCKeys == {rightOption, leftOption, rightCommand, f5}
MCMaskOf == rightOption :> option @@ leftOption :> option @@ rightCommand :> command
              @@ f5 :> plain

=============================================================================
