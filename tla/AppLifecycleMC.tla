--------------------------- MODULE AppLifecycleMC ---------------------------
(***************************************************************************)
(* AppLifecycle for TLC: processes are interchangeable model values.       *)
(***************************************************************************)
EXTENDS AppLifecycle, TLC

MCLanguages == {"auto", "pt"}
MCTimeouts == {1, 5}

=============================================================================
