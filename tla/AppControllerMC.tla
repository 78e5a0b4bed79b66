--------------------------- MODULE AppControllerMC ---------------------------
(***************************************************************************)
(* The controller on small instances.                                      *)
(***************************************************************************)
EXTENDS AppController

MCWriters == 1..MaxSessions
MCAudio   == SUBSET (0..MaxPresses \union 0..MaxSessions)

=============================================================================
