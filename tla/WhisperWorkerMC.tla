-------------------------- MODULE WhisperWorkerMC --------------------------
(***************************************************************************)
(* The transcription worker on a small instance: two queue slots and four  *)
(* enqueue() calls, so that the queue overflows with a chunk in hand.      *)
(***************************************************************************)
EXTENDS WhisperWorker

=============================================================================
