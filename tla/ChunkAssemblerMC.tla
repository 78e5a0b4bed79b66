-------------------------- MODULE ChunkAssemblerMC --------------------------
(***************************************************************************)
(* The assembler on a small instance: blocks of one and two samples, so    *)
(* that every threshold can be met exactly and overshot.                   *)
(***************************************************************************)
EXTENDS ChunkAssembler

MCBlockSizes == {1, 2}
MCTimeouts == {3, 4}

=============================================================================
