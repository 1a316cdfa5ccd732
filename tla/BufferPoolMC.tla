---------------------------- MODULE BufferPoolMC ----------------------------
(***************************************************************************)
(* BufferPool for TLC.  Threads, structures and blocks are interchangeable;*)
(* to try all permutations of all four costs more than it saves.           *)
(***************************************************************************)
EXTENDS BufferPool, TLC

Symmetry == Permutations(Refs) \cup Permutations(Bufs)
=============================================================================
