---------------------------- MODULE MCBlockQueue ----------------------------
(* BlockQueue on a small instance. *)
EXTENDS BlockQueue, TLC

Symmetry == Permutations(Threads) \cup Permutations(Items)
=============================================================================
