-------------------------------- MODULE MCLog --------------------------------
(* Log on a small instance. *)
EXTENDS Log, TLC

Symmetry == Permutations(Writers)
=============================================================================
