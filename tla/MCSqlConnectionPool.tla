------------------------- MODULE MCSqlConnectionPool -------------------------
(* SqlConnectionPool on a small instance. *)
EXTENDS SqlConnectionPool, TLC

Symmetry == Permutations(Threads)
=============================================================================
