---------------------------- MODULE MCWebServer ----------------------------
(* WebServer on a small instance. *)
EXTENDS WebServer, TLC

Symmetry == Permutations(Workers) \cup Permutations(Fds)
=============================================================================
