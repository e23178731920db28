---------------------------- MODULE MCServerTimers ----------------------------
(* ServerTimers with a few descriptors and addresses. *)
EXTENDS ServerTimers

MCFds == 1 .. 6
MCTimers == 1 .. 6
MCSetTimers == 1 .. 4
=============================================================================
