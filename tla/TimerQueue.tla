------------------------------ MODULE TimerQueue ------------------------------
(***************************************************************************)
(* What a container of timers promises the server, with nothing of how it  *)
(* keeps them: a connection is watched by the timer it was given, from     *)
(* when it is opened until it is closed, and the container closes a        *)
(* connection itself only when its timer is due.                           *)
(***************************************************************************)
EXTENDS Integers

CONSTANTS
    Fds,     (* the descriptors of connections                             *)
    Timers,  (* the timers                                                 *)
    NULL     (* "no timer"                                                 *)

VARIABLES
    watched,  (* the timer that watches a descriptor, or NULL              *)
    due,      (* the timers whose time has come                            *)
    expired   (* the timers by which a connection was closed               *)

vars == <<watched, due, expired>>

Init ==
    /\ watched = [fd \in Fds |-> NULL]
    /\ due = {}
    /\ expired = {}

Add(fd, timer) ==
    /\ watched[fd] = NULL
    /\ \A other \in Fds : watched[other] # timer
    /\ timer \notin due \cup expired
    /\ watched' = [watched EXCEPT ![fd] = timer]
    /\ UNCHANGED <<due, expired>>

(* The time has come ... *)
Due(timer) ==
    /\ due' = due \cup {timer}
    /\ UNCHANGED <<watched, expired>>

(* ... and is put off. *)
Adjust(fd) ==
    /\ due' = due \ {watched[fd]}
    /\ UNCHANGED <<watched, expired>>

Remove(fd) ==
    /\ watched' = [watched EXCEPT ![fd] = NULL]
    /\ UNCHANGED <<due, expired>>

Expire(fd) ==
    /\ watched[fd] \in due
    /\ watched' = [watched EXCEPT ![fd] = NULL]
    /\ expired' = expired \cup {watched[fd]}
    /\ UNCHANGED due

Next ==
    \/ \E fd \in Fds : \/ \E timer \in Timers : Add(fd, timer)
                       \/ Adjust(fd) \/ Remove(fd) \/ Expire(fd)
    \/ \E timer \in Timers : Due(timer)

Spec == Init /\ [][Next]_vars
=============================================================================
