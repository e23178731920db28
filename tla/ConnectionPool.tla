---------------------------- MODULE ConnectionPool ----------------------------
(***************************************************************************)
(* What the database connection pool promises its callers, with nothing of *)
(* its list, lock, semaphore or counters: a connection has one user at a   *)
(* time, a request is turned down only when every connection that is still *)
(* open is in use, and closing the pool closes the connections nobody      *)
(* uses.                                                                   *)
(***************************************************************************)
EXTENDS Integers

CONSTANTS
    Threads,  (* the callers                                              *)
    MaxConn   (* connections the pool is created with                     *)

Mysql == 1 .. MaxConn
NULL  == 0

VARIABLES
    asking,  (* threads whose request is neither granted nor turned down  *)
    refused, (* threads whose request was turned down                     *)
    has,     (* the connection a thread uses, or NULL                     *)
    open     (* connections that are not closed                           *)

vars == <<asking, refused, has, open>>

InUse   == {c \in Mysql : \E t \in Threads : has[t] = c}
Idle(t) == t \notin asking \cup refused /\ has[t] = NULL

Init ==
    /\ asking = {}
    /\ refused = {}
    /\ has = [t \in Threads |-> NULL]
    /\ open = Mysql

Ask(t) ==
    /\ Idle(t)
    /\ asking' = asking \cup {t}
    /\ UNCHANGED <<refused, has, open>>

Refuse(t) ==
    /\ Idle(t)
    /\ open \subseteq InUse
    /\ refused' = refused \cup {t}
    /\ UNCHANGED <<asking, has, open>>

Forget(t) ==
    /\ t \in refused
    /\ refused' = refused \ {t}
    /\ UNCHANGED <<asking, has, open>>

Grant(t) ==
    /\ t \in asking
    /\ asking' = asking \ {t}
    /\ \E c \in open \ InUse : has' = [has EXCEPT ![t] = c]
    /\ UNCHANGED <<refused, open>>

Return(t) ==
    /\ has[t] # NULL
    /\ has' = [has EXCEPT ![t] = NULL]
    /\ UNCHANGED <<asking, refused, open>>

Close ==
    /\ open' = InUse
    /\ UNCHANGED <<asking, refused, has>>

Next ==
    \/ \E t \in Threads : Ask(t) \/ Refuse(t) \/ Forget(t) \/ Grant(t) \/ Return(t)
    \/ Close

Spec == Init /\ [][Next]_vars
=============================================================================
