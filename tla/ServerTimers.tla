----------------------------- MODULE ServerTimers -----------------------------
(***************************************************************************)
(* The timers of the server: one for each connection, in a heap_timer or   *)
(* in a set_timer, whichever the configuration chooses.  The event loop    *)
(* adds a timer when it accepts a client, puts it off when the client's    *)
(* descriptor is ready, deletes it when it closes the connection, and      *)
(* ticks the set_timer when SIGALRM has come (timer_handler).  The set is  *)
(* ordered by address like the heap.                                       *)
(*                                                                         *)
(* Time is whatever the clock says, and the system's clock can be set: a   *)
(* timer may become due at any time and in any order.  Nobody reads the    *)
(* time of a timer in the heap, so that only those of the set become due.  *)
(* A util_timer is never deleted, and no address is given out twice.       *)
(***************************************************************************)
EXTENDS HeapTimer, FiniteSets

CONSTANTS
    NULL,       (* "no timer"                                              *)
    SetTimers,  (* bound: the addresses given out when a set keeps them    *)
    MaxClosed   (* bound: connections closed for the client or the request *)

ASSUME ServerTimersAssumption ==
    /\ NULL \notin Timers
    /\ SetTimers \subseteq Timers
    /\ MaxClosed \in Nat

VARIABLES
    m_timer_mode,  (* 0 the heap, 1 the set                                *)
    timer_set,     (* the set                                              *)
    users_timer,   (* the timer of a descriptor's client_data              *)
    open,          (* the descriptors of connections                       *)
    used,          (* the addresses given out by new                       *)
    due,           (* the timers whose expiry time has passed              *)
    ticking,       (* set_timer::tick: "no", "yes", or "crashed"           *)
    expired        (* history: the timers for which tick() closed a        *)
                   (* connection                                           *)

serverVars == <<users_timer, open, used>>
vars == <<user_data, heapVars, m_timer_mode, timer_set, serverVars, due, ticking,
          expired>>

TypeOK ==
    /\ HeapTypeOK
    /\ user_data \in [Timers -> Fds \cup {None}]
    /\ m_timer_mode \in {0, 1}
    /\ timer_set \subseteq Timers
    /\ users_timer \in [Fds -> Timers \cup {NULL}]
    /\ open \subseteq Fds
    /\ used \subseteq Timers
    /\ due \subseteq Timers
    /\ ticking \in {"no", "yes", "crashed"}
    /\ expired \subseteq Timers

Init ==
    /\ HeapInit
    /\ user_data = [timer \in Timers |-> None]
    /\ m_timer_mode \in {0, 1}
    /\ timer_set = {}
    /\ users_timer = [fd \in Fds |-> NULL]
    /\ open = {}
    /\ used = {}
    /\ due = {}
    /\ ticking = "no"
    /\ expired = {}

Idle == HeapIdle /\ ticking = "no"
-----------------------------------------------------------------------------
(* WebServer::timer, for the client that was accepted as fd: accept() gives *)
(* the lowest descriptor that is free.                                     *)
Timer(fd, timer) ==
    /\ Idle
    /\ fd \notin open /\ \A lower \in Fds : lower < fd => lower \in open
    /\ timer \notin used
    /\ m_timer_mode = 1 => timer \in SetTimers
    /\ open' = open \cup {fd}
    /\ used' = used \cup {timer}
    /\ user_data' = [user_data EXCEPT ![timer] = fd]
    /\ users_timer' = [users_timer EXCEPT ![fd] = timer]
    /\ \/ /\ m_timer_mode = 0
          /\ AddTimer(timer, fd)
          /\ UNCHANGED timer_set
       \/ /\ m_timer_mode = 1
          /\ timer_set' = timer_set \cup {timer}
          /\ UNCHANGED heapVars
    /\ UNCHANGED <<m_timer_mode, due, ticking, expired>>

(* WebServer::adjust_timer: three time slots from now.  set_timer takes    *)
(* the timer out and puts it in again.                                     *)
Adjust(fd) ==
    /\ Idle
    /\ fd \in open
    /\ due' = due \ {users_timer[fd]}
    /\ \/ /\ m_timer_mode = 0
          /\ AdjustTimer(fd)
          /\ UNCHANGED timer_set
       \/ /\ m_timer_mode = 1
          /\ timer_set' = timer_set \cup {users_timer[fd]}
          /\ UNCHANGED heapVars
    /\ UNCHANGED <<user_data, m_timer_mode, serverVars, ticking, expired>>

(* WebServer::deal_timer: the connection is closed (cb_func), and the      *)
(* timer deleted.                                                          *)
DealTimer(fd) ==
    /\ Idle
    /\ fd \in open
    /\ Cardinality(used) - Cardinality(open) - Cardinality(expired) < MaxClosed
    /\ open' = open \ {fd}
    /\ \/ /\ m_timer_mode = 0
          /\ DelTimer(fd)
          /\ UNCHANGED timer_set
       \/ /\ m_timer_mode = 1
          /\ timer_set' = timer_set \ {users_timer[fd]}
          /\ UNCHANGED heapVars
    /\ UNCHANGED <<user_data, m_timer_mode, users_timer, used, due, ticking, expired>>

(* timer_handler. *)
Tick ==
    /\ Idle
    /\ timer_set # {}
    /\ ticking' = "yes"
    /\ UNCHANGED <<user_data, heapVars, m_timer_mode, timer_set, serverVars, due,
                   expired>>

(* The timer the loop of set_timer::tick is at: those before it are gone.  *)
First(timer) ==
    /\ timer \in timer_set
    /\ \A other \in timer_set : timer <= other

TickCloses(timer) ==
    /\ ticking = "yes"
    /\ First(timer)
    /\ timer_set' = timer_set \ {timer}
    /\ open' = open \ {user_data[timer]}
    /\ expired' = expired \cup {timer}
    /\ ticking' \in {"yes", "crashed"}
    /\ UNCHANGED <<user_data, heapVars, m_timer_mode, users_timer, used, due>>

(* The node the loop is at is erased under it, and its next step reads     *)
(* freed memory: it finds the next node there, or something that is not a  *)
(* node.                                                                   *)
TickExpires(timer) ==
    /\ ticking = "yes"
    /\ First(timer)
    /\ timer \in due
    /\ timer_set' = timer_set \ {timer}
    /\ open' = open \ {user_data[timer]}
    /\ expired' = expired \cup {timer}
    /\ ticking' \in {"yes", "crashed"}
    /\ UNCHANGED <<user_data, heapVars, m_timer_mode, users_timer, used, due>>

(* The first timer that is not due ends the tick, whatever comes after it. *)
TickStops ==
    /\ ticking = "yes"
    /\ \A timer \in timer_set : First(timer) => timer \notin due
    /\ ticking' = "no"
    /\ UNCHANGED <<user_data, heapVars, m_timer_mode, timer_set, serverVars, due,
                   expired>>

(* The clock passes the timer's expiry time. *)
Due(timer) ==
    /\ timer \in timer_set \ due
    /\ ticking # "crashed"
    /\ due' = due \cup {timer}
    /\ UNCHANGED <<user_data, heapVars, m_timer_mode, timer_set, serverVars, ticking,
                   expired>>

Next ==
    \/ \E fd \in Fds : \/ \E timer \in Timers : Timer(fd, timer)
                       \/ Adjust(fd) \/ DealTimer(fd)
    \/ HeapLoop /\ UNCHANGED <<m_timer_mode, timer_set, serverVars, due, ticking, expired>>
    \/ Tick \/ TickStops
    \/ \E timer \in Timers : TickExpires(timer) \/ Due(timer)

Spec == Init /\ [][Next]_vars
-----------------------------------------------------------------------------
(* The timer by which the containers watch fd. *)
Watched(fd) ==
    IF ref_[fd] # None THEN heap_[ref_[fd]]
    ELSE IF \E timer \in timer_set : user_data[timer] = fd
    THEN CHOOSE timer \in timer_set : user_data[timer] = fd
    ELSE NULL

(* Between two operations every connection is watched by its own timer,    *)
(* and nothing else is in the heap or the set: ref_ still finds each timer *)
(* where the swaps have put it (heap_timer.cpp:25-31, 121-135).            *)
WatchesOpen ==
    Idle => /\ \A fd \in Fds : Watched(fd) = IF fd \in open THEN users_timer[fd] ELSE NULL
            /\ \A k \in Places : ref_[user_data[heap_[k]]] = k
            /\ \A timer \in timer_set : Watched(user_data[timer]) = timer

(* Between two operations no node of the heap is smaller than its parent;  *)
(* smaller is the address, not the time (heap_timer.cpp:16, 38).           *)
HeapOrder ==
    HeapIdle => \A k \in Places \ {0} : heap_[Parent(k)] < heap_[k]

(* Both containers do what TimerQueue promises, at every turn of their     *)
(* loops: only a due timer closes a connection on its own, and until then  *)
(* a connection is watched by the timer it was given                       *)
(* (webserver.cpp:132-178, set_timer.cpp:32-43).                           *)
Queue == INSTANCE TimerQueue WITH watched <- [fd \in Fds |-> Watched(fd)]

KeepsPromise == Queue!Spec
=============================================================================
