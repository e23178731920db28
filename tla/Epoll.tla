-------------------------------- MODULE Epoll --------------------------------
(***************************************************************************)
(* The kernel's side of the server, as the code of src/ uses it: client    *)
(* connections in the listen backlog, the descriptors accepted from it,    *)
(* the bytes waiting in each socket, and the epoll registration of every   *)
(* descriptor.  A connection is a number, in the order of arrival; a       *)
(* descriptor number is reused once it is closed, and that is the whole    *)
(* point: users[fd] and users_timer[fd] are indexed by it.                 *)
(***************************************************************************)
EXTENDS Integers, FiniteSets

CONSTANTS
    Fds,       (* descriptor numbers the process may get for clients      *)
    MaxConns,  (* bound: connections arriving during the run              *)
    MaxSends   (* bound: pieces of request data sent during the run       *)

ASSUME EpollAssumption ==
    /\ IsFiniteSet(Fds)
    /\ MaxConns \in Nat
    /\ MaxSends \in Nat

Conns  == 1 .. MaxConns
NoConn == 0

VARIABLES
    arrived,  (* how many connections have arrived so far                 *)
    backlog,  (* connections completed but not accepted yet               *)
    alive,    (* connections whose client has not hung up                 *)
    avail,    (* connections with received bytes nobody has read yet      *)
    sends,    (* pieces of data sent so far, over all connections         *)
    sock,     (* the connection a descriptor stands for, or NoConn        *)
    epoll     (* "none", "off" (disabled by EPOLLONESHOT), "in" or "out"  *)

netVars   == <<arrived, backlog, alive, avail, sends>>
epollVars == <<sock, epoll>>

Open(fd)  == sock[fd] # NoConn
Armed(fd) == epoll[fd] \in {"in", "out"}

(* Connections are numbered in order of arrival; accept() takes the least  *)
(* one of the backlog.                                                     *)
Oldest(c) == c \in backlog /\ \A d \in backlog : c <= d

EpollTypeOK ==
    /\ arrived \in 0 .. MaxConns
    /\ backlog \subseteq Conns
    /\ alive \subseteq Conns
    /\ avail \subseteq Conns
    /\ sends \in 0 .. MaxSends
    /\ sock \in [Fds -> Conns \cup {NoConn}]
    /\ epoll \in [Fds -> {"none", "off", "in", "out"}]

EpollInit ==
    /\ arrived = 0
    /\ backlog = {}
    /\ alive = {}
    /\ avail = {}
    /\ sends = 0
    /\ sock = [fd \in Fds |-> NoConn]
    /\ epoll = [fd \in Fds |-> "none"]
-----------------------------------------------------------------------------
(* System calls of the server. *)

(* addfd with one_shot: the descriptor enters the epoll set armed for      *)
(* EPOLLIN | EPOLLRDHUP | EPOLLONESHOT.  Whether EPOLLET is set too makes  *)
(* no difference to a one-shot descriptor.                                 *)
Addfd(fd, c) ==
    /\ sock' = [sock EXCEPT ![fd] = c]
    /\ epoll' = [epoll EXCEPT ![fd] = "in"]

(* modfd re-arms a one-shot descriptor; EPOLL_CTL_MOD fails on one that is *)
(* not in the set, and nobody looks at its result.                         *)
Modfd(fd, ev) ==
    epoll' = IF epoll[fd] = "none" THEN epoll ELSE [epoll EXCEPT ![fd] = ev]

(* EPOLL_CTL_DEL and close(): the connection is over for both sides and    *)
(* the descriptor number is free again.                                    *)
CloseFd(fd) ==
    /\ epoll' = [epoll EXCEPT ![fd] = "none"]
    /\ sock' = [sock EXCEPT ![fd] = NoConn]
    /\ alive' = alive \ {sock[fd]}
    /\ avail' = avail \ {sock[fd]}

(* What recv() can return, counted in pieces: data, 0 for a client that    *)
(* shut down, -1 for EAGAIN, a reset connection or a closed descriptor.    *)
Recv(fd) ==
    IF sock[fd] \in avail THEN {1}
    ELSE IF sock[fd] \in alive THEN {-1}
    ELSE {0, -1}

(* The events epoll_wait reports for the armed descriptors.  EPOLLRDHUP    *)
(* is reported along with whatever else is ready and eventLoop tests it    *)
(* first, so a connection whose client is gone yields "hup" only.  full is *)
(* the set of sockets with no room to send.                                *)
ReadyFds(full) ==
    {fd \in Fds : /\ Armed(fd)
                  /\ \/ sock[fd] \notin alive
                     \/ epoll[fd] = "in" /\ sock[fd] \in avail
                     \/ epoll[fd] = "out" /\ fd \notin full}

EventKind(fd) == IF sock[fd] \notin alive THEN "hup" ELSE epoll[fd]

(* EPOLLONESHOT: what is reported is disabled until the next modfd.        *)
DisableNone(fds) == epoll' = epoll

Disable(fds) == epoll' = [fd \in Fds |-> IF fd \in fds THEN "off" ELSE epoll[fd]]
-----------------------------------------------------------------------------
(* The clients. *)

Connect ==
    /\ arrived < MaxConns
    /\ arrived' = arrived + 1
    /\ backlog' = backlog \cup {arrived'}
    /\ alive' = alive \cup {arrived'}
    /\ UNCHANGED <<avail, sends, epollVars>>

Send(c) ==
    /\ c \in alive \ avail
    /\ sends < MaxSends
    /\ sends' = sends + 1
    /\ avail' = avail \cup {c}
    /\ UNCHANGED <<arrived, backlog, alive, epollVars>>

HangUp(c) ==
    /\ c \in alive
    /\ alive' = alive \ {c}
    /\ UNCHANGED <<arrived, backlog, avail, sends, epollVars>>

ClientStep == Connect \/ \E c \in Conns : Send(c) \/ HangUp(c)
=============================================================================
