------------------------------- MODULE HttpConn -------------------------------
(***************************************************************************)
(* http_conn: the per-descriptor object users[fd] shared by the event loop *)
(* and the worker threads.  Its parser, response builder and sender are    *)
(* abstracted to what the hand-over of a connection depends on: whose      *)
(* bytes are in the read buffer, whose request the pending response        *)
(* answers, and which epoll registration the operation asks for.           *)
(***************************************************************************)
EXTENDS Epoll

CONSTANT READ_BUFFER_SIZE  (* capacity of m_read_buf, in pieces of data *)

ASSUME HttpConnAssumption == READ_BUFFER_SIZE \in Nat \ {0}

VARIABLES
    improv,        (* set by a worker when main may stop waiting           *)
    timer_flag,    (* set by a worker when the connection is to be closed  *)
    m_state,       (* the job to do: 0 read, 1 write                       *)
    m_read_idx,    (* bytes in the read buffer, in pieces                  *)
    rbuf,          (* the connections whose bytes are in the read buffer   *)
    wbuf,          (* the connections the unsent response answers; {} when *)
                   (* bytes_to_send is 0                                   *)
    m_linger,      (* the client asked for keep-alive                      *)
    m_user_count,  (* static: connections being served                     *)
    m_trig_mode    (* 0 level triggered, 1 edge triggered; fixed at start  *)

connVars == <<improv, timer_flag, m_state, m_read_idx, rbuf, wbuf, m_linger,
              m_user_count, m_trig_mode>>

HttpConnTypeOK ==
    /\ improv \in [Fds -> {0, 1}]
    /\ timer_flag \in [Fds -> {0, 1}]
    /\ m_state \in [Fds -> {0, 1}]
    /\ m_read_idx \in [Fds -> Int]
    /\ rbuf \in [Fds -> SUBSET Conns]
    /\ wbuf \in [Fds -> SUBSET Conns]
    /\ m_linger \in [Fds -> BOOLEAN]
    /\ m_user_count \in Int
    /\ m_trig_mode \in {0, 1}

(* The constructor initialises nothing and init() does before anything is  *)
(* read, so zeros stand for whatever the memory holds.                     *)
HttpConnInit ==
    /\ improv = [fd \in Fds |-> 0]
    /\ timer_flag = [fd \in Fds |-> 0]
    /\ m_state = [fd \in Fds |-> 0]
    /\ m_read_idx = [fd \in Fds |-> 0]
    /\ rbuf = [fd \in Fds |-> {}]
    /\ wbuf = [fd \in Fds |-> {}]
    /\ m_linger = [fd \in Fds |-> FALSE]
    /\ m_user_count = 0
    /\ m_trig_mode \in {0, 1}

ResetConnKeepsBytes(fd) ==
    /\ improv' = [improv EXCEPT ![fd] = 0]
    /\ timer_flag' = [timer_flag EXCEPT ![fd] = 0]
    /\ m_state' = [m_state EXCEPT ![fd] = 0]
    /\ m_read_idx' = [m_read_idx EXCEPT ![fd] = 0]
    /\ m_linger' = [m_linger EXCEPT ![fd] = FALSE]
    /\ UNCHANGED <<rbuf, wbuf>>

(* init(): everything a connection leaves in the object is reset. *)
ResetConn(fd) ==
    /\ improv' = [improv EXCEPT ![fd] = 0]
    /\ timer_flag' = [timer_flag EXCEPT ![fd] = 0]
    /\ m_state' = [m_state EXCEPT ![fd] = 0]
    /\ m_read_idx' = [m_read_idx EXCEPT ![fd] = 0]
    /\ rbuf' = [rbuf EXCEPT ![fd] = {}]
    /\ wbuf' = [wbuf EXCEPT ![fd] = {}]
    /\ m_linger' = [m_linger EXCEPT ![fd] = FALSE]

(* init(sockfd, ...), called by the event loop for an accepted descriptor. *)
InitConn(fd, c) ==
    /\ Addfd(fd, c)
    /\ m_user_count' = m_user_count + 1
    /\ ResetConn(fd)
    /\ UNCHANGED m_trig_mode

(* read_once(): one recv() when level triggered; when edge triggered, recv *)
(* until EAGAIN, where a client that has hung up and a buffer filled to    *)
(* the brim both end in a recv() of 0 and a failure.  The level-triggered  *)
(* code adds recv()'s result to m_read_idx before it looks at its sign.    *)
ReadOnce(fd, ok) ==
    IF m_read_idx[fd] >= READ_BUFFER_SIZE
    THEN ok = FALSE /\ UNCHANGED <<m_read_idx, rbuf, avail>>
    ELSE \E n \in Recv(fd) :
           /\ rbuf' = IF n = 1 THEN [rbuf EXCEPT ![fd] = @ \cup {sock[fd]}]
                               ELSE rbuf
           /\ avail' = avail \ {sock[fd]}
           /\ IF m_trig_mode = 0
              THEN /\ m_read_idx' = [m_read_idx EXCEPT ![fd] = @ + n]
                   /\ ok = (n > 0)
              ELSE /\ m_read_idx' = IF n = 1
                                    THEN [m_read_idx EXCEPT ![fd] = @ + 1]
                                    ELSE m_read_idx
                   /\ ok = /\ sock[fd] \in alive
                           /\ m_read_idx'[fd] < READ_BUFFER_SIZE

(* process(), up to its modfd: process_read either wants more bytes        *)
(* (NO_REQUEST) or ends in a response that process_write puts in the       *)
(* write buffer.  arm is the event the following modfd asks for.           *)
Process(fd, arm) ==
    \/ /\ arm = "in"
       /\ UNCHANGED <<wbuf, m_linger>>
    \/ /\ arm = "out"
       /\ rbuf[fd] # {}
       /\ wbuf' = [wbuf EXCEPT ![fd] = rbuf[fd]]
       /\ \E keep \in BOOLEAN : m_linger' = [m_linger EXCEPT ![fd] = keep]

(* The branches of write(): nothing to send, the socket's buffer full, the *)
(* client gone, and the response sent, where the connection is kept or the *)
(* caller is told to close it.  modfd comes before init() in the code.     *)
WriteNothing(fd, ok) ==
    /\ wbuf[fd] = {}
    /\ ok = TRUE
    /\ Modfd(fd, "in")
    /\ ResetConn(fd)

WriteEagainNoModfd(fd, ok) ==
    /\ wbuf[fd] # {}
    /\ ok = TRUE
    /\ UNCHANGED <<epoll, improv, timer_flag, m_state, m_read_idx, rbuf, wbuf,
                   m_linger>>

WriteEagain(fd, ok) ==
    /\ wbuf[fd] # {}
    /\ ok = TRUE
    /\ Modfd(fd, "out")
    /\ UNCHANGED <<improv, timer_flag, m_state, m_read_idx, rbuf, wbuf, m_linger>>

WriteError(fd, ok) ==
    /\ wbuf[fd] # {}
    /\ sock[fd] \notin alive
    /\ ok = FALSE
    /\ UNCHANGED <<epoll, improv, timer_flag, m_state, m_read_idx, rbuf, wbuf,
                   m_linger>>

WriteAll(fd, ok) ==
    /\ wbuf[fd] # {}
    /\ ok = m_linger[fd]
    /\ Modfd(fd, "in")
    /\ IF m_linger[fd]
       THEN ResetConn(fd)
       ELSE /\ wbuf' = [wbuf EXCEPT ![fd] = {}]
            /\ UNCHANGED <<improv, timer_flag, m_state, m_read_idx, rbuf, m_linger>>

Write(fd, ok) ==
    \/ WriteNothing(fd, ok)
    \/ WriteEagain(fd, ok)
    \/ WriteError(fd, ok)
    \/ WriteAll(fd, ok)
=============================================================================
