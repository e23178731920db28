------------------------------ MODULE WebServer ------------------------------
(***************************************************************************)
(* The running server: the event loop (webserver.cpp), the thread pool     *)
(* (threadpool.h) and the http_conn objects they hand to each other.       *)
(*                                                                         *)
(* The event loop gives a readable or writable connection to the pool and  *)
(* busy-waits on its improv field; a worker sets improv as soon as the     *)
(* recv or send is done, then sets timer_flag when the connection has to   *)
(* be closed, or goes on to process the request and re-arm the descriptor. *)
(* Every step below is one access to state two threads share: a critical   *)
(* section of m_queuelocker, one semaphore operation, one store or load of *)
(* improv or timer_flag, one system call.                                  *)
(*                                                                         *)
(* The timers are those of the default mode, heap_timer: the set of        *)
(* descriptors that have one.  Their expiry times are left out because     *)
(* nothing reads them: timer_handler ticks timer_set only (Utils.cpp:83).  *)
(***************************************************************************)
EXTENDS HttpConn, Sequences

CONSTANTS
    Workers,         (* the pool's threads                                 *)
    MAX_FD,          (* connections served at once                         *)
    m_max_requests,  (* capacity of the request queue                      *)
    Signals,         (* bound: the signals delivered during the run        *)
    NoFd             (* "no descriptor"                                    *)

ASSUME WebServerAssumption ==
    /\ MAX_FD \in Nat
    /\ m_max_requests \in Nat \ {0}   \* the constructor throws otherwise
    /\ Signals \subseteq {"SIGALRM", "SIGTERM"}
    /\ NoFd \notin Fds

VARIABLES
    m_workqueue,  (* the request queue, of descriptors                     *)
    m_queuestat,  (* the semaphore that counts queued requests             *)
    wpc,          (* where each worker is                                  *)
    job,          (* the descriptor of the http_conn a worker handles      *)
    mpc,          (* where the event loop is                               *)
    cur,          (* the descriptor it is waiting for                      *)
    events,       (* what epoll_wait returned and is not handled yet       *)
    timers,       (* descriptors with a node in the timer heap             *)
    signals,      (* signal numbers in the pipe                            *)
    alarm_set,    (* alarm() is pending                                    *)
    timeout,      (* local of eventLoop                                    *)
    stop_server,  (* local of eventLoop                                    *)
    missed        (* history: descriptors on which the event loop once     *)
                  (* read timer_flag before the worker's store to it       *)

poolVars   == <<m_workqueue, m_queuestat, wpc, job>>
loopVars   == <<mpc, cur, events, timers, missed>>
signalVars == <<signals, alarm_set, timeout, stop_server>>
vars == <<netVars, epollVars, connVars, poolVars, loopVars, signalVars>>

Free == {fd \in Fds : ~Open(fd)}

WorkerPC == {"wait", "woken", "run", "readOk", "writeOk", "failed", "flag",
             "process", "armIn", "armOut"}
Event == [kind : {"in", "out", "hup"}, fd : Fds]
           \cup [kind : {"accept", "signal"}, fd : {NoFd}]

TypeOK ==
    /\ EpollTypeOK
    /\ HttpConnTypeOK
    /\ m_workqueue \in Seq(Fds)
    /\ m_queuestat \in Nat
    /\ wpc \in [Workers -> WorkerPC]
    /\ job \in [Workers -> Fds \cup {NoFd}]
    /\ mpc \in {"wait", "loop", "post", "spin", "flag", "clear", "stopped"}
    /\ cur \in Fds \cup {NoFd}
    /\ events \subseteq Event
    /\ timers \subseteq Fds
    /\ signals \subseteq Signals
    /\ alarm_set \in BOOLEAN
    /\ timeout \in BOOLEAN
    /\ stop_server \in BOOLEAN
    /\ missed \subseteq Fds \cup {NoFd}

Init ==
    /\ EpollInit
    /\ HttpConnInit
    /\ m_workqueue = <<>>
    /\ m_queuestat = 0
    /\ wpc = [w \in Workers |-> "wait"]
    /\ job = [w \in Workers |-> NoFd]
    /\ mpc = "wait"
    /\ cur = NoFd
    /\ events = {}
    /\ timers = {}
    /\ signals = {}
    /\ alarm_set = TRUE
    /\ timeout = FALSE
    /\ stop_server = FALSE
    /\ missed = {}
-----------------------------------------------------------------------------
(* The event loop. *)

(* What one epoll_wait tells of the ready client descriptors fds.          *)
BatchTwice(fds) ==
    {[kind |-> EventKind(fd), fd |-> fd] : fd \in fds}
        \cup {[kind |-> epoll[fd], fd |-> fd] : fd \in fds}

Batch(fds) == {[kind |-> EventKind(fd), fd |-> fd] : fd \in fds}

(* epoll_wait: every ready descriptor, in an order that is left open.  The *)
(* listening socket is level triggered, as with every configuration Config *)
(* reads.                                                                  *)
EpollWait ==
    /\ mpc = "wait"
    /\ \E full \in SUBSET Fds :
         /\ events' = Batch(ReadyFds(full))
                \cup {e \in [kind : {"accept"}, fd : {NoFd}] : backlog # {}}
                \cup {e \in [kind : {"signal"}, fd : {NoFd}] : signals # {}}
         /\ Disable(ReadyFds(full))
    /\ events' # {}
    /\ mpc' = "loop"
    /\ UNCHANGED <<netVars, sock, connVars, poolVars, cur, timers, missed,
                   signalVars>>

(* The event the loop turns to next. *)
Handle(e) ==
    /\ mpc = "loop"
    /\ e \in events
    /\ events' = events \ {e}

(* accept() fails: nobody is waiting, or no descriptor is left (EMFILE) and *)
(* the client stays in the backlog.                                        *)
AcceptFails(e) ==
    /\ Handle(e)
    /\ e.kind = "accept"
    /\ backlog = {} \/ Free = {}
    /\ UNCHANGED <<netVars, epollVars, connVars, poolVars, mpc, cur, timers,
                   missed, signalVars>>

AcceptBusyGoesOn(e) ==
    /\ Handle(e)
    /\ e.kind = "accept"
    /\ Free # {}
    /\ m_user_count >= MAX_FD
    /\ \E c \in Conns : /\ Oldest(c)
                        /\ backlog' = backlog \ {c}
                        /\ alive' = alive \ {c}
                        /\ avail' = avail \ {c}
    /\ \E fd \in Free : timers' = timers \cup {fd}
    /\ UNCHANGED <<arrived, sends, epollVars, connVars, poolVars, mpc, cur,
                   missed, signalVars>>

(* show_error: the accepted descriptor is closed at once. *)
AcceptBusy(e) ==
    /\ Handle(e)
    /\ e.kind = "accept"
    /\ Free # {}
    /\ m_user_count >= MAX_FD
    /\ \E c \in Conns : /\ Oldest(c)
                        /\ backlog' = backlog \ {c}
                        /\ alive' = alive \ {c}
                        /\ avail' = avail \ {c}
    /\ UNCHANGED <<arrived, sends, epollVars, connVars, poolVars, mpc, cur,
                   timers, missed, signalVars>>

(* timer(): init the http_conn of the descriptor and give it a timer.  The *)
(* kernel chooses the descriptor (POSIX: the lowest free one).             *)
AcceptConn(e) ==
    /\ Handle(e)
    /\ e.kind = "accept"
    /\ m_user_count < MAX_FD
    /\ \E fd \in Free, c \in Conns :
         /\ Oldest(c)
         /\ InitConn(fd, c)
         /\ timers' = timers \cup {fd}
         /\ backlog' = backlog \ {c}
    /\ UNCHANGED <<arrived, alive, avail, sends, poolVars, mpc, cur, missed,
                   signalVars>>

DealTimerNoCount(fd) ==
    /\ CloseFd(fd)
    /\ timers' = timers \ {fd}
    /\ UNCHANGED m_user_count

(* deal_timer: cb_func takes the descriptor out of epoll, closes it and    *)
(* counts it off; then its timer is deleted.                               *)
DealTimer(fd) ==
    /\ CloseFd(fd)
    /\ m_user_count' = m_user_count - 1
    /\ timers' = timers \ {fd}

DealHup(e) ==
    /\ Handle(e)
    /\ e.kind = "hup"
    /\ DealTimer(e.fd)
    /\ UNCHANGED <<arrived, backlog, sends, improv, timer_flag, m_state,
                   m_read_idx, rbuf, wbuf, m_linger, m_trig_mode, poolVars,
                   mpc, cur, missed, signalVars>>

DealIOFull(e) ==
    /\ Handle(e)
    /\ e.kind \in {"in", "out"}
    /\ cur' = e.fd
    /\ IF Len(m_workqueue) >= m_max_requests - 1
       THEN /\ mpc' = "spin"
            /\ UNCHANGED <<m_state, m_workqueue>>
       ELSE /\ mpc' = "post"
            /\ m_state' = [m_state EXCEPT ![e.fd] = IF e.kind = "in" THEN 0 ELSE 1]
            /\ m_workqueue' = Append(m_workqueue, e.fd)
    /\ UNCHANGED <<netVars, epollVars, improv, timer_flag, m_read_idx, rbuf, wbuf,
                   m_linger, m_user_count, m_trig_mode, m_queuestat, wpc, job,
                   timers, missed, signalVars>>

(* dealwithread and dealwithwrite up to the wait: append() stores m_state  *)
(* and queues the http_conn under m_queuelocker, or drops it when the      *)
(* queue is full; the caller does not look at the result.                  *)
DealIO(e) ==
    /\ Handle(e)
    /\ e.kind \in {"in", "out"}
    /\ cur' = e.fd
    /\ IF Len(m_workqueue) >= m_max_requests
       THEN /\ mpc' = "spin"
            /\ UNCHANGED <<m_state, m_workqueue>>
       ELSE /\ mpc' = "post"
            /\ m_state' = [m_state EXCEPT ![e.fd] = IF e.kind = "in" THEN 0 ELSE 1]
            /\ m_workqueue' = Append(m_workqueue, e.fd)
    /\ UNCHANGED <<netVars, epollVars, improv, timer_flag, m_read_idx, rbuf, wbuf,
                   m_linger, m_user_count, m_trig_mode, m_queuestat, wpc, job,
                   timers, missed, signalVars>>

Post ==
    /\ mpc = "post"
    /\ m_queuestat' = m_queuestat + 1
    /\ mpc' = "spin"
    /\ UNCHANGED <<netVars, epollVars, connVars, m_workqueue, wpc, job, cur, events,
                   timers, missed, signalVars>>

SpinOnce ==
    /\ mpc = "spin"
    /\ mpc' = "flag"
    /\ UNCHANGED <<netVars, epollVars, connVars, poolVars, cur, events, timers,
                   missed, signalVars>>

(* while (true) if (1 == improv) ... *)
Spin ==
    /\ mpc = "spin"
    /\ improv[cur] = 1
    /\ mpc' = "flag"
    /\ UNCHANGED <<netVars, epollVars, connVars, poolVars, cur, events, timers,
                   missed, signalVars>>

CheckFlagKeeps ==
    /\ mpc = "flag"
    /\ mpc' = "clear"
    /\ IF timer_flag[cur] = 1
       THEN DealTimer(cur)
       ELSE UNCHANGED <<epollVars, alive, avail, m_user_count, timers>>
    /\ UNCHANGED <<arrived, backlog, sends, improv, timer_flag, m_state, m_read_idx,
                   rbuf, wbuf, m_linger, m_trig_mode, poolVars, cur, events,
                   missed, signalVars>>

(* ... if (1 == timer_flag) close, and take the flag back.  A worker that  *)
(* is about to store timer_flag for this very job comes too late.  (Load,  *)
(* close and store are one step: the flag is 1 throughout, so whatever     *)
(* another thread does in between could as well come before or after.)     *)
CheckFlag ==
    /\ mpc = "flag"
    /\ mpc' = "clear"
    /\ IF timer_flag[cur] = 1
       THEN /\ DealTimer(cur)
            /\ timer_flag' = [timer_flag EXCEPT ![cur] = 0]
            /\ UNCHANGED missed
       ELSE /\ missed' = IF \E w \in Workers : wpc[w] = "flag" /\ job[w] = cur
                         THEN missed \cup {cur} ELSE missed
            /\ UNCHANGED <<epollVars, alive, avail, m_user_count, timers, timer_flag>>
    /\ UNCHANGED <<arrived, backlog, sends, improv, m_state, m_read_idx, rbuf, wbuf,
                   m_linger, m_trig_mode, poolVars, cur, events, signalVars>>

ClearImprovForgets ==
    /\ mpc = "clear"
    /\ mpc' = "loop"
    /\ cur' = NoFd
    /\ UNCHANGED <<netVars, epollVars, connVars, poolVars, events, timers, missed,
                   signalVars>>

ClearImprov ==
    /\ mpc = "clear"
    /\ improv' = [improv EXCEPT ![cur] = 0]
    /\ mpc' = "loop"
    /\ cur' = NoFd
    /\ UNCHANGED <<netVars, epollVars, timer_flag, m_state, m_read_idx, rbuf, wbuf,
                   m_linger, m_user_count, m_trig_mode, poolVars, events, timers,
                   missed, signalVars>>

(* dealwithsignal: one recv takes everything out of the pipe. *)
DealSignal(e) ==
    /\ Handle(e)
    /\ e.kind = "signal"
    /\ signals' = {}
    /\ timeout' = (timeout \/ "SIGALRM" \in signals)
    /\ stop_server' = (stop_server \/ "SIGTERM" \in signals)
    /\ UNCHANGED <<netVars, epollVars, connVars, poolVars, mpc, cur, timers, missed,
                   alarm_set>>

EndBatchNoAlarm ==
    /\ mpc = "loop"
    /\ events = {}
    /\ timeout' = FALSE
    /\ mpc' = IF stop_server THEN "stopped" ELSE "wait"
    /\ UNCHANGED <<netVars, epollVars, connVars, poolVars, cur, events, timers,
                   missed, signals, alarm_set, stop_server>>

(* After the batch: timer_handler ticks timer_set, which holds nothing in  *)
(* heap mode, and calls alarm() again; then while (!stop_server).          *)
EndBatch ==
    /\ mpc = "loop"
    /\ events = {}
    /\ alarm_set' = (alarm_set \/ timeout)
    /\ timeout' = FALSE
    /\ mpc' = IF stop_server THEN "stopped" ELSE "wait"
    /\ UNCHANGED <<netVars, epollVars, connVars, poolVars, cur, events, timers,
                   missed, signals, stop_server>>

MainStep ==
    \/ EpollWait
    \/ \E e \in events : \/ AcceptFails(e) \/ AcceptBusy(e) \/ AcceptConn(e)
                         \/ DealHup(e) \/ DealIO(e) \/ DealSignal(e)
    \/ Post \/ Spin \/ CheckFlag \/ ClearImprov
    \/ EndBatch
-----------------------------------------------------------------------------
(* The workers: threadpool::run. *)

SemTryWait(w) ==
    /\ wpc[w] = "wait"
    /\ m_queuestat' = m_queuestat - 1
    /\ wpc' = [wpc EXCEPT ![w] = "woken"]
    /\ UNCHANGED <<netVars, epollVars, connVars, m_workqueue, job, loopVars, signalVars>>

SemWait(w) ==
    /\ wpc[w] = "wait"
    /\ m_queuestat > 0
    /\ m_queuestat' = m_queuestat - 1
    /\ wpc' = [wpc EXCEPT ![w] = "woken"]
    /\ UNCHANGED <<netVars, epollVars, connVars, m_workqueue, job, loopVars, signalVars>>

PopFront(w) ==
    /\ wpc[w] = "woken"
    /\ IF m_workqueue = <<>>
       THEN /\ wpc' = [wpc EXCEPT ![w] = "wait"]
            /\ UNCHANGED <<m_workqueue, job>>
       ELSE /\ wpc' = [wpc EXCEPT ![w] = "run"]
            /\ job' = [job EXCEPT ![w] = Head(m_workqueue)]
            /\ m_workqueue' = Tail(m_workqueue)
    /\ UNCHANGED <<netVars, epollVars, connVars, m_queuestat, loopVars, signalVars>>

RunRead(w) ==
    /\ wpc[w] = "run"
    /\ m_state[job[w]] = 0
    /\ \E ok \in BOOLEAN :
         /\ ReadOnce(job[w], ok)
         /\ wpc' = [wpc EXCEPT ![w] = IF ok THEN "readOk" ELSE "failed"]
    /\ UNCHANGED <<arrived, backlog, alive, sends, epollVars, improv, timer_flag,
                   m_state, wbuf, m_linger, m_user_count, m_trig_mode,
                   m_workqueue, m_queuestat, job, loopVars, signalVars>>

RunWrite(w) ==
    /\ wpc[w] = "run"
    /\ m_state[job[w]] = 1
    /\ \E ok \in BOOLEAN :
         /\ Write(job[w], ok)
         /\ wpc' = [wpc EXCEPT ![w] = IF ok THEN "writeOk" ELSE "failed"]
    /\ UNCHANGED <<netVars, sock, m_user_count, m_trig_mode, m_workqueue,
                   m_queuestat, job, loopVars, signalVars>>

(* Where a worker goes after request->improv = 1. *)
Published(pc) ==
    CASE pc = "readOk"  -> "process"
      [] pc = "writeOk" -> "wait"
      [] pc = "failed"  -> "flag"

SetImprov(w) ==
    /\ wpc[w] \in {"readOk", "writeOk", "failed"}
    /\ improv' = [improv EXCEPT ![job[w]] = 1]
    /\ wpc' = [wpc EXCEPT ![w] = Published(wpc[w])]
    /\ job' = IF wpc[w] = "writeOk" THEN [job EXCEPT ![w] = NoFd] ELSE job
    /\ UNCHANGED <<netVars, epollVars, timer_flag, m_state, m_read_idx, rbuf, wbuf,
                   m_linger, m_user_count, m_trig_mode, m_workqueue, m_queuestat,
                   loopVars, signalVars>>

SetTimerFlag(w) ==
    /\ wpc[w] = "flag"
    /\ timer_flag' = [timer_flag EXCEPT ![job[w]] = 1]
    /\ wpc' = [wpc EXCEPT ![w] = "wait"]
    /\ job' = [job EXCEPT ![w] = NoFd]
    /\ UNCHANGED <<netVars, epollVars, improv, m_state, m_read_idx, rbuf, wbuf,
                   m_linger, m_user_count, m_trig_mode, m_workqueue, m_queuestat,
                   loopVars, signalVars>>

RunProcess(w) ==
    /\ wpc[w] = "process"
    /\ \E arm \in {"in", "out"} :
         /\ Process(job[w], arm)
         /\ wpc' = [wpc EXCEPT ![w] = IF arm = "in" THEN "armIn" ELSE "armOut"]
    /\ UNCHANGED <<netVars, epollVars, improv, timer_flag, m_state, m_read_idx, rbuf,
                   m_user_count, m_trig_mode, m_workqueue, m_queuestat, job,
                   loopVars, signalVars>>

RearmOutOnly(w) ==
    /\ wpc[w] \in {"armIn", "armOut"}
    /\ IF wpc[w] = "armOut" THEN Modfd(job[w], "out") ELSE UNCHANGED epoll
    /\ wpc' = [wpc EXCEPT ![w] = "wait"]
    /\ job' = [job EXCEPT ![w] = NoFd]
    /\ UNCHANGED <<netVars, sock, connVars, m_workqueue, m_queuestat, loopVars,
                   signalVars>>

(* The modfd that ends process(). *)
Rearm(w) ==
    /\ wpc[w] \in {"armIn", "armOut"}
    /\ Modfd(job[w], IF wpc[w] = "armIn" THEN "in" ELSE "out")
    /\ wpc' = [wpc EXCEPT ![w] = "wait"]
    /\ job' = [job EXCEPT ![w] = NoFd]
    /\ UNCHANGED <<netVars, sock, connVars, m_workqueue, m_queuestat, loopVars,
                   signalVars>>

WorkerStep(w) ==
    \/ SemWait(w) \/ PopFront(w) \/ RunRead(w) \/ RunWrite(w)
    \/ SetImprov(w) \/ SetTimerFlag(w) \/ RunProcess(w) \/ Rearm(w)
-----------------------------------------------------------------------------
(* The environment: clients, the alarm clock and the operator's SIGTERM.   *)
(* The handler sig_handler writes the signal number into the pipe.         *)

AlarmFires ==
    /\ "SIGALRM" \in Signals
    /\ alarm_set
    /\ alarm_set' = FALSE
    /\ signals' = signals \cup {"SIGALRM"}
    /\ UNCHANGED <<netVars, epollVars, connVars, poolVars, loopVars, timeout,
                   stop_server>>

Terminate ==
    /\ "SIGTERM" \in Signals
    /\ mpc # "stopped"
    /\ ~stop_server
    /\ signals' = signals \cup {"SIGTERM"}
    /\ UNCHANGED <<netVars, epollVars, connVars, poolVars, loopVars, alarm_set,
                   timeout, stop_server>>

Clients ==
    /\ ClientStep
    /\ UNCHANGED <<connVars, poolVars, loopVars, signalVars>>

Next ==
    \/ MainStep
    \/ \E w \in Workers : WorkerStep(w)
    \/ AlarmFires
    \/ Terminate
    \/ Clients

Spec == Init /\ [][Next]_vars

(* Every thread is scheduled and the alarm clock runs; clients and the     *)
(* operator need not do anything.                                          *)
Fairness ==
    /\ WF_vars(MainStep)
    /\ \A w \in Workers : WF_vars(WorkerStep(w))
    /\ WF_vars(AlarmFires)

FairSpec == Spec /\ Fairness
-----------------------------------------------------------------------------
(* What must be true of the server. *)

Busy(w)       == wpc[w] \in {"run", "readOk", "writeOk", "failed"}
Processing(w) == wpc[w] \in {"process", "armIn", "armOut"}
Waiting       == mpc \in {"post", "spin", "flag", "clear"}
InBatch(fd)   == \E e \in events : e.fd = fd

(* The pool never works behind the event loop's back: a request is queued  *)
(* or in a worker's recv or send only while the loop waits for it, there   *)
(* is never a second one, and each is signalled once.  So append() never   *)
(* drops a request (which would leave dealwithread waiting for ever) and   *)
(* no worker is woken for nothing (threadpool.h:67-78, 101-114).           *)
OneJobAtATime ==
    /\ Len(m_workqueue) <= 1
    /\ \A w1, w2 \in Workers : Busy(w1) /\ Busy(w2) => w1 = w2
    /\ m_workqueue # <<>> => mpc \in {"post", "spin"} /\ Head(m_workqueue) = cur
    /\ \A w \in Workers :
         /\ Busy(w) => mpc = "spin" /\ job[w] = cur /\ m_workqueue = <<>>
         /\ wpc[w] = "woken" => m_workqueue # <<>> /\ m_queuestat = 0
    /\ m_queuestat > 0 => m_workqueue # <<>>

(* improv is set for nobody but the connection the event loop is waiting   *)
(* for, so the loop never takes an earlier job's completion for the one it *)
(* waits for (webserver.cpp:265-275).                                      *)
NoStaleImprov ==
    \A fd \in Fds : improv[fd] = 1 => cur = fd /\ mpc \in {"spin", "flag", "clear"}

(* What epoll_wait reported is still about an open descriptor when its     *)
(* turn comes, whatever was handled before it in the batch                 *)
(* (webserver.cpp:316-348).                                                *)
EventsFresh ==
    \A e \in events : e.fd # NoFd => Open(e.fd)

(* m_user_count, the timer heap, the epoll set and the open descriptors    *)
(* agree at every step of every thread, so heap_timer is never asked to    *)
(* adjust or delete a timer it does not have, which ref_[] would turn into *)
(* the deletion of another connection's (webserver.cpp:132-178,            *)
(* Utils.cpp:103-107).                                                     *)
BooksBalance ==
    /\ timers = {fd \in Fds : Open(fd)}
    /\ timers = {fd \in Fds : epoll[fd] # "none"}
    /\ m_user_count = Cardinality(timers)

(* EPOLLONESHOT gives a connection one owner: while a worker processes it, *)
(* it is open and neither armed nor in a batch nor in another worker's     *)
(* hands (http_conn.cpp:62-95).  Holds on every descriptor the late store  *)
(* of timer_flag has spared.                                               *)
SingleOwner ==
    \A w \in Workers : Processing(w) /\ job[w] \notin missed =>
        /\ Open(job[w])
        /\ ~Armed(job[w])
        /\ ~InBatch(job[w])
        /\ \A v \in Workers \ {w} : wpc[v] \notin {"wait", "woken"} => job[v] # job[w]

(* No connection is forgotten: an open descriptor is armed, or in the      *)
(* batch, or the event loop is dealing with it, or a worker will re-arm    *)
(* it (threadpool.h:101-133, http_conn.cpp:720-731).                       *)
Processed(fd) == \E w \in Workers : Processing(w) /\ job[w] = fd

Kept(fd) ==
    \/ Armed(fd)
    \/ InBatch(fd)
    \/ cur = fd /\ mpc \in {"post", "spin", "flag"}
    \/ Processed(fd)

NoOrphan == \A fd \in Fds \ missed : Open(fd) => Kept(fd)

(* A connection is answered from its own bytes: neither the read buffer    *)
(* nor the pending response holds anything of an earlier client of the     *)
(* same descriptor (http_conn.cpp:121-166).                                *)
OwnBytes ==
    \A fd \in Fds \ missed : Open(fd) =>
        rbuf[fd] \subseteq {sock[fd]} /\ wbuf[fd] \subseteq {sock[fd]}

(* The order to close a connection dies with the hand-over it belongs to:  *)
(* timer_flag is never left for the next job, or the next client, of the   *)
(* descriptor (webserver.cpp:269-272).                                     *)
NoStaleFlag ==
    \A fd \in Fds \ missed :
        timer_flag[fd] = 1 => cur = fd /\ mpc \in {"spin", "flag"}

-----------------------------------------------------------------------------
(* Inductive strengthening of the invariants above: where the request and  *)
(* the flags of the hand-over may be at each place of the event loop, and  *)
(* who owns each descriptor.                                               *)

NoneWoken == \A w \in Workers : wpc[w] # "woken"
NoneBusy  == \A w \in Workers : ~Busy(w)

(* Where the one request handed to the pool is: in the queue and not       *)
(* signalled, signalled, a worker woken for it, a worker in its recv or    *)
(* send, or done.                                                          *)
Queued   == m_workqueue = <<cur>> /\ m_queuestat = 0 /\ NoneWoken /\ NoneBusy
Posted   == m_workqueue = <<cur>> /\ m_queuestat = 1 /\ NoneWoken /\ NoneBusy
Woken    == /\ m_workqueue = <<cur>> /\ m_queuestat = 0 /\ NoneBusy
            /\ \E w \in Workers :
                 wpc[w] = "woken" /\ \A v \in Workers \ {w} : wpc[v] # "woken"
Running  == /\ m_workqueue = <<>> /\ m_queuestat = 0 /\ NoneWoken
            /\ \E w \in Workers :
                 /\ Busy(w)
                 /\ job[w] = cur
                 /\ \A v \in Workers \ {w} : ~Busy(v)
Finished == m_workqueue = <<>> /\ m_queuestat = 0 /\ NoneWoken /\ NoneBusy

Handover ==
    /\ mpc \in {"wait", "loop", "flag", "clear", "stopped"} => Finished
    /\ mpc = "post" => Queued
    /\ mpc = "spin" => IF improv[cur] = 1 THEN Finished ELSE Posted \/ Woken \/ Running
    /\ mpc \in {"flag", "clear"} => improv[cur] = 1
    /\ \A fd \in Fds : improv[fd] = 1 => cur = fd /\ mpc \in {"spin", "flag", "clear"}
    /\ Waiting => cur \in Fds
    /\ \A w \in Workers : wpc[w] \notin {"wait", "woken"} => job[w] \in Fds

(* The books, and the batch: one event to a descriptor, none about the one *)
(* the loop is dealing with.                                               *)
Books ==
    /\ BooksBalance
    /\ EventsFresh
    /\ \A e, f \in events : e.fd # NoFd /\ e.fd = f.fd => e = f
    /\ mpc \in {"wait", "stopped"} => events = {}
    /\ Waiting => ~InBatch(cur)
    /\ mpc \in {"post", "spin", "flag"} => Open(cur)

(* Who owns a descriptor the late store of timer_flag has spared: the      *)
(* batch, a worker that processes it, a worker that will ask to close it,  *)
(* or the job that is on its way.                                          *)
Flagged(fd)   == \E w \in Workers : wpc[w] = "flag" /\ job[w] = fd
Written(fd)   == \E w \in Workers : wpc[w] \in {"writeOk", "failed"} /\ job[w] = fd

Handles(w)    == Processing(w) \/ wpc[w] = "flag"

Owned(fd) ==
    /\ InBatch(fd) => epoll[fd] = "off" /\ ~Processed(fd)
    /\ Processed(fd) => epoll[fd] = "off"
    /\ Processed(fd) \/ Flagged(fd) => timer_flag[fd] = 0
    /\ \A v, w \in Workers :
         Handles(v) /\ Handles(w) /\ job[v] = fd /\ job[w] = fd => v = w
    /\ Flagged(fd) \/ timer_flag[fd] = 1 =>
         cur = fd /\ mpc \in {"spin", "flag"} /\ improv[fd] = 1
    /\ cur = fd /\ mpc \in {"post", "spin"} /\ improv[fd] = 0 =>
         ~Processed(fd) /\ (epoll[fd] = "off" \/ Written(fd))
    /\ \A w \in Workers : wpc[w] = "writeOk" /\ job[w] = fd => Armed(fd)
    /\ cur = fd /\ mpc \in {"spin", "flag"} /\ improv[fd] = 1 =>
         timer_flag[fd] = 1 \/ Flagged(fd) \/ Armed(fd) \/ Processed(fd)

Ownership ==
    /\ \A fd \in Fds \ missed : Owned(fd)
    /\ NoOrphan
    /\ OwnBytes

(* The inductive invariant: every part above is preserved by every step    *)
(* given the others (webserver.cpp:256-296, threadpool.h:101-133).         *)
Inv == TypeOK /\ Handover /\ Books /\ Ownership
-----------------------------------------------------------------------------
(* "timer_flag: whether to close the connection" (http_conn.h:104): when   *)
(* the event loop is done with a connection, no worker is still about to   *)
(* ask for it to be closed.  Refuted: threadpool::run stores improv first. *)
CloseIsSeen ==
    mpc = "clear" => \A w \in Workers : ~(wpc[w] = "flag" /\ job[w] = cur)

(* The event loop never waits for ever on improv (webserver.cpp:265-276,   *)
(* 286-295): every request it queued reaches a worker that stores it.      *)
HandoverEnds == mpc = "spin" ~> mpc # "spin"

(* The descriptor of a client that hung up is given back, unless the loop  *)
(* has stopped or missed a flag on it (webserver.cpp:327-331, 269-272).    *)
Served(c) == \E fd \in Fds \ missed : sock[fd] = c

DepartedReaped ==
    \A c \in Conns :
        Served(c) /\ c \notin alive ~> ~Served(c) \/ mpc = "stopped"

(* The alarm is re-armed after every tick, however busy the loop is        *)
(* (webserver.cpp:352-356, Utils.cpp:82-86).                               *)
AlarmGoesOn == []<>(alarm_set \/ mpc = "stopped")

(* "Timers close inactive connections" (README.md:9): a connection that    *)
(* stays open gets some service again and again.  Refuted: timer_handler   *)
(* ticks timer_set even when the timers are in timer_heap.                 *)
IdleClosed ==
    \A fd \in Fds : \A c \in Conns :
        []<>(sock[fd] # c \/ mpc = "stopped" \/ c \in avail)
=============================================================================
