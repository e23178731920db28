--------------------------- MODULE WebServerProofs ---------------------------
(***************************************************************************)
(* Theorems about WebServer, for every number of descriptors, workers,     *)
(* connections and bytes, and every queue capacity.                        *)
(***************************************************************************)
EXTENDS WebServer, FiniteSetTheorems, TLAPS

-----------------------------------------------------------------------------
(* Type correctness. *)

LEMMA InitTypeOK == Init => TypeOK
<1> SUFFICES ASSUME Init PROVE TypeOK
  OBVIOUS
<1>1. EpollTypeOK
  BY EpollAssumption DEF EpollAssumption, Init, EpollInit, EpollTypeOK
<1>2. HttpConnTypeOK
  BY DEF Init, HttpConnInit, HttpConnTypeOK
<1>3. m_workqueue \in Seq(Fds) /\ m_queuestat \in Nat
  BY DEF Init
<1>4. wpc \in [Workers -> WorkerPC] /\ job \in [Workers -> Fds \cup {NoFd}]
  BY DEF Init, WorkerPC
<1> QED
  BY <1>1, <1>2, <1>3, <1>4 DEF Init, TypeOK

LEMMA IntAt ==
    ASSUME NEW f \in [Fds -> Int], NEW fd, NEW n \in Int
    PROVE  [f EXCEPT ![fd] = n] \in [Fds -> Int]
  OBVIOUS

LEMMA ResetConnType ==
    ASSUME HttpConnTypeOK, NEW fd, ResetConn(fd), m_user_count' \in Int,
           m_trig_mode' = m_trig_mode
    PROVE  HttpConnTypeOK'
<1>1. improv' \in [Fds -> {0, 1}] /\ timer_flag' \in [Fds -> {0, 1}]
  BY DEF HttpConnTypeOK, ResetConn
<1>2. m_state' \in [Fds -> {0, 1}]
  BY DEF HttpConnTypeOK, ResetConn
<1>5. m_read_idx' \in [Fds -> Int]
  BY 0 \in Int, IntAt DEF HttpConnTypeOK, ResetConn
<1>3. rbuf' \in [Fds -> SUBSET Conns] /\ wbuf' \in [Fds -> SUBSET Conns]
  BY DEF HttpConnTypeOK, ResetConn
<1>4. m_linger' \in [Fds -> BOOLEAN]
  BY DEF HttpConnTypeOK, ResetConn
<1> QED
  BY <1>1, <1>2, <1>3, <1>4, <1>5 DEF HttpConnTypeOK

LEMMA CloseFdType ==
    ASSUME EpollTypeOK, NEW fd, CloseFd(fd), UNCHANGED <<arrived, backlog, sends>>
    PROVE  EpollTypeOK'
  BY DEF EpollTypeOK, CloseFd

LEMMA MainTypeOK ==
    ASSUME TypeOK, MainStep
    PROVE  TypeOK'
<1>1. CASE EpollWait
  <2>1. PICK full \in SUBSET Fds :
          /\ events' = Batch(ReadyFds(full))
                \cup {e \in [kind : {"accept"}, fd : {NoFd}] : backlog # {}}
                \cup {e \in [kind : {"signal"}, fd : {NoFd}] : signals # {}}
          /\ Disable(ReadyFds(full))
    BY <1>1 DEF EpollWait
  <2>2. \A fd \in ReadyFds(full) : EventKind(fd) \in {"in", "out", "hup"}
    BY DEF ReadyFds, EventKind, Armed
  <2>3. ReadyFds(full) \subseteq Fds
    BY DEF ReadyFds
  <2>4. Batch(ReadyFds(full)) \subseteq Event
    BY <2>2, <2>3 DEF Batch, Event
  <2>5. events' \subseteq Event
    BY <2>1, <2>4 DEF Event
  <2>6. epoll' \in [Fds -> {"none", "off", "in", "out"}]
    BY <2>1 DEF Disable, TypeOK, EpollTypeOK
  <2> QED
    BY <1>1, <2>5, <2>6
    DEF EpollWait, TypeOK, EpollTypeOK, HttpConnTypeOK, netVars, connVars, poolVars,
        signalVars
<1>2. CASE \E e \in events : AcceptFails(e)
  BY <1>2 DEF AcceptFails, Handle, TypeOK, EpollTypeOK, HttpConnTypeOK, netVars,
      epollVars, connVars, poolVars, signalVars
<1>3. CASE \E e \in events : AcceptBusy(e)
  BY <1>3 DEF AcceptBusy, Handle, TypeOK, EpollTypeOK, HttpConnTypeOK,
      epollVars, connVars, poolVars, signalVars
<1>4. CASE \E e \in events : AcceptConn(e)
  <2>1. PICK e \in events : AcceptConn(e)
    BY <1>4
  <2>2. PICK fd \in Free, c \in Conns :
          InitConn(fd, c) /\ timers' = timers \cup {fd} /\ backlog' = backlog \ {c}
    BY <2>1 DEF AcceptConn
  <2>4. HttpConnTypeOK'
    BY <2>2, ResetConnType DEF InitConn, TypeOK, HttpConnTypeOK
  <2>5. EpollTypeOK'
    BY <2>1, <2>2 DEF AcceptConn, InitConn, Addfd, TypeOK, EpollTypeOK, Conns
  <2> QED
    BY <2>1, <2>2, <2>4, <2>5
    DEF AcceptConn, Free, Handle, TypeOK, poolVars, signalVars
<1>5. CASE \E e \in events : DealHup(e)
  <2>1. PICK e \in events : DealHup(e)
    BY <1>5
  <2>2. EpollTypeOK'
    BY <2>1, CloseFdType DEF DealHup, DealTimer, TypeOK
  <2> QED
    BY <2>1, <2>2 DEF DealHup, DealTimer, Handle, TypeOK, HttpConnTypeOK, poolVars,
        signalVars
<1>6. CASE \E e \in events : DealIO(e)
  <2>1. PICK e \in events : DealIO(e)
    BY <1>6
  <2>2. e.fd \in Fds
    BY <2>1 DEF DealIO, TypeOK, Event
  <2>3. m_workqueue' \in Seq(Fds)
    BY <2>1, <2>2 DEF DealIO, TypeOK
  <2>4. HttpConnTypeOK'
    BY <2>1 DEF DealIO, TypeOK, HttpConnTypeOK
  <2>5. EpollTypeOK'
    BY <2>1 DEF DealIO, TypeOK, EpollTypeOK, netVars, epollVars
  <2> QED
    BY <2>1, <2>2, <2>3, <2>4, <2>5 DEF DealIO, Handle, TypeOK, signalVars
<1>7. CASE \E e \in events : DealSignal(e)
  BY <1>7 DEF DealSignal, Handle, TypeOK, EpollTypeOK, HttpConnTypeOK, netVars,
      epollVars, connVars, poolVars
<1>8. CASE Post
  BY <1>8 DEF Post, TypeOK, EpollTypeOK, HttpConnTypeOK, netVars, epollVars,
      connVars, signalVars
<1>9. CASE Spin
  BY <1>9 DEF Spin, TypeOK, EpollTypeOK, HttpConnTypeOK, netVars, epollVars,
      connVars, poolVars, signalVars
<1>10. CASE CheckFlag
  <2>1. CASE timer_flag[cur] = 1
    <3>1. EpollTypeOK'
      BY <1>10, <2>1, CloseFdType DEF CheckFlag, DealTimer, TypeOK
    <3>2. HttpConnTypeOK'
      BY <1>10, <2>1 DEF CheckFlag, DealTimer, TypeOK, HttpConnTypeOK
    <3> QED
      BY <1>10, <2>1, <3>1, <3>2
      DEF CheckFlag, DealTimer, TypeOK, poolVars, signalVars
  <2>2. CASE timer_flag[cur] # 1
    <3>1. missed' \subseteq Fds \cup {NoFd}
      BY <1>10, <2>2 DEF CheckFlag, TypeOK
    <3> QED
      BY <1>10, <2>2, <3>1 DEF CheckFlag, TypeOK, EpollTypeOK, HttpConnTypeOK,
          epollVars, poolVars, signalVars
  <2> QED
    BY <2>1, <2>2
<1>11. CASE ClearImprov
  BY <1>11 DEF ClearImprov, TypeOK, EpollTypeOK, HttpConnTypeOK, netVars,
      epollVars, poolVars, signalVars
<1>12. CASE EndBatch
  BY <1>12 DEF EndBatch, TypeOK, EpollTypeOK, HttpConnTypeOK, netVars, epollVars,
      connVars, poolVars
<1> QED
  BY <1>1, <1>2, <1>3, <1>4, <1>5, <1>6, <1>7, <1>8, <1>9, <1>10, <1>11, <1>12
  DEF MainStep

LEMMA WorkerTypeOK ==
    ASSUME TypeOK, NEW w \in Workers, WorkerStep(w)
    PROVE  TypeOK'
<1>1. CASE SemWait(w)
  BY <1>1 DEF SemWait, TypeOK, WorkerPC, EpollTypeOK, HttpConnTypeOK, netVars,
      epollVars, connVars, loopVars, signalVars
<1>2. CASE PopFront(w)
  <2>1. /\ wpc' \in [Workers -> WorkerPC]
        /\ job' \in [Workers -> Fds \cup {NoFd}]
        /\ m_workqueue' \in Seq(Fds)
    <3>1. CASE m_workqueue = <<>>
      BY <1>2, <3>1 DEF PopFront, TypeOK, WorkerPC
    <3>2. CASE m_workqueue # <<>>
      <4>1. Head(m_workqueue) \in Fds /\ Tail(m_workqueue) \in Seq(Fds)
        BY <3>2 DEF TypeOK
      <4>2. wpc' = [wpc EXCEPT ![w] = "run"]
        BY <1>2, <3>2 DEF PopFront
      <4> QED
        BY <1>2, <3>2, <4>1, <4>2 DEF PopFront, TypeOK, WorkerPC
    <3> QED
      BY <3>1, <3>2
  <2> QED
    BY <1>2, <2>1 DEF PopFront, TypeOK, EpollTypeOK, HttpConnTypeOK, netVars,
        epollVars, connVars, loopVars, signalVars
<1>3. CASE RunRead(w)
  <2>1. PICK ok \in BOOLEAN :
          /\ ReadOnce(job[w], ok)
          /\ wpc' = [wpc EXCEPT ![w] = IF ok THEN "readOk" ELSE "failed"]
    BY <1>3 DEF RunRead
  <2>a. CASE UNCHANGED <<m_read_idx, rbuf, avail>>
    BY <1>3, <2>1, <2>a
    DEF RunRead, TypeOK, WorkerPC, EpollTypeOK, HttpConnTypeOK, epollVars, loopVars,
        signalVars
  <2>b. CASE ~UNCHANGED <<m_read_idx, rbuf, avail>>
    <3>1. PICK n \in Recv(job[w]) :
            /\ rbuf' = IF n = 1 THEN [rbuf EXCEPT ![job[w]] = @ \cup {sock[job[w]]}]
                                ELSE rbuf
            /\ avail' = avail \ {sock[job[w]]}
            /\ \/ m_read_idx' = [m_read_idx EXCEPT ![job[w]] = @ + n]
               \/ m_read_idx' = [m_read_idx EXCEPT ![job[w]] = @ + 1]
               \/ m_read_idx' = m_read_idx
      BY <2>1, <2>b DEF ReadOnce
    <3>2. n \in Int /\ (n = 1 => sock[job[w]] \in Conns)
      BY <3>1 DEF Recv, TypeOK, EpollTypeOK
    <3>3. rbuf' \in [Fds -> SUBSET Conns]
      <4>1. CASE n = 1
        <5>1. \A fd \in Fds : rbuf[fd] \cup {sock[job[w]]} \in SUBSET Conns
          BY <3>2, <4>1 DEF TypeOK, HttpConnTypeOK
        <5> QED
          BY <3>1, <4>1, <5>1 DEF TypeOK, HttpConnTypeOK
      <4>2. CASE n # 1
        BY <3>1, <4>2 DEF TypeOK, HttpConnTypeOK
      <4> QED
        BY <4>1, <4>2
    <3>4. m_read_idx' \in [Fds -> Int]
      <4>1. CASE job[w] \in Fds
        <5>1. m_read_idx[job[w]] + n \in Int /\ m_read_idx[job[w]] + 1 \in Int
          BY <3>2, <4>1 DEF TypeOK, HttpConnTypeOK
        <5> QED
          BY <3>1, <5>1, IntAt DEF TypeOK, HttpConnTypeOK
      <4>2. CASE job[w] \notin Fds
        <5>1. \A x : [m_read_idx EXCEPT ![job[w]] = x] = m_read_idx
          BY <4>2 DEF TypeOK, HttpConnTypeOK
        <5> QED
          BY <3>1, <5>1 DEF TypeOK, HttpConnTypeOK
      <4> QED
        BY <4>1, <4>2
    <3>5. wpc' \in [Workers -> WorkerPC]
      BY <2>1 DEF TypeOK, WorkerPC
    <3> QED
      BY <1>3, <3>1, <3>3, <3>4, <3>5
      DEF RunRead, TypeOK, EpollTypeOK, HttpConnTypeOK, epollVars, loopVars, signalVars
  <2> QED
    BY <2>a, <2>b
<1>4. CASE RunWrite(w)
  <2>1. PICK ok \in BOOLEAN :
          /\ Write(job[w], ok)
          /\ wpc' = [wpc EXCEPT ![w] = IF ok THEN "writeOk" ELSE "failed"]
    BY <1>4 DEF RunWrite
  <2>2. epoll' \in [Fds -> {"none", "off", "in", "out"}]
    BY <2>1 DEF Write, WriteNothing, WriteEagain, WriteError, WriteAll, Modfd, TypeOK,
        EpollTypeOK
  <2>3. HttpConnTypeOK'
    <3>1. CASE ResetConn(job[w])
      BY <1>4, <3>1, ResetConnType DEF RunWrite, TypeOK, HttpConnTypeOK
    <3>2. CASE ~ResetConn(job[w])
      <4>1. UNCHANGED <<improv, timer_flag, m_state, m_read_idx, rbuf, m_linger>>
        BY <2>1, <3>2 DEF Write, WriteNothing, WriteEagain, WriteError, WriteAll
      <4>2. wbuf' = wbuf \/ wbuf' = [wbuf EXCEPT ![job[w]] = {}]
        BY <2>1, <3>2 DEF Write, WriteNothing, WriteEagain, WriteError, WriteAll
      <4>3. wbuf' \in [Fds -> SUBSET Conns]
        BY <4>2 DEF TypeOK, HttpConnTypeOK
      <4> QED
        BY <1>4, <4>1, <4>3 DEF RunWrite, TypeOK, HttpConnTypeOK
    <3> QED
      BY <3>1, <3>2
  <2>4. wpc' \in [Workers -> WorkerPC]
    BY <2>1 DEF TypeOK, WorkerPC
  <2> QED
    BY <1>4, <2>2, <2>3, <2>4
    DEF RunWrite, TypeOK, EpollTypeOK, netVars, loopVars, signalVars
<1>5. CASE SetImprov(w)
  <2>1. improv' \in [Fds -> {0, 1}]
    BY <1>5 DEF SetImprov, TypeOK, HttpConnTypeOK
  <2>2. wpc' \in [Workers -> WorkerPC] /\ job' \in [Workers -> Fds \cup {NoFd}]
    BY <1>5 DEF SetImprov, Published, TypeOK, WorkerPC
  <2> QED
    BY <1>5, <2>1, <2>2 DEF SetImprov, TypeOK, EpollTypeOK, HttpConnTypeOK, netVars,
        epollVars, loopVars, signalVars
<1>6. CASE SetTimerFlag(w)
  <2>1. timer_flag' \in [Fds -> {0, 1}]
    BY <1>6 DEF SetTimerFlag, TypeOK, HttpConnTypeOK
  <2>2. wpc' \in [Workers -> WorkerPC] /\ job' \in [Workers -> Fds \cup {NoFd}]
    BY <1>6 DEF SetTimerFlag, TypeOK, WorkerPC
  <2> QED
    BY <1>6, <2>1, <2>2 DEF SetTimerFlag, TypeOK, EpollTypeOK, HttpConnTypeOK,
        netVars, epollVars, loopVars, signalVars
<1>7. CASE RunProcess(w)
  <2>1. PICK arm \in {"in", "out"} :
          /\ Process(job[w], arm)
          /\ wpc' = [wpc EXCEPT ![w] = IF arm = "in" THEN "armIn" ELSE "armOut"]
    BY <1>7 DEF RunProcess
  <2>2. wbuf' \in [Fds -> SUBSET Conns]
    BY <2>1 DEF Process, TypeOK, HttpConnTypeOK
  <2>3. m_linger' \in [Fds -> BOOLEAN]
    BY <2>1 DEF Process, TypeOK, HttpConnTypeOK
  <2>4. wpc' \in [Workers -> WorkerPC]
    BY <2>1 DEF TypeOK, WorkerPC
  <2> QED
    BY <1>7, <2>2, <2>3, <2>4 DEF RunProcess, TypeOK, EpollTypeOK, HttpConnTypeOK,
        netVars, epollVars, loopVars, signalVars
<1>8. CASE Rearm(w)
  <2>1. epoll' \in [Fds -> {"none", "off", "in", "out"}]
    BY <1>8 DEF Rearm, Modfd, TypeOK, EpollTypeOK
  <2>2. wpc' \in [Workers -> WorkerPC] /\ job' \in [Workers -> Fds \cup {NoFd}]
    BY <1>8 DEF Rearm, TypeOK, WorkerPC
  <2> QED
    BY <1>8, <2>1, <2>2 DEF Rearm, TypeOK, EpollTypeOK, HttpConnTypeOK, netVars,
        connVars, loopVars, signalVars
<1> QED
  BY <1>1, <1>2, <1>3, <1>4, <1>5, <1>6, <1>7, <1>8 DEF WorkerStep

LEMMA EnvironmentTypeOK ==
    ASSUME TypeOK, AlarmFires \/ Terminate \/ Clients
    PROVE  TypeOK'
<1>1. CASE AlarmFires
  BY <1>1 DEF AlarmFires, TypeOK, EpollTypeOK, HttpConnTypeOK, netVars, epollVars,
      connVars, poolVars, loopVars
<1>2. CASE Terminate
  BY <1>2 DEF Terminate, TypeOK, EpollTypeOK, HttpConnTypeOK, netVars, epollVars,
      connVars, poolVars, loopVars
<1>3. CASE Clients
  <2>1. EpollTypeOK'
    <3>1. CASE Connect
      BY <3>1, EpollAssumption
      DEF EpollAssumption, Connect, TypeOK, EpollTypeOK, epollVars, Conns
    <3>2. CASE \E c \in Conns : Send(c)
      BY <3>2, EpollAssumption
      DEF EpollAssumption, Send, TypeOK, EpollTypeOK, epollVars
    <3>3. CASE \E c \in Conns : HangUp(c)
      BY <3>3 DEF HangUp, TypeOK, EpollTypeOK, epollVars
    <3> QED
      BY <1>3, <3>1, <3>2, <3>3 DEF Clients, ClientStep
  <2> QED
    BY <1>3, <2>1 DEF Clients, TypeOK, HttpConnTypeOK, connVars, poolVars, loopVars,
        signalVars
<1> QED
  BY <1>1, <1>2, <1>3

LEMMA NextTypeOK == TypeOK /\ [Next]_vars => TypeOK'
<1> SUFFICES ASSUME TypeOK, [Next]_vars PROVE TypeOK'
  OBVIOUS
<1>1. CASE UNCHANGED vars
  BY <1>1 DEF vars, netVars, epollVars, connVars, poolVars, loopVars, signalVars,
      TypeOK, EpollTypeOK, HttpConnTypeOK
<1> QED
  BY <1>1, MainTypeOK, WorkerTypeOK, EnvironmentTypeOK DEF Next

(* Every variable keeps its type, and in particular the request queue      *)
(* holds descriptors only and its semaphore never goes below zero.         *)
THEOREM TypeCorrect == Spec => []TypeOK
  BY InitTypeOK, NextTypeOK, PTL DEF Spec
-----------------------------------------------------------------------------
(* The hand-over between the event loop and the pool. *)

LEMMA InitHandover == Init => Handover
  BY WebServerAssumption
  DEF WebServerAssumption, Init, HttpConnInit, Handover, Finished, NoneWoken, NoneBusy,
      Busy, Waiting

LEMMA ResetImprov ==
    ASSUME NEW fd, ResetConn(fd)
    PROVE  improv' = [improv EXCEPT ![fd] = 0]
  BY DEF ResetConn

(* While the loop is not waiting, no step of its own disturbs the hand-over *)
(* unless it sets improv or queues a request.                              *)
LEMMA LoopHandover ==
    ASSUME TypeOK, Handover, UNCHANGED poolVars, UNCHANGED cur,
           mpc \in {"wait", "loop"}, mpc' \in {"wait", "loop", "stopped"},
           improv' = improv \/ \E fd \in Fds : improv' = [improv EXCEPT ![fd] = 0]
    PROVE  Handover'
<1>1. \A fd \in Fds : improv[fd] = 0 /\ improv'[fd] = 0
  BY DEF Handover, TypeOK, HttpConnTypeOK
<1> QED
  BY <1>1 DEF Handover, Finished, NoneWoken, NoneBusy, Busy, Waiting, poolVars

LEMMA MainHandover ==
    ASSUME TypeOK, Handover, MainStep
    PROVE  Handover'
<1>1. CASE EpollWait
  BY <1>1, LoopHandover DEF EpollWait, connVars
<1>2. CASE \E e \in events : AcceptFails(e) \/ AcceptBusy(e)
  BY <1>2, LoopHandover DEF AcceptFails, AcceptBusy, Handle, connVars
<1>3. CASE \E e \in events : AcceptConn(e)
  <2>1. \E fd \in Fds : improv' = [improv EXCEPT ![fd] = 0]
    BY <1>3, ResetImprov DEF AcceptConn, InitConn, Free
  <2> QED
    BY <1>3, <2>1, LoopHandover DEF AcceptConn, Handle
<1>4. CASE \E e \in events : DealHup(e) \/ DealSignal(e)
  BY <1>4, LoopHandover DEF DealHup, DealSignal, Handle, connVars
<1>5. CASE \E e \in events : DealIO(e)
  <2>1. PICK e \in events : DealIO(e)
    BY <1>5
  <2>2. e.fd \in Fds
    BY <2>1 DEF DealIO, TypeOK, Event
  <2>3. Finished /\ Len(m_workqueue) = 0 /\ mpc = "loop"
    BY <2>1 DEF DealIO, Handle, Handover, Finished
  <2>4. mpc' = "post" /\ cur' = e.fd /\ m_workqueue' = <<e.fd>>
    BY <2>1, <2>3, WebServerAssumption DEF WebServerAssumption, DealIO, Finished
  <2>5. \A fd \in Fds : improv[fd] = 0
    BY <2>3 DEF Handover, TypeOK, HttpConnTypeOK
  <2> QED
    BY <2>1, <2>2, <2>3, <2>4, <2>5
    DEF DealIO, Handover, Finished, Queued, NoneWoken, NoneBusy, Busy, Waiting
<1>6. CASE Post
  <2>1. improv[cur] # 1
    BY <1>6 DEF Post, Handover, Waiting
  <2> QED
    BY <1>6, <2>1
    DEF Post, Handover, Queued, Posted, NoneWoken, NoneBusy, Busy, Waiting, connVars
<1>7. CASE Spin
  BY <1>7 DEF Spin, Handover, Finished, NoneWoken, NoneBusy, Busy, Waiting, connVars,
      poolVars
<1>8. CASE CheckFlag
  BY <1>8 DEF CheckFlag, Handover, Finished, NoneWoken, NoneBusy, Busy, Waiting,
      poolVars
<1>9. CASE ClearImprov
  <2>1. \A fd \in Fds : improv'[fd] = 0
    BY <1>9 DEF ClearImprov, Handover, TypeOK, HttpConnTypeOK
  <2> QED
    BY <1>9, <2>1
    DEF ClearImprov, Handover, Finished, NoneWoken, NoneBusy, Busy, Waiting, poolVars
<1>10. CASE EndBatch
  BY <1>10, LoopHandover DEF EndBatch, connVars
<1> QED
  BY <1>1, <1>2, <1>3, <1>4, <1>5, <1>6, <1>7, <1>8, <1>9, <1>10 DEF MainStep

(* A worker in recv or send is there for the connection the loop waits for. *)
LEMMA BusyIsRunning ==
    ASSUME TypeOK, Handover, NEW w \in Workers, Busy(w)
    PROVE  mpc = "spin" /\ improv[cur] # 1 /\ Running /\ job[w] = cur /\ cur \in Fds
  BY DEF Handover, Finished, Queued, Posted, Woken, Running, NoneBusy, Waiting, TypeOK

LEMMA WorkerHandover ==
    ASSUME TypeOK, Handover, NEW w \in Workers, WorkerStep(w)
    PROVE  Handover'
<1>1. CASE SemWait(w)
  <2>1. mpc = "spin" /\ improv[cur] # 1 /\ Posted
    BY <1>1 DEF SemWait, Handover, Finished, Queued, Posted, Woken, Running, TypeOK
  <2>2. Woken'
    BY <1>1, <2>1 DEF SemWait, Posted, Woken, NoneWoken, NoneBusy, Busy, loopVars, TypeOK
  <2> QED
    BY <1>1, <2>1, <2>2 DEF SemWait, Handover, Waiting, loopVars, connVars, TypeOK
<1>2. CASE PopFront(w)
  <2>1. mpc = "spin" /\ improv[cur] # 1 /\ Woken
    BY <1>2
    DEF PopFront, Handover, Finished, Queued, Posted, Woken, Running, NoneWoken, TypeOK
  <2>2. /\ m_workqueue' = <<>>
        /\ wpc' = [wpc EXCEPT ![w] = "run"]
        /\ job' = [job EXCEPT ![w] = cur]
    BY <1>2, <2>1 DEF PopFront, Woken
  <2>3. Running'
    BY <1>2, <2>1, <2>2
    DEF PopFront, Woken, Running, NoneWoken, NoneBusy, Busy, loopVars, TypeOK
  <2> QED
    BY <1>2, <2>1, <2>2, <2>3 DEF PopFront, Handover, Waiting, loopVars, connVars, TypeOK
<1>3. CASE RunRead(w)
  <2>1. Busy(w) /\ mpc = "spin" /\ improv[cur] # 1 /\ Running /\ job[w] = cur
    BY <1>3, BusyIsRunning DEF RunRead, Busy
  <2>2. wpc' = [wpc EXCEPT ![w] = "readOk"] \/ wpc' = [wpc EXCEPT ![w] = "failed"]
    BY <1>3 DEF RunRead
  <2>3. Running'
    BY <1>3, <2>1, <2>2 DEF RunRead, Running, NoneWoken, Busy, loopVars, TypeOK
  <2> QED
    BY <1>3, <2>1, <2>2, <2>3 DEF RunRead, Handover, Waiting, loopVars, TypeOK
<1>4. CASE RunWrite(w)
  <2>1. Busy(w) /\ mpc = "spin" /\ improv[cur] # 1 /\ Running /\ job[w] = cur
    BY <1>4, BusyIsRunning DEF RunWrite, Busy
  <2>2. wpc' = [wpc EXCEPT ![w] = "writeOk"] \/ wpc' = [wpc EXCEPT ![w] = "failed"]
    BY <1>4 DEF RunWrite
  <2>3. Running'
    BY <1>4, <2>1, <2>2 DEF RunWrite, Running, NoneWoken, Busy, loopVars, TypeOK
  <2>4. improv' = improv \/ improv' = [improv EXCEPT ![cur] = 0]
    BY <1>4, <2>1, ResetImprov
    DEF RunWrite, Write, WriteNothing, WriteEagain, WriteError, WriteAll
  <2>5. \A fd \in Fds : improv'[fd] = 1 => improv[fd] = 1
    BY <2>4 DEF TypeOK, HttpConnTypeOK
  <2>6. improv'[cur] # 1
    BY <2>1, <2>5, BusyIsRunning
  <2> QED
    BY <1>4, <2>1, <2>2, <2>3, <2>5, <2>6
    DEF RunWrite, Handover, Waiting, loopVars, TypeOK
<1>5. CASE SetImprov(w)
  <2>1. Busy(w)
    BY <1>5 DEF SetImprov, Busy
  <2>2. /\ mpc = "spin" /\ Running /\ job[w] = cur /\ cur \in Fds
    BY <2>1, BusyIsRunning
  <2>3. improv' = [improv EXCEPT ![cur] = 1]
    BY <1>5, <2>2 DEF SetImprov
  <2>4. improv'[cur] = 1 /\ \A fd \in Fds : improv'[fd] = 1 => fd = cur
    BY <2>2, <2>3 DEF Handover, TypeOK, HttpConnTypeOK
  <2>5. \E pc \in {"process", "wait", "flag"} :
          wpc' = [wpc EXCEPT ![w] = pc] /\ (pc # "wait" => job' = job)
                                       /\ (pc = "wait" => job' = [job EXCEPT ![w] = NoFd])
    BY <1>5 DEF SetImprov, Published
  <2>6. Finished'
    BY <1>5, <2>1, <2>2, <2>5
    DEF SetImprov, Running, Finished, NoneWoken, NoneBusy, Busy, TypeOK
  <2> QED
    BY <1>5, <2>2, <2>4, <2>5, <2>6
    DEF SetImprov, Handover, Waiting, loopVars, TypeOK
<1>6. CASE SetTimerFlag(w) \/ Rearm(w)
  <2>1. wpc' = [wpc EXCEPT ![w] = "wait"] /\ job' = [job EXCEPT ![w] = NoFd]
    BY <1>6 DEF SetTimerFlag, Rearm
  <2>2. UNCHANGED <<improv, m_workqueue, m_queuestat, loopVars>>
    BY <1>6 DEF SetTimerFlag, Rearm, connVars
  <2>3. ~Busy(w) /\ wpc[w] # "woken"
    BY <1>6 DEF SetTimerFlag, Rearm, Busy
  <2> QED
    BY <2>1, <2>2, <2>3
    DEF Handover, Finished, Queued, Posted, Woken, Running, NoneWoken, NoneBusy, Busy,
        Waiting, loopVars, TypeOK
<1>7. CASE RunProcess(w)
  <2>1. wpc' = [wpc EXCEPT ![w] = "armIn"] \/ wpc' = [wpc EXCEPT ![w] = "armOut"]
    BY <1>7 DEF RunProcess
  <2>2. UNCHANGED <<improv, m_workqueue, m_queuestat, job, loopVars>>
    BY <1>7 DEF RunProcess
  <2>3. ~Busy(w) /\ wpc[w] # "woken" /\ wpc[w] # "wait"
    BY <1>7 DEF RunProcess, Busy
  <2> QED
    BY <2>1, <2>2, <2>3
    DEF Handover, Finished, Queued, Posted, Woken, Running, NoneWoken, NoneBusy, Busy,
        Waiting, loopVars, TypeOK
<1> QED
  BY <1>1, <1>2, <1>3, <1>4, <1>5, <1>6, <1>7 DEF WorkerStep

LEMMA NextHandover == TypeOK /\ Handover /\ [Next]_vars => Handover'
<1> SUFFICES ASSUME TypeOK, Handover, [Next]_vars PROVE Handover'
  OBVIOUS
<1>1. CASE UNCHANGED vars \/ AlarmFires \/ Terminate \/ Clients
  <2>1. UNCHANGED <<improv, poolVars, mpc, cur>>
    BY <1>1 DEF vars, AlarmFires, Terminate, Clients, connVars, loopVars
  <2> QED
    BY <2>1 DEF Handover, Finished, Queued, Posted, Woken, Running, NoneWoken, NoneBusy,
        Busy, Waiting, poolVars
<1> QED
  BY <1>1, MainHandover, WorkerHandover DEF Next

LEMMA HandoverInvariant == Spec => [](TypeOK /\ Handover)
  BY InitTypeOK, NextTypeOK, InitHandover, NextHandover, PTL DEF Spec

(* The pool works only for the connection the event loop waits for, on one *)
(* request at a time, and is signalled once for it (threadpool.h:67-133,   *)
(* webserver.cpp:256-296).                                                 *)
THEOREM OneJob == Spec => []OneJobAtATime
<1>1. TypeOK /\ Handover => OneJobAtATime
  <2> SUFFICES ASSUME TypeOK, Handover PROVE OneJobAtATime
    OBVIOUS
  <2>1. mpc \in {"wait", "loop", "flag", "clear", "stopped"} \/ mpc = "post" \/ mpc = "spin"
    BY DEF TypeOK
  <2>2. CASE Finished
    BY <2>2 DEF Finished, NoneWoken, NoneBusy, OneJobAtATime
  <2>3. CASE mpc = "post" /\ Queued
    BY <2>3 DEF Queued, NoneWoken, NoneBusy, OneJobAtATime
  <2>4. CASE mpc = "spin" /\ Posted
    BY <2>4 DEF Posted, NoneWoken, NoneBusy, OneJobAtATime
  <2>6. CASE mpc = "spin" /\ Woken
    BY <2>6 DEF Woken, NoneBusy, OneJobAtATime
  <2>5. CASE mpc = "spin" /\ Running
    BY <2>5 DEF Running, NoneWoken, OneJobAtATime
  <2> QED
    BY <2>1, <2>2, <2>3, <2>4, <2>5, <2>6 DEF Handover
<1> QED
  BY <1>1, HandoverInvariant, PTL

(* The loop never takes the completion of an earlier job for that of the   *)
(* job it waits for (webserver.cpp:265-275).                               *)
THEOREM ImprovIsFresh == Spec => []NoStaleImprov
<1>1. Handover => NoStaleImprov
  BY DEF Handover, NoStaleImprov
<1> QED
  BY <1>1, HandoverInvariant, PTL
-----------------------------------------------------------------------------
(* The books: timers, the epoll set, open descriptors and m_user_count. *)

LEMMA InitBooks == Init => Books
  BY FS_EmptySet
  DEF Init, EpollInit, HttpConnInit, Books, BooksBalance, EventsFresh, Waiting, Open

LEMMA TimersFinite == ASSUME TypeOK PROVE IsFiniteSet(timers)
  BY EpollAssumption, FS_Subset DEF EpollAssumption, TypeOK

LEMMA DealTimerBalances ==
    ASSUME TypeOK, BooksBalance, NEW fd \in Fds, Open(fd), DealTimer(fd)
    PROVE  /\ BooksBalance'
           /\ \A g \in Fds : Open(g)' <=> Open(g) /\ g # fd
<1>1. timers' = timers \ {fd} /\ m_user_count' = m_user_count - 1 /\ fd \in timers
  BY DEF DealTimer, BooksBalance
<1>2. m_user_count' = Cardinality(timers')
  BY <1>1, TimersFinite, FS_RemoveElement DEF BooksBalance
<1>3. \A g \in Fds : Open(g)' <=> Open(g) /\ g # fd
  BY DEF DealTimer, CloseFd, Open, TypeOK, EpollTypeOK
<1>4. \A g \in Fds : epoll'[g] # "none" <=> epoll[g] # "none" /\ g # fd
  BY DEF DealTimer, CloseFd, TypeOK, EpollTypeOK
<1> QED
  BY <1>1, <1>2, <1>3, <1>4 DEF BooksBalance

LEMMA AcceptBalances ==
    ASSUME TypeOK, BooksBalance, NEW fd \in Free, NEW c \in Conns, InitConn(fd, c),
           timers' = timers \cup {fd}
    PROVE  /\ BooksBalance'
           /\ \A g \in Fds : Open(g)' <=> Open(g) \/ g = fd
<1>1. fd \in Fds /\ fd \notin timers /\ m_user_count' = m_user_count + 1
  BY DEF Free, BooksBalance, InitConn
<1>2. m_user_count' = Cardinality(timers')
  BY <1>1, TimersFinite, FS_AddElement DEF BooksBalance
<1>3. c # NoConn
  BY EpollAssumption DEF EpollAssumption, Conns, NoConn
<1>4. \A g \in Fds : Open(g)' <=> Open(g) \/ g = fd
  BY <1>1, <1>3 DEF InitConn, Addfd, Open, TypeOK, EpollTypeOK
<1>5. \A g \in Fds : epoll'[g] # "none" <=> epoll[g] # "none" \/ g = fd
  BY <1>1 DEF InitConn, Addfd, TypeOK, EpollTypeOK
<1> QED
  BY <1>1, <1>2, <1>4, <1>5 DEF BooksBalance

LEMMA ModfdBalances ==
    ASSUME TypeOK, Books, NEW fd, NEW ev \in {"in", "out"}, Modfd(fd, ev),
           UNCHANGED <<sock, timers, m_user_count, events, mpc, cur>>
    PROVE  Books'
<1>1. \A g \in Fds : epoll'[g] # "none" <=> epoll[g] # "none"
  BY DEF Modfd, TypeOK, EpollTypeOK
<1> QED
  BY <1>1 DEF Books, BooksBalance, EventsFresh, InBatch, Waiting, Open

(* Nothing a step leaves alone can unbalance the books.                    *)
LEMMA SameBooks ==
    ASSUME Books,
           UNCHANGED <<sock, epoll, timers, m_user_count, events, mpc, cur>>
    PROVE  Books'
  BY DEF Books, BooksBalance, EventsFresh, InBatch, Waiting, Open

LEMMA MainBooks ==
    ASSUME TypeOK, Handover, Books, MainStep
    PROVE  Books'
<1>1. CASE EpollWait
  <2>1. PICK full \in SUBSET Fds :
          /\ events' = Batch(ReadyFds(full))
                \cup {e \in [kind : {"accept"}, fd : {NoFd}] : backlog # {}}
                \cup {e \in [kind : {"signal"}, fd : {NoFd}] : signals # {}}
          /\ Disable(ReadyFds(full))
    BY <1>1 DEF EpollWait
  <2>2. \A g \in Fds : epoll'[g] # "none" <=> epoll[g] # "none"
    BY <2>1 DEF Disable, ReadyFds, Armed
  <2>3. \A e \in events' : e.fd # NoFd =>
          /\ e.fd \in ReadyFds(full)
          /\ e = [kind |-> EventKind(e.fd), fd |-> e.fd]
    BY <2>1 DEF Batch
  <2>4. EventsFresh'
    BY <1>1, <2>3 DEF EpollWait, EventsFresh, ReadyFds, Armed, Books, BooksBalance, Open
  <2> QED
    BY <1>1, <2>2, <2>3, <2>4
    DEF EpollWait, Books, BooksBalance, Waiting, InBatch, connVars, Open
<1>2. CASE \E e \in events : AcceptFails(e) \/ AcceptBusy(e) \/ DealSignal(e)
  BY <1>2 DEF AcceptFails, AcceptBusy, DealSignal, Handle, Books, BooksBalance,
      EventsFresh, InBatch, Waiting, Open, epollVars, connVars
<1>3. CASE \E e \in events : AcceptConn(e)
  <2>1. PICK e \in events : AcceptConn(e)
    BY <1>3
  <2>2. PICK fd \in Free, c \in Conns : InitConn(fd, c) /\ timers' = timers \cup {fd}
    BY <2>1 DEF AcceptConn
  <2>3. BooksBalance' /\ \A g \in Fds : Open(g) => Open(g)'
    BY <2>2, AcceptBalances DEF Books
  <2>4. events' \subseteq events /\ mpc = "loop" /\ mpc' = "loop"
    BY <2>1 DEF AcceptConn, Handle
  <2>5. \A f \in events : f.fd # NoFd => f.fd \in Fds
    BY DEF TypeOK, Event
  <2> QED
    BY <2>3, <2>4, <2>5 DEF Books, EventsFresh, Waiting
<1>4. CASE \E e \in events : DealHup(e)
  <2>1. PICK e \in events : DealHup(e)
    BY <1>4
  <2>2. e.fd \in Fds /\ e.fd # NoFd
    BY <2>1, WebServerAssumption DEF WebServerAssumption, DealHup, TypeOK, Event
  <2>3. Open(e.fd) /\ DealTimer(e.fd)
    BY <2>1, <2>2 DEF DealHup, Books, EventsFresh
  <2>4. BooksBalance' /\ \A g \in Fds : Open(g)' <=> Open(g) /\ g # e.fd
    BY <2>2, <2>3, DealTimerBalances DEF Books
  <2>5. events' = events \ {e} /\ mpc = "loop" /\ mpc' = "loop"
    BY <2>1 DEF DealHup, Handle
  <2>6. \A f \in events : f.fd # NoFd => f.fd \in Fds
    BY DEF TypeOK, Event
  <2> QED
    BY <2>2, <2>4, <2>5, <2>6 DEF Books, EventsFresh, Waiting
<1>5. CASE \E e \in events : DealIO(e)
  <2>1. PICK e \in events : DealIO(e)
    BY <1>5
  <2>2. e.fd \in Fds /\ e.fd # NoFd
    BY <2>1, WebServerAssumption DEF WebServerAssumption, DealIO, TypeOK, Event
  <2>3. /\ events' = events \ {e} /\ cur' = e.fd /\ mpc' \in {"post", "spin"}
        /\ UNCHANGED <<sock, epoll, timers, m_user_count>>
    BY <2>1 DEF DealIO, Handle, epollVars
  <2>4. BooksBalance' /\ EventsFresh'
    BY <2>3 DEF Books, BooksBalance, EventsFresh, Open
  <2>5. Open(e.fd)' /\ \A f \in events' : f.fd # e.fd
    BY <2>2, <2>3 DEF Books, EventsFresh, Open
  <2> QED
    BY <2>3, <2>4, <2>5 DEF Books, InBatch
<1>6. CASE Post \/ Spin
  BY <1>6 DEF Post, Spin, Books, BooksBalance, EventsFresh, InBatch, Waiting, Open,
      epollVars, connVars
<1>7. CASE CheckFlag
  <2>1. CASE timer_flag[cur] = 1
    <3>1. cur \in Fds /\ Open(cur) /\ DealTimer(cur)
      BY <1>7, <2>1 DEF CheckFlag, Books, Handover, Waiting
    <3>2. BooksBalance' /\ \A g \in Fds : Open(g)' <=> Open(g) /\ g # cur
      BY <3>1, DealTimerBalances DEF Books
    <3>3. UNCHANGED <<events, cur>> /\ mpc = "flag" /\ mpc' = "clear"
      BY <1>7 DEF CheckFlag
    <3>4. ~InBatch(cur)
      BY <3>3 DEF Books, Waiting
    <3>5. \A f \in events : f.fd # NoFd => f.fd \in Fds
      BY DEF TypeOK, Event
    <3>6. EventsFresh'
      BY <3>2, <3>3, <3>4, <3>5 DEF Books, EventsFresh, InBatch
    <3> QED
      BY <3>2, <3>3, <3>4, <3>6 DEF Books, InBatch
  <2>2. CASE timer_flag[cur] # 1
    BY <1>7, <2>2 DEF CheckFlag, Books, BooksBalance, EventsFresh, InBatch, Waiting,
        Open, epollVars
  <2> QED
    BY <2>1, <2>2
<1>8. CASE ClearImprov \/ EndBatch
  BY <1>8 DEF ClearImprov, EndBatch, Books, BooksBalance, EventsFresh, InBatch, Waiting,
      Open, epollVars, connVars
<1> QED
  BY <1>1, <1>2, <1>3, <1>4, <1>5, <1>6, <1>7, <1>8 DEF MainStep

LEMMA NextBooks == TypeOK /\ Handover /\ Books /\ [Next]_vars => Books'
<1> SUFFICES ASSUME TypeOK, Handover, Books, [Next]_vars PROVE Books'
  OBVIOUS
<1>1. CASE UNCHANGED vars \/ AlarmFires \/ Terminate \/ Clients
  <2>1. UNCHANGED <<sock, epoll, timers, m_user_count, events, mpc, cur>>
    BY <1>1 DEF vars, AlarmFires, Terminate, Clients, ClientStep, Connect, Send, HangUp,
        connVars, loopVars, epollVars
  <2> QED
    BY <2>1, SameBooks
<1>2. ASSUME NEW w \in Workers, WorkerStep(w) PROVE Books'
  <2>1. CASE SemWait(w) \/ PopFront(w) \/ RunRead(w) \/ SetImprov(w) \/ SetTimerFlag(w)
               \/ RunProcess(w)
    <3>1. UNCHANGED <<sock, epoll, timers, m_user_count, events, mpc, cur>>
      BY <2>1 DEF SemWait, PopFront, RunRead, SetImprov, SetTimerFlag, RunProcess,
          connVars, loopVars, epollVars
    <3> QED
      BY <3>1, SameBooks
  <2>2. CASE RunWrite(w)
    <3>1. UNCHANGED <<sock, timers, m_user_count, events, mpc, cur>>
      BY <2>2 DEF RunWrite, loopVars
    <3>2. epoll' = epoll \/ \E ev \in {"in", "out"} : Modfd(job[w], ev)
      BY <2>2 DEF RunWrite, Write, WriteNothing, WriteEagain, WriteError, WriteAll
    <3> QED
      BY <3>1, <3>2, SameBooks, ModfdBalances
  <2>3. CASE Rearm(w)
    BY <2>3, ModfdBalances DEF Rearm, connVars, loopVars
  <2> QED
    BY <1>2, <2>1, <2>2, <2>3 DEF WorkerStep
<1> QED
  BY <1>1, <1>2, MainBooks DEF Next

LEMMA BooksInvariant == Spec => [](TypeOK /\ Handover /\ Books)
  BY InitTypeOK, NextTypeOK, InitHandover, NextHandover, InitBooks, NextBooks, PTL
  DEF Spec

(* m_user_count, the timers, the epoll set and the open descriptors agree  *)
(* (webserver.cpp:132-178, Utils.cpp:103-107): no timer is adjusted or     *)
(* deleted that is not there.                                              *)
THEOREM BooksAreBalanced == Spec => []BooksBalance
<1>1. Books => BooksBalance
  BY DEF Books
<1> QED
  BY <1>1, BooksInvariant, PTL

(* An event of the batch never names a descriptor that an earlier event of *)
(* the same batch has closed (webserver.cpp:316-348).                      *)
THEOREM EventsAreFresh == Spec => []EventsFresh
<1>1. Books => EventsFresh
  BY DEF Books
<1> QED
  BY <1>1, BooksInvariant, PTL
-----------------------------------------------------------------------------
(* Ownership of a descriptor the late store of timer_flag has spared. *)

LEMMA InitOwnership == Init => Ownership
  BY DEF Init, EpollInit, HttpConnInit, Ownership, Owned, NoOrphan, OwnBytes, InBatch,
      Processed, Flagged, Written, Processing, Handles, Open

(* What a descriptor's ownership depends on.                               *)
LEMMA OwnedFrame ==
    ASSUME NEW fd, Owned(fd), Open(fd) => Kept(fd),
           epoll'[fd] = epoll[fd], timer_flag'[fd] = timer_flag[fd],
           improv'[fd] = improv[fd], sock'[fd] = sock[fd],
           UNCHANGED <<mpc, cur>>, InBatch(fd)' <=> InBatch(fd),
           \A w \in Workers :
             \A pc \in {"writeOk", "failed", "flag", "process", "armIn", "armOut"} :
               (wpc'[w] = pc /\ job'[w] = fd) <=> (wpc[w] = pc /\ job[w] = fd)
    PROVE  Owned(fd)' /\ (Open(fd)' => Kept(fd)')
<1>1. \A w \in Workers : /\ (Processing(w)' /\ job'[w] = fd)
                            <=> (Processing(w) /\ job[w] = fd)
                         /\ (Handles(w)' /\ job'[w] = fd)
                            <=> (Handles(w) /\ job[w] = fd)
  BY DEF Processing, Handles
<1>2. /\ Processed(fd)' <=> Processed(fd)
      /\ Flagged(fd)' <=> Flagged(fd)
      /\ Written(fd)' <=> Written(fd)
  BY <1>1 DEF Processed, Flagged, Written
<1>3. Owned(fd)'
  BY <1>1, <1>2 DEF Owned, Armed
<1>4. Open(fd)' => Kept(fd)'
  BY <1>2 DEF Open, Kept, Armed
<1> QED
  BY <1>3, <1>4

(* While the loop is not waiting for the pool, no flag is up or about to   *)
(* be, and no worker is in its recv or send.                               *)
LEMMA QuietLoop ==
    ASSUME TypeOK, Handover, mpc \in {"wait", "loop"}, NEW fd \in Fds, Owned(fd)
    PROVE  /\ ~Flagged(fd) /\ timer_flag[fd] = 0 /\ improv[fd] = 0
           /\ \A w \in Workers : wpc[w] \notin {"writeOk", "failed"}
<1>1. ~Flagged(fd) /\ timer_flag[fd] = 0
  BY DEF Owned, TypeOK, HttpConnTypeOK
<1>2. \A w \in Workers : wpc[w] \notin {"writeOk", "failed"}
  BY DEF Handover, Finished, NoneBusy, Busy
<1>3. improv[fd] = 0
  BY DEF Handover, TypeOK, HttpConnTypeOK
<1> QED
  BY <1>1, <1>2, <1>3

(* The event loop's steps that leave the workers alone and do not wait.    *)
LEMMA LoopOwned ==
    ASSUME TypeOK, Handover, Books, NEW fd \in Fds, Owned(fd), Open(fd) => Kept(fd),
           mpc \in {"wait", "loop"}, mpc' \in {"wait", "loop", "stopped"},
           UNCHANGED <<wpc, job>>,
           timer_flag'[fd] = 0,
           InBatch(fd)' => epoll'[fd] = "off" /\ ~Processed(fd),
           Processed(fd) => epoll'[fd] = "off",
           Open(fd)' => Armed(fd)' \/ InBatch(fd)' \/ Processed(fd)
    PROVE  Owned(fd)' /\ (Open(fd)' => Kept(fd)')
<1>1. ~Flagged(fd) /\ \A w \in Workers : wpc[w] \notin {"writeOk", "failed"}
  BY QuietLoop
<1>2. /\ Processed(fd)' <=> Processed(fd)
      /\ Flagged(fd)' <=> Flagged(fd)
      /\ \A w \in Workers : Handles(w)' <=> Handles(w)
  BY DEF Processed, Processing, Flagged, Handles
<1>3. Owned(fd)'
  BY <1>1, <1>2 DEF Owned
<1>4. Open(fd)' => Kept(fd)'
  BY <1>2 DEF Kept
<1> QED
  BY <1>3, <1>4

LEMMA MainOwned ==
    ASSUME TypeOK, Handover, Handover', Books, MainStep,
           NEW fd \in Fds, fd \notin missed', Owned(fd), Open(fd) => Kept(fd)
    PROVE  Owned(fd)' /\ (Open(fd)' => Kept(fd)')
<1>0. fd # NoFd
  BY WebServerAssumption DEF WebServerAssumption
<1>1. CASE EpollWait
  <2>1. PICK full \in SUBSET Fds :
          /\ events' = Batch(ReadyFds(full))
                \cup {e \in [kind : {"accept"}, fd : {NoFd}] : backlog # {}}
                \cup {e \in [kind : {"signal"}, fd : {NoFd}] : signals # {}}
          /\ Disable(ReadyFds(full))
    BY <1>1 DEF EpollWait
  <2>2. mpc = "wait" /\ mpc' = "loop" /\ UNCHANGED <<wpc, job, timer_flag, sock>>
    BY <1>1 DEF EpollWait, poolVars, connVars
  <2>3. InBatch(fd)' <=> fd \in ReadyFds(full)
    <3>1. ASSUME fd \in ReadyFds(full) PROVE InBatch(fd)'
      <4>1. [kind |-> EventKind(fd), fd |-> fd] \in events'
        BY <2>1, <3>1 DEF Batch
      <4> QED
        BY <4>1 DEF InBatch
    <3>2. ASSUME InBatch(fd)' PROVE fd \in ReadyFds(full)
      <4>1. PICK e \in events' : e.fd = fd
        BY <3>2 DEF InBatch
      <4>2. e \in Batch(ReadyFds(full))
        BY <1>0, <2>1, <4>1
      <4> QED
        BY <4>1, <4>2 DEF Batch
    <3> QED
      BY <3>1, <3>2
  <2>4. epoll'[fd] = IF fd \in ReadyFds(full) THEN "off" ELSE epoll[fd]
    BY <2>1 DEF Disable
  <2>5. fd \in ReadyFds(full) => Armed(fd)
    BY DEF ReadyFds
  <2>6. Armed(fd) => ~Processed(fd)
    BY DEF Armed, Owned
  <2>7. ~InBatch(fd)
    BY <2>2 DEF Books, InBatch
  <2>8. Open(fd)' => Armed(fd)' \/ InBatch(fd)' \/ Processed(fd)
    BY <2>2, <2>3, <2>4, <2>7 DEF Open, Kept, Armed
  <2>9. Processed(fd) => epoll'[fd] = "off"
    BY <2>4 DEF Owned
  <2> QED
    BY <2>2, <2>3, <2>4, <2>5, <2>6, <2>8, <2>9, QuietLoop, LoopOwned
<1>2. CASE \E e \in events : AcceptFails(e) \/ AcceptBusy(e) \/ DealSignal(e)
  <2>1. PICK e \in events : AcceptFails(e) \/ AcceptBusy(e) \/ DealSignal(e)
    BY <1>2
  <2>2. e.fd = NoFd
    BY <2>1 DEF AcceptFails, AcceptBusy, DealSignal, TypeOK, Event
  <2>3. events' = events \ {e} /\ UNCHANGED <<mpc, cur, wpc, job, timer_flag, improv, sock, epoll>>
    BY <2>1 DEF AcceptFails, AcceptBusy, DealSignal, Handle, poolVars, connVars,
        epollVars
  <2>4. InBatch(fd)' <=> InBatch(fd)
    BY <1>0, <2>2, <2>3 DEF InBatch
  <2> QED
    BY <2>3, <2>4, OwnedFrame
<1>3. CASE \E e \in events : AcceptConn(e)
  <2>1. PICK e \in events : AcceptConn(e)
    BY <1>3
  <2>2. PICK g \in Free, c \in Conns : InitConn(g, c)
    BY <2>1 DEF AcceptConn
  <2>3. e.fd = NoFd
    BY <2>1 DEF AcceptConn, TypeOK, Event
  <2>4. events' = events \ {e} /\ UNCHANGED <<mpc, cur, wpc, job>> /\ mpc = "loop"
    BY <2>1 DEF AcceptConn, Handle, poolVars
  <2>5. InBatch(fd)' <=> InBatch(fd)
    BY <1>0, <2>3, <2>4 DEF InBatch
  <2>6. CASE fd = g
    <3>1. ~Open(fd) /\ epoll[fd] = "none"
      BY <2>2, <2>6 DEF Free, Books, BooksBalance
    <3>2. ~InBatch(fd) /\ ~Processed(fd)
      BY <1>0, <3>1 DEF Books, EventsFresh, InBatch, Owned
    <3>3. epoll'[fd] = "in" /\ timer_flag'[fd] = 0
      BY <2>2, <2>6 DEF InitConn, Addfd, ResetConn, TypeOK, EpollTypeOK, HttpConnTypeOK
    <3> QED
      BY <2>4, <2>5, <3>2, <3>3, LoopOwned DEF Armed
  <2>7. CASE fd # g
    <3>1. /\ epoll'[fd] = epoll[fd] /\ timer_flag'[fd] = timer_flag[fd]
          /\ improv'[fd] = improv[fd] /\ sock'[fd] = sock[fd]
      BY <2>2, <2>7 DEF InitConn, Addfd, ResetConn, TypeOK, EpollTypeOK, HttpConnTypeOK
    <3> QED
      BY <2>4, <2>5, <3>1, OwnedFrame
  <2> QED
    BY <2>6, <2>7
<1>4. CASE \E e \in events : DealHup(e)
  <2>1. PICK e \in events : DealHup(e)
    BY <1>4
  <2>2. e.fd \in Fds /\ e.fd # NoFd
    BY <2>1, WebServerAssumption DEF WebServerAssumption, DealHup, TypeOK, Event
  <2>3. /\ events' = events \ {e} /\ mpc = "loop"
        /\ UNCHANGED <<mpc, cur, wpc, job, timer_flag, improv>>
    BY <2>1 DEF DealHup, Handle, poolVars
  <2>4. /\ epoll' = [epoll EXCEPT ![e.fd] = "none"]
        /\ sock' = [sock EXCEPT ![e.fd] = NoConn]
    BY <2>1 DEF DealHup, DealTimer, CloseFd
  <2>5. CASE fd = e.fd
    <3>1. ~InBatch(fd)'
      BY <2>2, <2>3, <2>5 DEF Books, InBatch
    <3>2. ~Processed(fd)
      BY <2>5 DEF Owned, InBatch
    <3>3. ~Open(fd)'
      BY <2>2, <2>4, <2>5 DEF Open, TypeOK, EpollTypeOK
    <3>4. timer_flag'[fd] = 0
      BY <2>3, QuietLoop
    <3> QED
      BY <2>3, <3>1, <3>2, <3>3, <3>4, LoopOwned
  <2>6. CASE fd # e.fd
    <3>1. InBatch(fd)' <=> InBatch(fd)
      BY <2>3, <2>6 DEF InBatch
    <3>2. epoll'[fd] = epoll[fd] /\ sock'[fd] = sock[fd]
      BY <2>4, <2>6 DEF TypeOK, EpollTypeOK
    <3> QED
      BY <2>3, <3>1, <3>2, OwnedFrame
  <2> QED
    BY <2>5, <2>6
<1>5. CASE \E e \in events : DealIO(e)
  <2>1. PICK e \in events : DealIO(e)
    BY <1>5
  <2>2. e.fd \in Fds /\ e.fd # NoFd
    BY <2>1, WebServerAssumption DEF WebServerAssumption, DealIO, TypeOK, Event
  <2>3. /\ events' = events \ {e} /\ mpc = "loop" /\ cur' = e.fd
        /\ mpc' \in {"post", "spin"}
        /\ UNCHANGED <<wpc, job, timer_flag, improv, epoll, sock>>
    BY <2>1 DEF DealIO, Handle, epollVars
  <2>4. /\ ~Flagged(fd) /\ timer_flag[fd] = 0 /\ improv[fd] = 0
        /\ \A w \in Workers : wpc[w] \notin {"writeOk", "failed"}
    BY <2>3, QuietLoop
  <2>5. /\ Processed(fd)' <=> Processed(fd)
        /\ Flagged(fd)' <=> Flagged(fd)
        /\ \A w \in Workers : Handles(w)' <=> Handles(w)
    BY <2>3 DEF Processed, Processing, Flagged, Handles
  <2>6. CASE fd = e.fd
    <3>1. InBatch(fd) /\ ~InBatch(fd)'
      BY <2>2, <2>3, <2>6 DEF Books, InBatch
    <3>2. epoll[fd] = "off" /\ ~Processed(fd)
      BY <3>1 DEF Owned
    <3>3. Owned(fd)'
      BY <2>3, <2>4, <2>5, <3>1, <3>2 DEF Owned
    <3> QED
      BY <2>3, <2>6, <3>3 DEF Kept
  <2>7. CASE fd # e.fd
    <3>1. InBatch(fd)' <=> InBatch(fd)
      BY <2>3, <2>7 DEF InBatch
    <3>2. Owned(fd)'
      BY <2>3, <2>4, <2>5, <2>7, <3>1 DEF Owned
    <3>3. Open(fd)' => Kept(fd)'
      BY <2>3, <2>5, <3>1 DEF Open, Kept, Armed
    <3> QED
      BY <3>2, <3>3
  <2> QED
    BY <2>6, <2>7
<1>6. CASE Post \/ Spin
  <2>1. UNCHANGED <<cur, events, wpc, job, timer_flag, improv, epoll, sock>>
    BY <1>6 DEF Post, Spin, connVars, poolVars, epollVars
  <2>2. \/ mpc = "post" /\ mpc' = "spin" /\ improv[cur] # 1
        \/ mpc = "spin" /\ mpc' = "flag" /\ improv[cur] = 1
    BY <1>6 DEF Post, Spin, Handover, Waiting
  <2>3. /\ Processed(fd)' <=> Processed(fd)
        /\ Flagged(fd)' <=> Flagged(fd)
        /\ Written(fd)' <=> Written(fd)
        /\ InBatch(fd)' <=> InBatch(fd)
        /\ \A w \in Workers : Handles(w)' <=> Handles(w)
    BY <2>1 DEF Processed, Processing, Flagged, Written, InBatch, Handles
  <2>4. Owned(fd)'
    BY <2>1, <2>2, <2>3 DEF Owned, Armed
  <2>5. Open(fd)' => Kept(fd)'
    BY <2>1, <2>2, <2>3 DEF Open, Kept, Armed
  <2> QED
    BY <2>4, <2>5
<1>7. CASE CheckFlag
  <2>1. UNCHANGED <<cur, events, wpc, job, improv>> /\ mpc = "flag" /\ mpc' = "clear"
    BY <1>7 DEF CheckFlag, poolVars
  <2>2. /\ Processed(fd)' <=> Processed(fd)
        /\ Flagged(fd)' <=> Flagged(fd)
        /\ Written(fd)' <=> Written(fd)
        /\ InBatch(fd)' <=> InBatch(fd)
        /\ \A w \in Workers : Handles(w)' <=> Handles(w)
    BY <2>1 DEF Processed, Processing, Flagged, Written, InBatch, Handles
  <2>3. NoneBusy /\ cur \in Fds
    BY <2>1 DEF Handover, Finished, Waiting
  <2>4. \A w \in Workers : wpc[w] # "writeOk"
    BY <2>3 DEF NoneBusy, Busy
  <2>5. CASE fd = cur /\ timer_flag[cur] = 1
    <3>1. ~Processed(fd) /\ ~Flagged(fd)
      BY <2>5 DEF Owned
    <3>2. timer_flag'[fd] = 0 /\ ~Open(fd)'
      BY <1>7, <2>3, <2>5
      DEF CheckFlag, DealTimer, CloseFd, Open, TypeOK, EpollTypeOK, HttpConnTypeOK
    <3>3. ~InBatch(fd)
      BY <2>1, <2>5 DEF Books, Waiting
    <3>4. Owned(fd)'
      BY <2>1, <2>2, <2>4, <3>1, <3>2, <3>3 DEF Owned
    <3> QED
      BY <3>2, <3>4
  <2>6. CASE fd = cur /\ timer_flag[cur] # 1
    <3>1. UNCHANGED <<epoll, sock, timer_flag>> /\ ~Flagged(fd)
      BY <1>7, <2>6 DEF CheckFlag, Flagged, epollVars
    <3>2. Armed(fd) \/ Processed(fd)
      BY <2>1, <2>6, <3>1 DEF Owned, Handover
    <3>3. timer_flag[fd] = 0
      BY <2>6 DEF TypeOK, HttpConnTypeOK
    <3>4. Owned(fd)'
      BY <2>1, <2>2, <2>4, <3>1, <3>3 DEF Owned
    <3> QED
      BY <2>2, <3>1, <3>2, <3>4 DEF Kept, Armed
  <2>7. CASE fd # cur
    <3>1. /\ epoll'[fd] = epoll[fd] /\ timer_flag'[fd] = timer_flag[fd]
          /\ sock'[fd] = sock[fd]
      <4>1. CASE timer_flag[cur] = 1
        BY <1>7, <2>7, <4>1 DEF CheckFlag, DealTimer, CloseFd, TypeOK, EpollTypeOK,
            HttpConnTypeOK
      <4>2. CASE timer_flag[cur] # 1
        BY <1>7, <4>2 DEF CheckFlag, epollVars
      <4> QED
        BY <4>1, <4>2
    <3>2. Owned(fd)'
      BY <2>1, <2>2, <2>4, <2>7, <3>1 DEF Owned
    <3>3. Open(fd)' => Kept(fd)'
      BY <2>1, <2>2, <2>7, <3>1 DEF Open, Kept, Armed
    <3> QED
      BY <3>2, <3>3
  <2> QED
    BY <2>5, <2>6, <2>7
<1>8. CASE ClearImprov
  <2>1. /\ UNCHANGED <<events, wpc, job, timer_flag, epoll, sock>>
        /\ mpc = "clear" /\ mpc' = "loop" /\ cur' = NoFd
    BY <1>8 DEF ClearImprov, poolVars, epollVars
  <2>2. /\ Processed(fd)' <=> Processed(fd)
        /\ Flagged(fd)' <=> Flagged(fd)
        /\ InBatch(fd)' <=> InBatch(fd)
        /\ \A w \in Workers : Handles(w)' <=> Handles(w)
    BY <2>1 DEF Processed, Processing, Flagged, InBatch, Handles
  <2>3. \A w \in Workers : wpc[w] # "writeOk"
    BY <2>1 DEF Handover, Finished, NoneBusy, Busy
  <2>4. Owned(fd)'
    BY <2>1, <2>2, <2>3 DEF Owned
  <2>5. Open(fd)' => Kept(fd)'
    BY <2>1, <2>2 DEF Open, Kept, Armed
  <2> QED
    BY <2>4, <2>5
<1>9. CASE EndBatch
  <2>1. /\ mpc = "loop" /\ mpc' \in {"wait", "stopped"}
        /\ UNCHANGED <<wpc, job, timer_flag, epoll, sock, events>>
    BY <1>9 DEF EndBatch, poolVars, epollVars, connVars
  <2>2. InBatch(fd)' <=> InBatch(fd)
    BY <2>1 DEF InBatch
  <2>3. timer_flag[fd] = 0
    BY <2>1, QuietLoop
  <2>4. Open(fd)' => Armed(fd)' \/ InBatch(fd)' \/ Processed(fd)
    BY <2>1, <2>2 DEF Open, Kept, Armed
  <2>5. /\ InBatch(fd)' => epoll'[fd] = "off" /\ ~Processed(fd)
        /\ Processed(fd) => epoll'[fd] = "off"
    BY <2>1, <2>2 DEF Owned
  <2> QED
    BY <2>1, <2>3, <2>4, <2>5, LoopOwned
<1> QED
  BY <1>1, <1>2, <1>3, <1>4, <1>5, <1>6, <1>7, <1>8, <1>9 DEF MainStep

LEMMA WorkerOwned ==
    ASSUME TypeOK, Handover, Books, NEW w \in Workers, WorkerStep(w),
           NEW fd \in Fds, fd \notin missed, Owned(fd), Open(fd) => Kept(fd)
    PROVE  Owned(fd)' /\ (Open(fd)' => Kept(fd)')
<1>0. fd # NoFd
  BY WebServerAssumption DEF WebServerAssumption
<1>1. UNCHANGED <<mpc, cur, events, sock, missed>> /\ (InBatch(fd)' <=> InBatch(fd))
  BY DEF WorkerStep, SemWait, PopFront, RunRead, RunWrite, SetImprov, SetTimerFlag,
      RunProcess, Rearm, loopVars, epollVars, InBatch
<1>2. CASE SemWait(w) \/ PopFront(w)
  <2>1. UNCHANGED <<epoll, timer_flag, improv>>
    BY <1>2 DEF SemWait, PopFront, epollVars, connVars
  <2>2. \A v \in Workers :
          \A pc \in {"writeOk", "failed", "flag", "process", "armIn", "armOut"} :
            (wpc'[v] = pc /\ job'[v] = fd) <=> (wpc[v] = pc /\ job[v] = fd)
    <3>1. CASE SemWait(w)
      BY <3>1 DEF SemWait, TypeOK
    <3>2. CASE PopFront(w)
      BY <3>2 DEF PopFront, TypeOK
    <3> QED
      BY <1>2, <3>1, <3>2
  <2> QED
    BY <1>1, <2>1, <2>2, OwnedFrame
<1>3. CASE job[w] # fd /\ ~SemWait(w) /\ ~PopFront(w)
  <2>1. job' = job \/ job' = [job EXCEPT ![w] = NoFd]
    BY <1>3 DEF WorkerStep, RunRead, RunWrite, SetImprov, SetTimerFlag, RunProcess, Rearm
  <2>2. \E pc : wpc' = [wpc EXCEPT ![w] = pc]
    BY <1>3 DEF WorkerStep, RunRead, RunWrite, SetImprov, SetTimerFlag, RunProcess, Rearm
  <2>3. \A v \in Workers :
          \A pc \in {"writeOk", "failed", "flag", "process", "armIn", "armOut"} :
            (wpc'[v] = pc /\ job'[v] = fd) <=> (wpc[v] = pc /\ job[v] = fd)
    BY <1>0, <1>3, <2>1, <2>2 DEF TypeOK
  <2>4. epoll'[fd] = epoll[fd] /\ timer_flag'[fd] = timer_flag[fd]
    BY <1>3
    DEF WorkerStep, RunRead, RunWrite, SetImprov, SetTimerFlag, RunProcess, Rearm, Write,
        WriteNothing, WriteEagain, WriteError, WriteAll, ResetConn, Modfd, epollVars,
        connVars, TypeOK, EpollTypeOK, HttpConnTypeOK
  <2>5. improv'[fd] = improv[fd]
    BY <1>3
    DEF WorkerStep, RunRead, RunWrite, SetImprov, SetTimerFlag, RunProcess, Rearm, Write,
        WriteNothing, WriteEagain, WriteError, WriteAll, ResetConn, connVars, TypeOK,
        HttpConnTypeOK
  <2> QED
    BY <1>1, <2>3, <2>4, <2>5, OwnedFrame
<1>4. CASE job[w] = fd /\ RunRead(w)
  <2>1. mpc = "spin" /\ improv[cur] # 1 /\ Running /\ cur = fd
    BY <1>4, BusyIsRunning DEF RunRead, Busy
  <2>2. UNCHANGED <<epoll, timer_flag, improv, job>>
    BY <1>4 DEF RunRead, epollVars
  <2>3. wpc' = [wpc EXCEPT ![w] = "readOk"] \/ wpc' = [wpc EXCEPT ![w] = "failed"]
    BY <1>4 DEF RunRead
  <2>4. wpc[w] = "run"
    BY <1>4 DEF RunRead
  <2>5. /\ \A v \in Workers : Processing(v)' <=> Processing(v)
        /\ \A v \in Workers : Handles(v)' <=> Handles(v)
        /\ \A v \in Workers : wpc'[v] = "flag" <=> wpc[v] = "flag"
        /\ \A v \in Workers : wpc[v] \in {"writeOk", "failed"} =>
                                  wpc'[v] \in {"writeOk", "failed"}
        /\ \A v \in Workers : wpc'[v] = "writeOk" => wpc[v] = "writeOk"
    BY <2>3, <2>4 DEF Processing, Handles, TypeOK
  <2>6. /\ Processed(fd)' <=> Processed(fd)
        /\ Flagged(fd)' <=> Flagged(fd)
        /\ Written(fd) => Written(fd)'
    BY <2>2, <2>5 DEF Processed, Flagged, Written
  <2>7. Owned(fd)'
    BY <1>1, <2>2, <2>5, <2>6 DEF Owned, Armed
  <2> QED
    BY <1>1, <2>1, <2>7 DEF Kept
<1>5. CASE job[w] = fd /\ RunWrite(w)
  <2>1. mpc = "spin" /\ improv[fd] # 1 /\ Running /\ cur = fd
    BY <1>5, BusyIsRunning DEF RunWrite, Busy
  <2>2. ~InBatch(fd) /\ ~Processed(fd) /\ ~Flagged(fd) /\ timer_flag[fd] = 0
    BY <2>1 DEF Books, Waiting, Owned, TypeOK, HttpConnTypeOK
  <2>3. PICK ok \in BOOLEAN :
          /\ Write(fd, ok)
          /\ wpc' = [wpc EXCEPT ![w] = IF ok THEN "writeOk" ELSE "failed"]
    BY <1>5 DEF RunWrite
  <2>4. job' = job /\ wpc[w] = "run"
    BY <1>5 DEF RunWrite
  <2>5. timer_flag'[fd] = 0 /\ improv'[fd] # 1
    BY <2>1, <2>2, <2>3
    DEF Write, WriteNothing, WriteEagain, WriteError, WriteAll, ResetConn, TypeOK,
        HttpConnTypeOK
  <2>6. epoll[fd] # "none"
    BY <2>1 DEF Books, BooksBalance
  <2>7. ok => Armed(fd)'
    BY <2>3, <2>6 DEF Write, WriteNothing, WriteEagain, WriteError, WriteAll, Modfd,
        Armed, TypeOK, EpollTypeOK
  <2>8. /\ \A v \in Workers : Processing(v)' <=> Processing(v)
        /\ \A v \in Workers : Handles(v)' <=> Handles(v)
        /\ \A v \in Workers : wpc'[v] = "flag" <=> wpc[v] = "flag"
        /\ wpc'[w] = (IF ok THEN "writeOk" ELSE "failed")
        /\ \A v \in Workers : v # w => wpc'[v] # "writeOk"
    BY <1>5, <2>1, <2>3, <2>4 DEF Running, Busy, Processing, Handles, TypeOK
  <2>9. ~Processed(fd)' /\ ~Flagged(fd)' /\ Written(fd)'
    BY <1>5, <2>2, <2>4, <2>8 DEF Processed, Flagged, Written
  <2>10. Owned(fd)'
    BY <1>1, <2>2, <2>4, <2>5, <2>7, <2>8, <2>9 DEF Owned
  <2> QED
    BY <1>1, <2>1, <2>10 DEF Kept
<1>6. CASE job[w] = fd /\ SetImprov(w)
  <2>1. Busy(w)
    BY <1>6 DEF SetImprov, Busy
  <2>2. mpc = "spin" /\ improv[fd] # 1 /\ Running /\ cur = fd
    BY <1>6, <2>1, BusyIsRunning
  <2>3. /\ ~InBatch(fd) /\ ~Processed(fd) /\ ~Flagged(fd) /\ timer_flag[fd] = 0
        /\ epoll[fd] = "off" \/ Written(fd)
    BY <2>2 DEF Books, Waiting, Owned, TypeOK, HttpConnTypeOK
  <2>4. UNCHANGED <<epoll, timer_flag>> /\ improv'[fd] = 1
    BY <1>6 DEF SetImprov, epollVars, TypeOK, HttpConnTypeOK
  <2>5. \A v \in Workers : Busy(v) => v = w
    BY <2>1, <2>2 DEF Running
  <2>6. \A v \in Workers : v # w => wpc'[v] = wpc[v] /\ job'[v] = job[v]
    BY <1>6 DEF SetImprov, TypeOK
  <2>7. CASE wpc[w] = "readOk"
    <3>1. wpc'[w] = "process" /\ job' = job
      BY <1>6, <2>7 DEF SetImprov, Published, TypeOK
    <3>2. epoll[fd] = "off"
      BY <2>3, <2>5, <2>7 DEF Written, Busy
    <3>3. Processed(fd)' /\ ~Flagged(fd)'
      BY <1>6, <2>3, <2>6, <3>1 DEF Processed, Processing, Flagged
    <3>4. \A v \in Workers : Handles(v)' /\ job'[v] = fd => v = w
      BY <2>3, <2>6 DEF Handles, Processing, Processed, Flagged
    <3>5. \A v \in Workers : wpc'[v] # "writeOk"
      BY <2>5, <2>6, <3>1 DEF Busy
    <3>6. Owned(fd)'
      BY <1>1, <2>2, <2>3, <2>4, <3>2, <3>3, <3>4, <3>5 DEF Owned
    <3> QED
      BY <3>3, <3>6 DEF Kept
  <2>8. CASE wpc[w] = "writeOk"
    <3>1. wpc'[w] = "wait" /\ job'[w] = NoFd
      BY <1>6, <2>8 DEF SetImprov, Published, TypeOK
    <3>2. Armed(fd)
      BY <1>6, <2>8 DEF Owned
    <3>3. ~Processed(fd)' /\ ~Flagged(fd)'
      BY <2>3, <2>6, <3>1 DEF Processed, Processing, Flagged
    <3>4. \A v \in Workers : ~(Handles(v)' /\ job'[v] = fd)
      BY <2>3, <2>6, <3>1 DEF Handles, Processing, Processed, Flagged
    <3>5. \A v \in Workers : wpc'[v] # "writeOk"
      BY <2>5, <2>6, <3>1 DEF Busy
    <3>6. Owned(fd)'
      BY <1>1, <2>2, <2>3, <2>4, <3>2, <3>3, <3>4, <3>5 DEF Owned, Armed
    <3> QED
      BY <2>4, <3>2, <3>6 DEF Kept, Armed
  <2>9. CASE wpc[w] = "failed"
    <3>1. wpc'[w] = "flag" /\ job' = job
      BY <1>6, <2>9 DEF SetImprov, Published, TypeOK
    <3>2. Flagged(fd)' /\ ~Processed(fd)'
      BY <1>6, <2>3, <2>6, <3>1 DEF Processed, Processing, Flagged
    <3>3. \A v \in Workers : Handles(v)' /\ job'[v] = fd => v = w
      BY <2>3, <2>6 DEF Handles, Processing, Processed, Flagged
    <3>4. \A v \in Workers : wpc'[v] # "writeOk"
      BY <2>5, <2>6, <3>1 DEF Busy
    <3>5. Owned(fd)'
      BY <1>1, <2>2, <2>3, <2>4, <3>2, <3>3, <3>4 DEF Owned
    <3> QED
      BY <1>1, <2>2, <3>5 DEF Kept
  <2> QED
    BY <1>6, <2>7, <2>8, <2>9 DEF SetImprov
<1>7. CASE job[w] = fd /\ SetTimerFlag(w)
  <2>1. Flagged(fd) /\ wpc[w] = "flag"
    BY <1>7 DEF SetTimerFlag, Flagged
  <2>2. /\ wpc'[w] = "wait" /\ timer_flag'[fd] = 1
        /\ \A v \in Workers : v # w => wpc'[v] = wpc[v] /\ job'[v] = job[v]
        /\ UNCHANGED <<epoll, improv>>
    BY <1>7 DEF SetTimerFlag, epollVars, TypeOK, HttpConnTypeOK
  <2>3. \A v \in Workers : ~(Handles(v)' /\ job'[v] = fd)
    BY <1>7, <2>1, <2>2 DEF Owned, Handles, Processing
  <2>4. ~Processed(fd)' /\ ~Flagged(fd)'
    BY <2>3 DEF Handles, Processed, Flagged
  <2>5. cur = fd /\ mpc \in {"spin", "flag"} /\ improv[fd] = 1
    BY <2>1 DEF Owned
  <2>6. \A v \in Workers : wpc'[v] = "writeOk" => wpc[v] = "writeOk" /\ job'[v] = job[v]
    BY <2>2
  <2>7. ~InBatch(fd)
    BY <2>5 DEF Books, Waiting
  <2>8. Owned(fd)'
    BY <1>1, <2>2, <2>3, <2>4, <2>5, <2>6, <2>7 DEF Owned, Armed
  <2> QED
    BY <1>1, <2>5, <2>8 DEF Kept
<1>8. CASE job[w] = fd /\ RunProcess(w)
  <2>1. UNCHANGED <<epoll, timer_flag, improv, job>> /\ wpc[w] = "process"
    BY <1>8 DEF RunProcess, epollVars
  <2>2. wpc' = [wpc EXCEPT ![w] = "armIn"] \/ wpc' = [wpc EXCEPT ![w] = "armOut"]
    BY <1>8 DEF RunProcess
  <2>3. \A v \in Workers :
          /\ Processing(v)' <=> Processing(v)
          /\ Handles(v)' <=> Handles(v)
          /\ wpc'[v] = "flag" <=> wpc[v] = "flag"
          /\ wpc'[v] \in {"writeOk", "failed"} <=> wpc[v] \in {"writeOk", "failed"}
          /\ wpc'[v] = "writeOk" <=> wpc[v] = "writeOk"
    BY <2>1, <2>2 DEF Processing, Handles, TypeOK
  <2>4. /\ Processed(fd)' <=> Processed(fd)
        /\ Flagged(fd)' <=> Flagged(fd)
        /\ Written(fd)' <=> Written(fd)
    BY <2>1, <2>3 DEF Processed, Flagged, Written
  <2>5. Owned(fd)'
    BY <1>1, <2>1, <2>3, <2>4 DEF Owned, Armed
  <2>6. Open(fd)' => Kept(fd)'
    BY <1>1, <2>1, <2>4 DEF Open, Kept, Armed
  <2> QED
    BY <2>5, <2>6
<1>9. CASE job[w] = fd /\ Rearm(w)
  <2>1. Processed(fd) /\ Handles(w)
    BY <1>9 DEF Rearm, Processed, Processing, Handles
  <2>2. epoll[fd] = "off" /\ ~InBatch(fd) /\ timer_flag[fd] = 0
    BY <2>1 DEF Owned
  <2>3. Armed(fd)'
    BY <1>9, <2>2 DEF Rearm, Modfd, Armed, TypeOK, EpollTypeOK
  <2>4. /\ wpc'[w] = "wait"
        /\ \A v \in Workers : v # w => wpc'[v] = wpc[v] /\ job'[v] = job[v]
        /\ UNCHANGED <<timer_flag, improv>>
    BY <1>9 DEF Rearm, connVars, TypeOK
  <2>5. \A v \in Workers : ~(Handles(v)' /\ job'[v] = fd)
    BY <1>9, <2>1, <2>4 DEF Owned, Handles, Processing
  <2>6. ~Processed(fd)' /\ ~Flagged(fd)'
    BY <2>5 DEF Handles, Processed, Flagged
  <2>7. \A v \in Workers : wpc'[v] = "writeOk" => wpc[v] = "writeOk" /\ job'[v] = job[v]
    BY <2>4
  <2>8. ~(cur = fd /\ mpc \in {"post", "spin"} /\ improv[fd] = 0)
    BY <2>1 DEF Owned
  <2>9. Owned(fd)'
    BY <1>1, <2>2, <2>3, <2>4, <2>5, <2>6, <2>7, <2>8 DEF Owned
  <2> QED
    BY <2>3, <2>9 DEF Kept
<1> QED
  BY <1>2, <1>3, <1>4, <1>5, <1>6, <1>7, <1>8, <1>9 DEF WorkerStep

(* The bytes of a descriptor's buffers change with recv, process and init  *)
(* only, and only init changes whose descriptor it is.                     *)
LEMMA NextOwnBytes ==
    ASSUME TypeOK, OwnBytes, Next
    PROVE  OwnBytes'
<1> SUFFICES ASSUME NEW fd \in Fds, fd \notin missed', Open(fd)'
             PROVE  rbuf'[fd] \subseteq {sock'[fd]} /\ wbuf'[fd] \subseteq {sock'[fd]}
  BY DEF OwnBytes
<1>1. fd \notin missed
  BY DEF Next, MainStep, EpollWait, AcceptFails, AcceptBusy, AcceptConn, DealHup, DealIO,
      DealSignal, Post, Spin, CheckFlag, ClearImprov, EndBatch, WorkerStep, SemWait,
      PopFront, RunRead, RunWrite, SetImprov, SetTimerFlag, RunProcess, Rearm,
      AlarmFires, Terminate, Clients, loopVars
<1>2. CASE \E e \in events : AcceptConn(e)
  <2>1. PICK g \in Free, c \in Conns : InitConn(g, c)
    BY <1>2 DEF AcceptConn
  <2>2. CASE fd = g
    BY <2>1, <2>2 DEF InitConn, ResetConn, TypeOK, HttpConnTypeOK
  <2>3. CASE fd # g
    <3>1. rbuf'[fd] = rbuf[fd] /\ wbuf'[fd] = wbuf[fd] /\ sock'[fd] = sock[fd]
      BY <2>1, <2>3 DEF InitConn, Addfd, ResetConn, TypeOK, EpollTypeOK, HttpConnTypeOK
    <3> QED
      BY <1>1, <3>1 DEF OwnBytes, Open
  <2> QED
    BY <2>2, <2>3
<1>3. CASE CheckFlag \/ \E e \in events : DealHup(e)
  <2>1. UNCHANGED <<rbuf, wbuf>> /\ (sock' = sock \/ \E g : DealTimer(g))
    BY <1>3 DEF CheckFlag, DealHup, epollVars
  <2>2. sock'[fd] = sock[fd]
    BY <2>1 DEF DealTimer, CloseFd, Open, TypeOK, EpollTypeOK
  <2> QED
    BY <1>1, <2>1, <2>2 DEF OwnBytes, Open
<1>4. CASE \/ EpollWait \/ Post \/ Spin \/ ClearImprov \/ EndBatch
           \/ \E e \in events : AcceptFails(e) \/ AcceptBusy(e) \/ DealIO(e) \/ DealSignal(e)
           \/ AlarmFires \/ Terminate \/ Clients
  <2>1. UNCHANGED <<rbuf, wbuf, sock>>
    BY <1>4 DEF EpollWait, AcceptFails, AcceptBusy, DealIO, DealSignal, Post, Spin,
        ClearImprov, EndBatch, AlarmFires, Terminate, Clients, ClientStep, Connect, Send,
        HangUp, connVars, epollVars
  <2> QED
    BY <1>1, <2>1 DEF OwnBytes, Open
<1>5. ASSUME NEW w \in Workers, WorkerStep(w)
      PROVE  rbuf'[fd] \subseteq {sock'[fd]} /\ wbuf'[fd] \subseteq {sock'[fd]}
  <2>1. sock' = sock
    BY <1>5 DEF WorkerStep, SemWait, PopFront, RunRead, RunWrite, SetImprov, SetTimerFlag,
        RunProcess, Rearm, epollVars
  <2>2. rbuf[fd] \subseteq {sock[fd]} /\ wbuf[fd] \subseteq {sock[fd]}
    BY <1>1, <2>1 DEF OwnBytes, Open
  <2>3. rbuf'[fd] \subseteq rbuf[fd] \cup {sock[fd]}
    <3>1. CASE RunRead(w)
      <4>1. rbuf' = rbuf \/ rbuf' = [rbuf EXCEPT ![job[w]] = @ \cup {sock[job[w]]}]
        BY <3>1 DEF RunRead, ReadOnce
      <4> QED
        BY <4>1 DEF TypeOK, HttpConnTypeOK
    <3>2. CASE ~RunRead(w)
      <4>1. rbuf' = rbuf \/ rbuf' = [rbuf EXCEPT ![job[w]] = {}]
        BY <1>5, <3>2 DEF WorkerStep, SemWait, PopFront, RunWrite, SetImprov,
            SetTimerFlag, RunProcess, Rearm, Write, WriteNothing, WriteEagain,
            WriteError, WriteAll, ResetConn, connVars
      <4> QED
        BY <4>1 DEF TypeOK, HttpConnTypeOK
    <3> QED
      BY <3>1, <3>2
  <2>4. wbuf'[fd] \subseteq wbuf[fd] \cup rbuf[fd]
    <3>1. CASE RunProcess(w)
      <4>1. wbuf' = wbuf \/ wbuf' = [wbuf EXCEPT ![job[w]] = rbuf[job[w]]]
        BY <3>1 DEF RunProcess, Process
      <4> QED
        BY <4>1 DEF TypeOK, HttpConnTypeOK
    <3>2. CASE ~RunProcess(w)
      BY <1>5, <3>2 DEF WorkerStep, SemWait, PopFront, RunRead, RunWrite, SetImprov,
          SetTimerFlag, Rearm, Write, WriteNothing, WriteEagain, WriteError, WriteAll,
          ResetConn, connVars, TypeOK, HttpConnTypeOK
    <3> QED
      BY <3>1, <3>2
  <2> QED
    BY <2>1, <2>2, <2>3, <2>4
<1> QED
  BY <1>2, <1>3, <1>4, <1>5 DEF Next, MainStep

LEMMA NextOwnership ==
    TypeOK /\ Handover /\ Handover' /\ Books /\ Ownership /\ [Next]_vars => Ownership'
<1> SUFFICES ASSUME TypeOK, Handover, Handover', Books, Ownership, [Next]_vars
             PROVE  Ownership'
  OBVIOUS
<1>1. CASE UNCHANGED vars
  BY <1>1 DEF vars, netVars, epollVars, connVars, poolVars, loopVars, Ownership, Owned,
      NoOrphan, Kept, OwnBytes, Processed, Flagged, Written, Handles, Processing, InBatch,
      Armed, Open
<1>2. CASE Next
  <2>1. OwnBytes'
    BY <1>2, NextOwnBytes DEF Ownership
  <2>2. ASSUME NEW fd \in Fds, fd \notin missed'
        PROVE  Owned(fd)' /\ (Open(fd)' => Kept(fd)')
    <3>1. missed \subseteq missed'
      BY <1>2 DEF Next, MainStep, EpollWait, AcceptFails, AcceptBusy, AcceptConn, DealHup,
          DealIO, DealSignal, Post, Spin, CheckFlag, ClearImprov, EndBatch, WorkerStep,
          SemWait, PopFront, RunRead, RunWrite, SetImprov, SetTimerFlag, RunProcess,
          Rearm, AlarmFires, Terminate, Clients, loopVars
    <3>2. Owned(fd) /\ (Open(fd) => Kept(fd))
      BY <2>2, <3>1 DEF Ownership, NoOrphan
    <3>3. CASE AlarmFires \/ Terminate \/ Clients
      <4>1. UNCHANGED <<epoll, sock, timer_flag, improv, mpc, cur, events, wpc, job>>
        BY <3>3 DEF AlarmFires, Terminate, Clients, ClientStep, Connect, Send, HangUp,
            epollVars, connVars, poolVars, loopVars
      <4>2. InBatch(fd)' <=> InBatch(fd)
        BY <4>1 DEF InBatch
      <4> QED
        BY <3>2, <4>1, <4>2, OwnedFrame
    <3> QED
      BY <1>2, <2>2, <3>1, <3>2, <3>3, MainOwned, WorkerOwned DEF Next
  <2> QED
    BY <2>1, <2>2 DEF Ownership, NoOrphan
<1> QED
  BY <1>1, <1>2

(* Inv is an inductive invariant of the server.                            *)
THEOREM InvIsInvariant == Spec => []Inv
<1>1. Init => Inv
  BY InitTypeOK, InitHandover, InitBooks, InitOwnership DEF Inv
<1>2. Inv /\ [Next]_vars => Inv'
  BY NextTypeOK, NextHandover, NextBooks, NextOwnership DEF Inv
<1> QED
  BY <1>1, <1>2, PTL DEF Spec

(* EPOLLONESHOT gives a connection one owner (http_conn.cpp:62-95): on     *)
(* every descriptor the late store of timer_flag has spared, whoever       *)
(* processes it is alone with it.                                          *)
THEOREM OwnerIsSingle == Spec => []SingleOwner
<1>1. Inv => SingleOwner
  <2> SUFFICES ASSUME Inv, NEW w \in Workers, Processing(w), job[w] \notin missed
               PROVE  /\ Open(job[w]) /\ ~Armed(job[w]) /\ ~InBatch(job[w])
                      /\ \A v \in Workers \ {w} :
                           wpc[v] \notin {"wait", "woken"} => job[v] # job[w]
    BY DEF SingleOwner
  <2>1. job[w] \in Fds
    BY DEF Inv, Handover, Processing
  <2>2. Owned(job[w]) /\ Processed(job[w])
    BY <2>1 DEF Inv, Ownership, Processed
  <2>3. epoll[job[w]] = "off" /\ ~InBatch(job[w])
    BY <2>2 DEF Owned
  <2>4. Open(job[w])
    BY <2>1, <2>3 DEF Inv, Books, BooksBalance
  <2>5. ASSUME NEW v \in Workers \ {w}, wpc[v] \notin {"wait", "woken"}
        PROVE  job[v] # job[w]
    <3>1. CASE Busy(v)
      <4>1. mpc = "spin" /\ improv[cur] # 1 /\ job[v] = cur /\ cur \in Fds
        BY <3>1, BusyIsRunning DEF Inv
      <4>2. improv[cur] = 0
        BY <4>1 DEF Inv, TypeOK, HttpConnTypeOK
      <4> QED
        BY <2>2, <4>1, <4>2 DEF Owned
    <3>2. CASE ~Busy(v)
      <4>1. Handles(v)
        BY <2>5, <3>2 DEF Inv, TypeOK, WorkerPC, Busy, Handles, Processing
      <4>2. Handles(w)
        BY DEF Handles
      <4> QED
        BY <2>2, <2>5, <4>1, <4>2 DEF Owned
    <3> QED
      BY <3>1, <3>2
  <2> QED
    BY <2>3, <2>4, <2>5 DEF Armed
<1> QED
  BY <1>1, InvIsInvariant, PTL

(* No open descriptor is left that nobody will look at again               *)
(* (threadpool.h:101-133, http_conn.cpp:720-731).                          *)
THEOREM NothingOrphaned == Spec => []NoOrphan
<1>1. Inv => NoOrphan
  BY DEF Inv, Ownership
<1> QED
  BY <1>1, InvIsInvariant, PTL

(* A connection is answered from bytes of its own (http_conn.cpp:121-166). *)
THEOREM BytesAreOwn == Spec => []OwnBytes
<1>1. Inv => OwnBytes
  BY DEF Inv, Ownership
<1> QED
  BY <1>1, InvIsInvariant, PTL

(* timer_flag is never left for a later job of the descriptor              *)
(* (webserver.cpp:269-272).                                                *)
THEOREM FlagIsFresh == Spec => []NoStaleFlag
<1>1. Inv => NoStaleFlag
  BY DEF Inv, Ownership, Owned, NoStaleFlag
<1> QED
  BY <1>1, InvIsInvariant, PTL
=============================================================================
