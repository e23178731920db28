-------------------------- MODULE SqlConnectionPool --------------------------
(***************************************************************************)
(* sql_connection_pool: a list of connections under a mutex and a          *)
(* semaphore that counts them, taken and given back by connectionRAII.     *)
(* GetConnection looks at the list before it waits, without the lock, and  *)
(* holds the semaphore's permit before it takes the lock; Release gives    *)
(* the connection back before it gives the permit back.  Every step is one *)
(* critical section of m_lock, one semaphore operation, or that look.      *)
(***************************************************************************)
EXTENDS Integers, Sequences, FiniteSets

CONSTANTS
    Threads,  (* the pool's workers and main                              *)
    MaxConn,  (* m_sql_num: connections opened by init()                  *)
    Exits     (* TRUE: main may return while the detached workers run on, *)
              (* so that the pool's static destructor runs                *)

ASSUME PoolAssumption ==
    /\ IsFiniteSet(Threads)
    /\ MaxConn \in Nat
    /\ Exits \in BOOLEAN

Mysql == 1 .. MaxConn
NULL  == 0

VARIABLES
    connList,    (* the connections nobody uses                           *)
    m_FreeConn,  (* how many the pool believes are free                   *)
    m_CurConn,   (* how many it believes are in use                       *)
    reserve,     (* the semaphore                                         *)
    pc,          (* where each thread is                                  *)
    conRAII,     (* what its connectionRAII holds                         *)
    closed,      (* connections given to mysql_close                      *)
    destroyed,   (* DestroyPool has run                                   *)
    aborted      (* the process died on pop_front() of an empty list      *)

vars == <<connList, m_FreeConn, m_CurConn, reserve, pc, conRAII, closed,
          destroyed, aborted>>

PoolPC == {"out", "wait", "lock", "null", "use", "post"}
Listed == {connList[i] : i \in 1 .. Len(connList)}
At(p)  == {t \in Threads : pc[t] = p}
Goto(t, p) == pc' = [pc EXCEPT ![t] = p]

TypeOK ==
    /\ connList \in Seq(Mysql)
    /\ m_FreeConn \in Int
    /\ m_CurConn \in Int
    /\ reserve \in Nat
    /\ pc \in [Threads -> PoolPC]
    /\ conRAII \in [Threads -> Mysql \cup {NULL}]
    /\ closed \subseteq Mysql
    /\ destroyed \in BOOLEAN
    /\ aborted \in BOOLEAN

(* init(), which ends the process when a connection cannot be opened. *)
Init ==
    /\ connList = [i \in 1 .. MaxConn |-> i]
    /\ m_FreeConn = MaxConn
    /\ m_CurConn = 0
    /\ reserve = MaxConn
    /\ pc = [t \in Threads |-> "out"]
    /\ conRAII = [t \in Threads |-> NULL]
    /\ closed = {}
    /\ destroyed = FALSE
    /\ aborted = FALSE
-----------------------------------------------------------------------------
(* GetConnection, called by connectionRAII's constructor. *)

CheckLastOne(t) ==
    /\ pc[t] = "out"
    /\ Goto(t, IF Len(connList) <= 1 THEN "null" ELSE "wait")
    /\ UNCHANGED <<connList, m_FreeConn, m_CurConn, reserve, conRAII, closed,
                   destroyed, aborted>>

(* if (connList.empty()) return nullptr: read without the lock. *)
CheckEmpty(t) ==
    /\ pc[t] = "out"
    /\ Goto(t, IF connList = <<>> THEN "null" ELSE "wait")
    /\ UNCHANGED <<connList, m_FreeConn, m_CurConn, reserve, conRAII, closed,
                   destroyed, aborted>>

WaitReserveSkipped(t) ==
    /\ pc[t] = "wait"
    /\ Goto(t, "lock")
    /\ UNCHANGED <<connList, m_FreeConn, m_CurConn, reserve, conRAII, closed,
                   destroyed, aborted>>

WaitReserveTry(t) ==
    /\ pc[t] = "wait"
    /\ reserve' = reserve - 1
    /\ Goto(t, "lock")
    /\ UNCHANGED <<connList, m_FreeConn, m_CurConn, conRAII, closed, destroyed,
                   aborted>>

WaitReserve(t) ==
    /\ pc[t] = "wait"
    /\ reserve > 0
    /\ reserve' = reserve - 1
    /\ Goto(t, "lock")
    /\ UNCHANGED <<connList, m_FreeConn, m_CurConn, conRAII, closed, destroyed,
                   aborted>>

TakeFrontKeeps(t) ==
    /\ pc[t] = "lock"
    /\ connList # <<>>
    /\ conRAII' = [conRAII EXCEPT ![t] = Head(connList)]
    /\ m_FreeConn' = m_FreeConn - 1
    /\ m_CurConn' = m_CurConn + 1
    /\ Goto(t, "use")
    /\ UNCHANGED <<connList, reserve, closed, destroyed, aborted>>

TakeFront(t) ==
    /\ pc[t] = "lock"
    /\ connList # <<>>
    /\ conRAII' = [conRAII EXCEPT ![t] = Head(connList)]
    /\ connList' = Tail(connList)
    /\ m_FreeConn' = m_FreeConn - 1
    /\ m_CurConn' = m_CurConn + 1
    /\ Goto(t, "use")
    /\ UNCHANGED <<reserve, closed, destroyed, aborted>>

(* pop_front() of an empty list erases the list's own sentinel node, which *)
(* is not on the heap: free() aborts.                                      *)
PopEmpty(t) ==
    /\ pc[t] = "lock"
    /\ connList = <<>>
    /\ aborted' = TRUE
    /\ UNCHANGED <<connList, m_FreeConn, m_CurConn, reserve, pc, conRAII, closed,
                   destroyed>>
-----------------------------------------------------------------------------
(* ReleaseConnection, called by connectionRAII's destructor. *)

ReleaseNullPosts(t) ==
    /\ pc[t] = "null"
    /\ reserve' = reserve + 1
    /\ Goto(t, "out")
    /\ UNCHANGED <<connList, m_FreeConn, m_CurConn, conRAII, closed, destroyed,
                   aborted>>

(* if (nullptr == conn) return false. *)
ReleaseNull(t) ==
    /\ pc[t] = "null"
    /\ Goto(t, "out")
    /\ UNCHANGED <<connList, m_FreeConn, m_CurConn, reserve, conRAII, closed,
                   destroyed, aborted>>

PushBackNoCount(t) ==
    /\ pc[t] = "use"
    /\ connList' = Append(connList, conRAII[t])
    /\ m_FreeConn' = m_FreeConn + 1
    /\ conRAII' = [conRAII EXCEPT ![t] = NULL]
    /\ Goto(t, "post")
    /\ UNCHANGED <<m_CurConn, reserve, closed, destroyed, aborted>>

PushBack(t) ==
    /\ pc[t] = "use"
    /\ connList' = Append(connList, conRAII[t])
    /\ m_FreeConn' = m_FreeConn + 1
    /\ m_CurConn' = m_CurConn - 1
    /\ conRAII' = [conRAII EXCEPT ![t] = NULL]
    /\ Goto(t, "post")
    /\ UNCHANGED <<reserve, closed, destroyed, aborted>>

PostReserveLost(t) ==
    /\ pc[t] = "post"
    /\ Goto(t, "out")
    /\ UNCHANGED <<connList, m_FreeConn, m_CurConn, reserve, conRAII, closed,
                   destroyed, aborted>>

PostReserve(t) ==
    /\ pc[t] = "post"
    /\ reserve' = reserve + 1
    /\ Goto(t, "out")
    /\ UNCHANGED <<connList, m_FreeConn, m_CurConn, conRAII, closed, destroyed,
                   aborted>>
-----------------------------------------------------------------------------
(* DestroyPool, called by the destructor once main has returned. *)
DestroyPool ==
    /\ Exits
    /\ ~destroyed
    /\ destroyed' = TRUE
    /\ IF connList = <<>>
       THEN UNCHANGED <<connList, m_FreeConn, m_CurConn, closed>>
       ELSE /\ closed' = closed \cup Listed
            /\ connList' = <<>>
            /\ m_FreeConn' = 0
            /\ m_CurConn' = 0
    /\ UNCHANGED <<reserve, pc, conRAII, aborted>>

Caller(t) ==
    /\ ~aborted
    /\ \/ CheckEmpty(t) \/ WaitReserve(t) \/ TakeFront(t) \/ PopEmpty(t)
       \/ ReleaseNull(t) \/ PushBack(t) \/ PostReserve(t)

(* A thread that has a connection, or is about to, gives it back: process() *)
(* returns and the destructor runs.                                        *)
Leaves(t) == Caller(t) /\ pc[t] # "out"

Next ==
    \/ \E t \in Threads : Caller(t)
    \/ ~aborted /\ DestroyPool

Spec == Init /\ [][Next]_vars

FairSpec == Spec /\ \A t \in Threads : WF_vars(Leaves(t))
-----------------------------------------------------------------------------
(* Every permit of the semaphore stands for a connection of the list: the  *)
(* permits still there, those already taken by threads on their way to the *)
(* lock and those about to be given back add up to the list's length       *)
(* (sql_connection_pool.cpp:72-76, 91-96).                                 *)
PermitsMatch ==
    ~destroyed =>
        reserve + Cardinality(At("lock")) + Cardinality(At("post")) = Len(connList)

(* pop_front() finds a connection for whoever got a permit, although the   *)
(* look at the list that came first was not under the lock; only the       *)
(* destruction of the pool can empty the list under a thread               *)
(* (sql_connection_pool.cpp:69-75).                                        *)
PopIsSafe ==
    /\ aborted => destroyed
    /\ ~destroyed => \A t \in Threads : pc[t] = "lock" => connList # <<>>

(* A connection is in the list once or used by one thread, and a closed    *)
(* one is neither, even when the pool is destroyed under its users         *)
(* (sql_connection_pool.cpp:73-75, 92, 103-113).                           *)
OneUser ==
    /\ \A i, j \in 1 .. Len(connList) : connList[i] = connList[j] => i = j
    /\ \A t \in Threads : conRAII[t] # NULL =>
         /\ conRAII[t] \notin Listed \cup closed
         /\ \A u \in Threads \ {t} : conRAII[u] # conRAII[t]
    /\ Listed \cap closed = {}

(* No connection is lost: it is in the list, or a thread uses it, or it    *)
(* has been closed (sql_connection_pool.cpp:74-75, 92, 103-113).           *)
NoneLost ==
    \A c \in Mysql : c \in Listed \cup closed \/ \E t \in Threads : conRAII[t] = c

(* The counters tell the truth at every step: m_FreeConn at all times,     *)
(* m_CurConn until DestroyPool zeroes it (sql_connection_pool.cpp:76-77,   *)
(* 93-94).                                                                 *)
CountersTrue ==
    /\ m_FreeConn = Len(connList)
    /\ ~destroyed => m_CurConn = Cardinality({t \in Threads : conRAII[t] # NULL})

(* The inductive invariant: a thread holds a connection just while it uses *)
(* it.                                                                     *)
HoldsInUse == \A t \in Threads : conRAII[t] # NULL <=> pc[t] = "use"

Inv ==
    /\ TypeOK
    /\ HoldsInUse
    /\ PermitsMatch
    /\ OneUser
    /\ NoneLost
    /\ CountersTrue
    /\ aborted => destroyed

(* The pool implements the promise to its callers. *)
Promise == INSTANCE ConnectionPool WITH
    asking  <- At("wait") \cup At("lock"),
    refused <- At("null"),
    has     <- conRAII,
    open    <- Mysql \ closed

(* Each step of the pool is a step of ConnectionPool or none: in           *)
(* particular a caller is turned down only when every open connection is   *)
(* in use (sql_connection_pool.cpp:67-114).                                *)
KeepsPromise == Promise!Spec

(* Threads that wait for a permit are not left there when permits can be   *)
(* had: again and again one is there for them, or none of them waits, as   *)
(* long as the process lives (sql_connection_pool.cpp:72, 96).             *)
WaitersServed == []<>(At("wait") = {} \/ reserve > 0 \/ aborted)

(* "When there is a request, return an available connection of the pool"   *)
(* (sql_connection_pool.cpp:64-65).  Refuted: when all are in use the      *)
(* caller gets nullptr instead of waiting on the semaphore.                *)
GetsConnection == At("null") = {}
=============================================================================
