------------------------------ MODULE BlockQueue ------------------------------
(***************************************************************************)
(* block_queue<T>: a ring buffer under a mutex and a condition variable.   *)
(* m_front is the slot last popped, m_back the slot last pushed.  Every    *)
(* method locks m_locker, works and unlocks, so it is one step that needs  *)
(* the mutex free.  The exception is a pop that finds nothing: cond::wait  *)
(* (locker.h:97-103) locks the mutex its caller already holds, which never *)
(* succeeds, and the thread keeps m_locker for ever.                       *)
(***************************************************************************)
EXTENDS Integers, Sequences

CONSTANTS
    Threads,    (* the threads that share the queue                       *)
    Nobody,     (* no thread: m_locker is free                            *)
    Items,      (* what is queued                                         *)
    NoItem,     (* a T nothing was assigned to                            *)
    m_max_size

(* The constructor ends the process for max_size <= 0. *)
ASSUME QueueAssumption ==
    /\ m_max_size \in Nat \ {0}
    /\ Nobody \notin Threads

VARIABLES
    m_locker,  (* the thread that holds the mutex                         *)
    m_array, m_size, m_front, m_back,
    item,      (* the argument of each thread's last pop                  *)
    value,     (* the argument of each thread's last front or back        *)
    ok         (* what each thread's last method returned, and which it was *)

ring == <<m_array, m_size, m_front, m_back>>
vars == <<m_locker, ring, item, value, ok>>

Methods == {"none", "full", "empty", "push", "pop", "timed", "front", "back"}
Slots   == 0 .. m_max_size - 1
Indices == Slots \cup {-1}

(* What the ring holds, oldest first. *)
Contents ==
    [i \in 1 .. m_size |-> m_array[(m_front + i) % m_max_size]]

TypeOK ==
    /\ m_locker \in Threads \cup {Nobody}
    /\ m_array \in [Slots -> Items \cup {NoItem}]
    /\ m_size \in 0 .. m_max_size
    /\ m_front \in Indices
    /\ m_back \in Indices
    /\ item \in [Threads -> Items \cup {NoItem}]
    /\ value \in [Threads -> Items \cup {NoItem}]
    /\ ok \in [Threads -> [of : Methods, is : BOOLEAN]]

Init ==
    /\ m_locker = Nobody
    /\ m_array = [i \in Slots |-> NoItem]
    /\ m_size = 0
    /\ m_front = -1
    /\ m_back = -1
    /\ item = [t \in Threads |-> NoItem]
    /\ value = [t \in Threads |-> NoItem]
    /\ ok = [t \in Threads |-> [of |-> "none", is |-> FALSE]]
-----------------------------------------------------------------------------
(* A whole method: the mutex is free before it and after it. *)
Locked == m_locker = Nobody /\ UNCHANGED m_locker

Return(t, m, b) == ok' = [ok EXCEPT ![t] = [of |-> m, is |-> b]]

(* Mutant: full one item too early. *)
FullEarly(t) ==
    /\ Locked
    /\ Return(t, "full", m_size + 1 >= m_max_size)
    /\ UNCHANGED <<ring, item, value>>

Full(t) ==
    /\ Locked
    /\ Return(t, "full", m_size >= m_max_size)
    /\ UNCHANGED <<ring, item, value>>

Empty(t) ==
    /\ Locked
    /\ Return(t, "empty", m_size = 0)
    /\ UNCHANGED <<ring, item, value>>

(* Mutant: the early return forgets the mutex. *)
PushRefusedLocked(t) ==
    /\ m_locker = Nobody
    /\ m_locker' = t
    /\ m_size >= m_max_size
    /\ Return(t, "push", FALSE)
    /\ UNCHANGED <<ring, item, value>>

PushRefused(t) ==
    /\ Locked
    /\ m_size >= m_max_size
    /\ Return(t, "push", FALSE)
    /\ UNCHANGED <<ring, item, value>>

(* Mutant: m_back does not wrap. *)
PushNoWrap(t, x) ==
    /\ Locked
    /\ m_size < m_max_size
    /\ m_back' = m_back + 1
    /\ m_array' = [i \in Slots |-> IF i = m_back' THEN x ELSE m_array[i]]
    /\ m_size' = m_size + 1
    /\ Return(t, "push", TRUE)
    /\ UNCHANGED <<m_front, item, value>>

(* Mutant: push trusts its caller to have asked full(). *)
PushUnchecked(t, x) ==
    /\ Locked
    /\ m_back' = (m_back + 1) % m_max_size
    /\ m_array' = [m_array EXCEPT ![m_back'] = x]
    /\ m_size' = m_size + 1
    /\ Return(t, "push", TRUE)
    /\ UNCHANGED <<m_front, item, value>>

PushAccepted(t, x) ==
    /\ Locked
    /\ m_size < m_max_size
    /\ m_back' = (m_back + 1) % m_max_size
    /\ m_array' = [m_array EXCEPT ![m_back'] = x]
    /\ m_size' = m_size + 1
    /\ Return(t, "push", TRUE)
    /\ UNCHANGED <<m_front, item, value>>

Pop(t) ==
    /\ Locked
    /\ m_size > 0
    /\ m_front' = (m_front + 1) % m_max_size
    /\ item' = [item EXCEPT ![t] = m_array[m_front']]
    /\ m_size' = m_size - 1
    /\ Return(t, "pop", TRUE)
    /\ UNCHANGED <<m_array, m_back, value>>

(* Nothing there: cond::wait blocks on its caller's own lock. *)
PopHangs(t) ==
    /\ m_locker = Nobody
    /\ m_size <= 0
    /\ m_locker' = t
    /\ UNCHANGED <<ring, item, value, ok>>

(* pop with a timeout: cond::timewait hangs alike; with something to pop   *)
(* the method ends without unlocking and without a return statement.       *)
PopTimed(t) ==
    /\ m_locker = Nobody
    /\ m_locker' = t
    /\ IF m_size <= 0 THEN UNCHANGED ok ELSE \E b \in BOOLEAN : Return(t, "timed", b)
    /\ UNCHANGED <<ring, item, value>>

(* front() reads m_array[m_front], the slot last popped and not the head   *)
(* of the queue; before the first pop that is m_array[-1], which is not an *)
(* object: any value may come of it.  Nobody calls it.                     *)
Front(t) ==
    /\ Locked
    /\ Return(t, "front", m_size # 0)
    /\ \/ m_size = 0 /\ UNCHANGED value
       \/ m_size # 0 /\ m_front \in Slots
          /\ value' = [value EXCEPT ![t] = m_array[m_front]]
       \/ m_size # 0 /\ m_front \notin Slots
          /\ \E x \in Items \cup {NoItem} : value' = [value EXCEPT ![t] = x]
    /\ UNCHANGED <<ring, item>>

(* Mutant: m_back taken for the slot that is pushed next. *)
BackAhead(t) ==
    /\ Locked
    /\ Return(t, "back", m_size # 0)
    /\ value' = IF m_size = 0 THEN value
                ELSE [value EXCEPT ![t] = m_array[(m_back + 1) % m_max_size]]
    /\ UNCHANGED <<ring, item>>

Back(t) ==
    /\ Locked
    /\ Return(t, "back", m_size # 0)
    /\ value' = IF m_size = 0 THEN value
                ELSE [value EXCEPT ![t] = m_array[m_back]]
    /\ UNCHANGED <<ring, item>>

(* Mutant: only one end is reset. *)
ClearOneEnd ==
    /\ Locked
    /\ m_size' = 0
    /\ m_back' = -1
    /\ UNCHANGED <<m_array, m_front, item, value, ok>>

Clear ==
    /\ Locked
    /\ m_size' = 0
    /\ m_front' = -1
    /\ m_back' = -1
    /\ UNCHANGED <<m_array, item, value, ok>>

Next ==
    \/ \E t \in Threads :
          \/ \E x \in Items : PushAccepted(t, x)
          \/ PushRefused(t) \/ Pop(t) \/ PopHangs(t) \/ PopTimed(t)
          \/ Full(t) \/ Empty(t) \/ Front(t) \/ Back(t)
    \/ Clear

Spec == Init /\ [][Next]_vars

-----------------------------------------------------------------------------
(* The three numbers agree: m_size slots lie from m_front, not included,   *)
(* to m_back.  push and pop move one end and count; nothing else compares  *)
(* the ends, so one wrong wrap would hand out a stale slot for ever.       *)
RingOK ==
    m_back = IF m_front = -1 THEN m_size - 1
             ELSE (m_front + m_size) % m_max_size

(* The inductive invariant: also, what lies between the ends was pushed.   *)
Inv ==
    /\ TypeOK
    /\ RingOK
    /\ \A i \in 1 .. m_size : m_array[(m_front + i) % m_max_size] \in Items

(* The ring is a bounded first-in, first-out queue: push refuses only when *)
(* it is full, pop gives the oldest, and full() and empty() tell the truth,*)
(* after any number of turns round the array (block_queue.h:61-176).       *)
Promise == INSTANCE BoundedQueue WITH
    queue <- Contents, Capacity <- m_max_size
KeepsPromise == Promise!Spec

(* back() returns the newest item (block_queue.h:105-114).                 *)
BackIsNewest ==
    [][\A t \in Threads :
          Back(t) /\ ok'[t].is => value'[t] = Contents[Len(Contents)]]_vars
=============================================================================
