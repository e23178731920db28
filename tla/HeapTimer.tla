------------------------------ MODULE HeapTimer ------------------------------
(***************************************************************************)
(* heap_timer: a binary heap of pointers to timers, and ref_, the place of *)
(* each client's timer in it.  The heap compares the pointers themselves,  *)
(* so that a timer is its address here and addresses are numbers.  Only    *)
(* the event loop uses the heap; one action is one turn of a loop of       *)
(* shift_up_ or shift_down_, or what comes before or after it.             *)
(*                                                                         *)
(* Of its operations the server uses add_timer, adjust_timer and           *)
(* del_timer.                                                              *)
(***************************************************************************)
EXTENDS Integers

CONSTANTS
    Fds,     (* a client_data is users_timer[fd]: its descriptor           *)
    Timers   (* the addresses of util_timers                               *)

ASSUME HeapTimerAssumption == Timers \subseteq Nat /\ Fds \subseteq Nat

VARIABLES
    user_data,  (* the descriptor of the client a timer was made for       *)
    heap_,      (* the vector                                              *)
    size,       (* heap_.size()                                            *)
    ref_,       (* the map; -1 for a client that is not in it              *)
    call,       (* the operation under way                                 *)
    loop,       (* where it is                                             *)
    idx, i, n   (* shift_down_(idx, n) and its local i, shift_up_(i)       *)

loopVars == <<call, loop, idx, i, n>>
heapVars == <<heap_, size, ref_, loopVars>>

None == -1

Places == 0 .. size - 1

HeapTypeOK ==
    /\ size \in Nat
    /\ heap_ \in [Places -> Timers]
    /\ ref_ \in [Fds -> Places \cup {None}]
    /\ call \in {"none", "add", "adjust", "del"}
    /\ loop \in {"none", "down", "up", "erase"}
    /\ idx \in Places \cup {0}
    /\ i \in Places \cup {0}
    /\ n \in 0 .. size

HeapInit ==
    /\ size = 0
    /\ heap_ = [k \in Places |-> 0]
    /\ ref_ = [fd \in Fds |-> None]
    /\ call = "none" /\ loop = "none"
    /\ idx = 0 /\ i = 0 /\ n = 0

HeapIdle == loop = "none"
-----------------------------------------------------------------------------
Parent(k) == (k - 1) \div 2

SwapNodeFirst(a, b) ==
    /\ heap_' = [heap_ EXCEPT ![a] = heap_[b], ![b] = heap_[a]]
    /\ ref_' = [ref_ EXCEPT ![user_data[heap_[a]]] = a, ![user_data[heap_[b]]] = b]

SwapNode_(a, b) ==
    /\ heap_' = [heap_ EXCEPT ![a] = heap_[b], ![b] = heap_[a]]
    /\ ref_' = [ref_ EXCEPT ![user_data[heap_[b]]] = a, ![user_data[heap_[a]]] = b]

(* The operation is over, but for del_, which still has its node to take   *)
(* off the end.                                                            *)
Return ==
    IF call = "del"
    THEN loop' = "erase" /\ UNCHANGED <<call, idx, i, n>>
    ELSE loop' = "none" /\ call' = "none" /\ idx' = 0 /\ i' = 0 /\ n' = 0

(* The child shift_down_ compares with. *)
Child ==
    LET j == 2 * i + 1
    IN IF j + 1 < n /\ heap_[j + 1] < heap_[j] THEN j + 1 ELSE j

DownSwaps ==
    /\ loop = "down"
    /\ 2 * i + 1 < n
    /\ ~(heap_[i] < heap_[Child])
    /\ SwapNode_(i, Child)
    /\ i' = Child
    /\ UNCHANGED <<user_data, size, call, loop, idx, n>>

DownStopsForGood ==
    /\ loop = "down"
    /\ 2 * i + 1 < n => heap_[i] < heap_[Child]
    /\ Return
    /\ UNCHANGED <<user_data, heap_, size, ref_>>

(* shift_down_ is over.  add_timer and del_ go on with shift_up_ when the  *)
(* node has not moved.                                                     *)
DownStops ==
    /\ loop = "down"
    /\ 2 * i + 1 < n => heap_[i] < heap_[Child]
    /\ IF i > idx \/ call = "adjust"
       THEN Return
       ELSE loop' = "up" /\ UNCHANGED <<call, idx, i, n>>
    /\ UNCHANGED <<user_data, heap_, size, ref_>>

UpSwaps ==
    /\ loop = "up"
    /\ i > 0
    /\ ~(heap_[Parent(i)] < heap_[i])
    /\ SwapNode_(i, Parent(i))
    /\ i' = Parent(i)
    /\ UNCHANGED <<user_data, size, call, loop, idx, n>>

(* At the root the code goes on to compare with heap_[(0 - 1) / 2], which, *)
(* in the width of size_t, is the word before the vector's memory.  That   *)
(* word is the allocator's size of the block, smaller than any address, so *)
(* that the loop ends.                                                     *)
UpStops ==
    /\ loop = "up"
    /\ i > 0 => heap_[Parent(i)] < heap_[i]
    /\ Return
    /\ UNCHANGED <<user_data, heap_, size, ref_>>

EraseKeepsRef ==
    /\ loop = "erase"
    /\ heap_' = [k \in 0 .. size - 2 |-> heap_[k]]
    /\ size' = size - 1
    /\ loop' = "none" /\ call' = "none" /\ idx' = 0 /\ i' = 0 /\ n' = 0
    /\ UNCHANGED <<user_data, ref_>>

Erase ==
    /\ loop = "erase"
    /\ ref_' = [ref_ EXCEPT ![user_data[heap_[size - 1]]] = None]
    /\ heap_' = [k \in 0 .. size - 2 |-> heap_[k]]
    /\ size' = size - 1
    /\ loop' = "none" /\ call' = "none" /\ idx' = 0 /\ i' = 0 /\ n' = 0
    /\ UNCHANGED user_data

HeapLoop == DownSwaps \/ DownStops \/ UpSwaps \/ UpStops \/ Erase
-----------------------------------------------------------------------------
(* add_timer: a client that has a node keeps it. *)
AddTimer(timer, fd) ==
    /\ call' = "add"
    /\ IF ref_[fd] # None
       THEN /\ loop' = "down"
            /\ idx' = ref_[fd] /\ i' = ref_[fd] /\ n' = size
            /\ UNCHANGED <<heap_, size, ref_>>
       ELSE /\ heap_' = [k \in 0 .. size |-> IF k = size THEN timer ELSE heap_[k]]
            /\ size' = size + 1
            /\ ref_' = [ref_ EXCEPT ![fd] = size]
            /\ loop' = "up"
            /\ i' = size
            /\ UNCHANGED <<idx, n>>

AdjustTimer(fd) ==
    /\ call' = "adjust" /\ loop' = "down"
    /\ idx' = ref_[fd] /\ i' = ref_[fd] /\ n' = size
    /\ UNCHANGED <<heap_, size, ref_>>

(* del_timer: the node is swapped with the last one, which then finds its  *)
(* place among the others.                                                 *)
DelTimer(fd) ==
    /\ call' = "del"
    /\ IF ref_[fd] < size - 1
       THEN /\ SwapNode_(ref_[fd], size - 1)
            /\ loop' = "down"
            /\ idx' = ref_[fd] /\ i' = ref_[fd] /\ n' = size - 1
       ELSE loop' = "erase" /\ UNCHANGED <<heap_, ref_, idx, i, n>>
    /\ UNCHANGED size
=============================================================================
