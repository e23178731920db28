----------------------------- MODULE TimerProofs -----------------------------
(***************************************************************************)
(* Theorems about ServerTimers, for every set of descriptors and of        *)
(* addresses: between two operations the heap is ordered, the map finds    *)
(* every node, and each connection is watched by its own timer.            *)
(***************************************************************************)
EXTENDS ServerTimers, TLAPS

(* The part of the heap del_ leaves: all of it but the node it takes off.  *)
Live == IF call = "del" THEN size - 1 ELSE size

(* Where an operation can be. *)
LoopOK ==
    /\ loop = "none" <=> call = "none"
    /\ loop = "down" => /\ call \in {"adjust", "del"}
                        /\ idx \in 0 .. i
                        /\ i \in 0 .. Live - 1
                        /\ n = Live
    /\ loop = "up" => i \in 0 .. Live - 1 /\ call \in {"add", "del"}
    /\ loop = "erase" => call = "del"
    /\ call = "del" => size > 0

(* The map and the vector are each other's inverse. *)
RefInverse ==
    /\ \A k \in Places : user_data[heap_[k]] \in Fds /\ ref_[user_data[heap_[k]]] = k
    /\ \A fd \in Fds : ref_[fd] # None => user_data[heap_[ref_[fd]]] = fd

Ordered(k) == heap_[Parent(k)] < heap_[k]

(* The children of k are in order with the parent of k. *)
Bridged(k) ==
    k > 0 => \A c \in 1 .. Live - 1 : Parent(c) = k => heap_[Parent(k)] < heap_[c]

(* The heap is in order but for the node that is looking for its place:    *)
(* on its way down it may be larger than its children, on its way up, or   *)
(* before its first step down, smaller than its parent.                    *)
HeapShape ==
    /\ loop \in {"none", "erase"} \/ call = "adjust" =>
          \A k \in 1 .. Live - 1 : Ordered(k)
    /\ loop = "down" => /\ \A k \in 1 .. Live - 1 :
                              Parent(k) # i /\ (k = i => i > idx) => Ordered(k)
                        /\ Bridged(i)
    /\ loop = "up" => /\ \A k \in 1 .. Live - 1 : k # i => Ordered(k)
                      /\ Bridged(i)

(* The timers that are kept are those of the connections. *)
Owned ==
    /\ \A fd \in Fds : ref_[fd] # None <=>
          \/ m_timer_mode = 0 /\ fd \in open
          \/ call = "del" /\ fd = user_data[heap_[size - 1]]
    /\ call = "del" => user_data[heap_[size - 1]] \notin open
    /\ \A k \in Places : heap_[k] \in used
    /\ \A fd \in open : /\ users_timer[fd] \in used
                        /\ user_data[users_timer[fd]] = fd
                        /\ m_timer_mode = 0 => heap_[ref_[fd]] = users_timer[fd]
                        /\ m_timer_mode = 1 => users_timer[fd] \in timer_set
    /\ \A timer \in timer_set : /\ timer \in used
                                /\ user_data[timer] \in open
                                /\ users_timer[user_data[timer]] = timer
    /\ m_timer_mode = 0 => timer_set = {} /\ ticking = "no"
    /\ m_timer_mode = 1 => size = 0 /\ loop = "none"

(* What became due or was used up was given out before. *)
Given == due \cup expired \subseteq used

IInv == TypeOK /\ LoopOK /\ RefInverse /\ HeapShape /\ Owned /\ Given
-----------------------------------------------------------------------------
(* Places of the tree, and nodes that differ. *)

LEMMA ParentIs ==
    \A k \in Nat \ {0} : /\ Parent(k) \in 0 .. k - 1
                         /\ k \in {2 * Parent(k) + 1, 2 * Parent(k) + 2}
  BY DEF Parent

LEMMA ParentOf ==
    \A k \in Nat : Parent(2 * k + 1) = k /\ Parent(2 * k + 2) = k
  BY DEF Parent

LEMMA Distinct ==
    ASSUME RefInverse
    PROVE  \A a, b \in Places : heap_[a] = heap_[b] => a = b
  BY DEF RefInverse

(* Of two different nodes one is the smaller. *)
LEMMA Smaller ==
    ASSUME TypeOK, RefInverse, NEW a \in Places, NEW b \in Places, a # b,
           ~(heap_[a] < heap_[b])
    PROVE  heap_[b] < heap_[a]
<1>1. heap_[a] \in Nat /\ heap_[b] \in Nat
  BY HeapTimerAssumption DEF HeapTimerAssumption, TypeOK, HeapTypeOK
<1>2. heap_[a] # heap_[b]
  BY Distinct
<1> QED
  BY <1>1, <1>2

(* What the heap holds are numbers. *)
LEMMA HeapNat == ASSUME TypeOK PROVE \A k \in Places : heap_[k] \in Nat
  BY HeapTimerAssumption DEF HeapTimerAssumption, TypeOK, HeapTypeOK

LEMMA ChildIs ==
    ASSUME TypeOK, LoopOK, RefInverse, loop = "down", 2 * i + 1 < n
    PROVE  /\ Child \in 1 .. Live - 1 /\ Child \in Places
           /\ i \in Places /\ i < Child
           /\ Parent(Child) = i
           /\ \A c \in 1 .. Live - 1 :
                 Parent(c) = i /\ c # Child => heap_[Child] < heap_[c]
<1>1. size \in Nat /\ i \in Nat /\ n = Live /\ i < n /\ Live \in {size, size - 1}
  BY DEF TypeOK, HeapTypeOK, LoopOK, Live, Places
<1>2. Child \in {2 * i + 1, 2 * i + 2} /\ Child < n
  BY <1>1 DEF Child
<1>3. Parent(Child) = i
  BY <1>1, <1>2, ParentOf
<1>4. ASSUME NEW c \in 1 .. Live - 1, Parent(c) = i, c # Child
      PROVE  heap_[Child] < heap_[c]
  <2>1. c \in {2 * i + 1, 2 * i + 2} /\ c \in Places /\ Child \in Places
    BY <1>1, <1>2, <1>4, ParentIs DEF Places
  <2>2. CASE Child = 2 * i + 2
    BY <1>1, <1>4, <2>1, <2>2 DEF Child
  <2>3. CASE Child = 2 * i + 1
    <3>1. c = (2 * i + 1) + 1 /\ c < n
      BY <1>1, <1>4, <2>1, <2>3
    <3>2. ~(heap_[c] < heap_[Child])
      BY <1>1, <2>3, <3>1 DEF Child
    <3> QED
      BY <1>4, <2>1, <3>2, Smaller
  <2> QED
    BY <1>2, <2>2, <2>3
<1> QED
  BY <1>1, <1>2, <1>3, <1>4 DEF Places
-----------------------------------------------------------------------------
(* SwapNode_ keeps the map and the vector each other's inverse, and every  *)
(* client its timer.                                                       *)
LEMMA Swapped ==
    ASSUME TypeOK, RefInverse, NEW a \in Places, NEW b \in Places, a # b,
           SwapNode_(a, b), size' = size, user_data' = user_data
    PROVE  /\ heap_' \in [Places -> Timers]
           /\ ref_' \in [Fds -> Places \cup {None}]
           /\ heap_'[a] = heap_[b] /\ heap_'[b] = heap_[a]
           /\ \A k \in Places \ {a, b} : heap_'[k] = heap_[k]
           /\ RefInverse'
           /\ \A fd \in Fds :
                 /\ ref_[fd] = None => ref_'[fd] = None
                 /\ ref_[fd] # None => /\ ref_'[fd] # None
                                       /\ heap_'[ref_'[fd]] = heap_[ref_[fd]]
<1> DEFINE A == user_data[heap_[a]]
           B == user_data[heap_[b]]
<1>1. /\ heap_ \in [Places -> Timers] /\ ref_ \in [Fds -> Places \cup {None}]
      /\ None \notin Places
      /\ Places' = Places
  BY DEF TypeOK, HeapTypeOK, None, Places
<1>2. /\ A \in Fds /\ B \in Fds /\ ref_[A] = a /\ ref_[B] = b /\ A # B
  BY DEF RefInverse
<1>3. /\ heap_' \in [Places -> Timers]
      /\ heap_'[a] = heap_[b] /\ heap_'[b] = heap_[a]
      /\ \A k \in Places \ {a, b} : heap_'[k] = heap_[k]
  BY <1>1 DEF SwapNode_
<1>4. /\ ref_' \in [Fds -> Places \cup {None}]
      /\ ref_'[A] = b /\ ref_'[B] = a
      /\ \A fd \in Fds \ {A, B} : ref_'[fd] = ref_[fd]
  BY <1>1, <1>2 DEF SwapNode_
<1>5. \A fd \in Fds \ {A, B} : ref_[fd] \notin {a, b}
  BY <1>1, <1>2 DEF RefInverse
<1>6. \A fd \in Fds :
         /\ ref_[fd] = None => ref_'[fd] = None
         /\ ref_[fd] # None => /\ ref_'[fd] # None
                               /\ heap_'[ref_'[fd]] = heap_[ref_[fd]]
  BY <1>1, <1>2, <1>3, <1>4, <1>5
<1>7. ASSUME NEW k \in Places
      PROVE  user_data[heap_'[k]] \in Fds /\ ref_'[user_data[heap_'[k]]] = k
  <2>1. CASE k \in {a, b}
    BY <1>2, <1>3, <1>4, <2>1
  <2>2. CASE k \notin {a, b}
    <3>1. heap_'[k] = heap_[k] /\ user_data[heap_[k]] \in Fds \ {A, B}
      BY <1>2, <1>3, <2>2 DEF RefInverse
    <3> QED
      BY <1>4, <3>1 DEF RefInverse
  <2> QED
    BY <2>1, <2>2
<1>8. ASSUME NEW fd \in Fds, ref_'[fd] # None
      PROVE  user_data[heap_'[ref_'[fd]]] = fd
  BY <1>6, <1>8 DEF RefInverse
<1>9. RefInverse'
  BY <1>1, <1>7, <1>8 DEF RefInverse, None
<1> QED
  BY <1>3, <1>4, <1>6, <1>9
-----------------------------------------------------------------------------
(* The turns of the loops. *)

Elsewhere == <<m_timer_mode, timer_set, serverVars, due, ticking, expired>>

(* A swap above the node del_ takes off leaves the timers with their       *)
(* connections.                                                            *)
LEMMA OwnedSwapped ==
    ASSUME IInv, NEW a \in 0 .. Live - 1, NEW b \in 0 .. Live - 1, a # b,
           SwapNode_(a, b), UNCHANGED <<size, user_data, call>>, UNCHANGED Elsewhere,
           loop' = loop
    PROVE  Owned' /\ Given'
<1>1. a \in Places /\ b \in Places /\ size \in Nat
  BY DEF IInv, TypeOK, HeapTypeOK, LoopOK, Live, Places
<1>2. /\ \A k \in Places : heap_'[k] \in used
      /\ \A fd \in Fds : /\ ref_[fd] = None => ref_'[fd] = None
                         /\ ref_[fd] # None => /\ ref_'[fd] # None
                                               /\ heap_'[ref_'[fd]] = heap_[ref_[fd]]
  BY <1>1, Swapped DEF IInv, Owned
<1>3. call = "del" => heap_'[size - 1] = heap_[size - 1]
  BY <1>1, Swapped DEF IInv, LoopOK, Live, Places
<1>4. Places' = Places
  BY DEF Places
<1>5. ASSUME NEW fd \in open
      PROVE  m_timer_mode = 0 => heap_'[ref_'[fd]] = users_timer[fd]
  BY <1>2 DEF IInv, Owned, TypeOK
<1>6. Given'
  BY DEF IInv, Given, Elsewhere, serverVars
<1>7. \A fd \in Fds : ref_'[fd] # None <=>
          \/ m_timer_mode = 0 /\ fd \in open
          \/ call = "del" /\ fd = user_data[heap_'[size - 1]]
  BY <1>2, <1>3 DEF IInv, Owned
<1> QED
  BY <1>2, <1>3, <1>4, <1>5, <1>6, <1>7 DEF IInv, Owned, Elsewhere, serverVars

LEMMA DownSwapsKeeps ==
    ASSUME IInv, DownSwaps, UNCHANGED Elsewhere PROVE IInv'
<1> DEFINE j == Child
<1>1. /\ j \in 1 .. Live - 1 /\ j \in Places /\ i \in Places /\ i < j
      /\ Parent(j) = i
      /\ \A c \in 1 .. Live - 1 : Parent(c) = i /\ c # j => heap_[j] < heap_[c]
  BY ChildIs DEF IInv, DownSwaps
<1>2. /\ SwapNode_(i, j) /\ i' = j
      /\ UNCHANGED <<user_data, size, call, loop, idx, n>>
      /\ loop = "down"
      /\ i \in Nat /\ j \in Nat /\ size \in Nat /\ Live \in Int /\ Live' = Live
  BY <1>1 DEF DownSwaps, Places, Live, IInv, TypeOK, HeapTypeOK
<1>3. /\ heap_' \in [Places -> Timers]
      /\ ref_' \in [Fds -> Places \cup {None}]
      /\ heap_'[i] = heap_[j] /\ heap_'[j] = heap_[i]
      /\ \A k \in Places \ {i, j} : heap_'[k] = heap_[k]
      /\ RefInverse'
  BY <1>1, <1>2, Swapped DEF IInv
<1>4. TypeOK'
  BY <1>1, <1>2, <1>3 DEF IInv, TypeOK, HeapTypeOK, Places, Elsewhere, serverVars
<1>5. LoopOK'
  BY <1>1, <1>2 DEF IInv, LoopOK
<1>6. heap_[j] < heap_[i]
  BY <1>1, Smaller DEF IInv, DownSwaps
<1>7. call = "del"
  <2>1. SUFFICES ASSUME call = "adjust" PROVE FALSE
    BY <1>2 DEF IInv, LoopOK
  <2>2. Ordered(j)
    BY <1>1, <2>1 DEF IInv, HeapShape
  <2>3. heap_[i] \in Nat /\ heap_[j] \in Nat
    BY <1>1, HeapNat DEF IInv
  <2> QED
    BY <1>1, <1>6, <2>2, <2>3 DEF Ordered
<1>8. \A k \in 1 .. Live - 1 : /\ k \in Places \ {0} /\ k \in Nat \ {0} /\ Parent(k) \in Places
                             /\ Parent(k) < k
  BY <1>2, ParentIs DEF Places, Live
<1>9. ASSUME NEW k \in 1 .. Live - 1, Parent(k) # j PROVE Ordered(k)'
  <2>0. Ordered(k)' <=> heap_'[Parent(k)] < heap_'[k]
    BY DEF Ordered, Parent
  <2>1. CASE k = j
    BY <1>1, <1>3, <1>6, <2>0, <2>1
  <2>2. CASE Parent(k) = i /\ k # j
    <3>1. k \notin {i, j} /\ k \in Places
      BY <1>2, <1>8, <2>2
    <3> QED
      BY <1>1, <1>3, <2>0, <2>2, <3>1
  <2>3. CASE k = i
    <3>1. Parent(i) \in Places \ {i, j} /\ i > 0
      BY <1>1, <1>2, <1>8, <2>3
    <3>2. heap_[Parent(i)] < heap_[j]
      BY <1>1, <1>2, <3>1 DEF IInv, HeapShape, Bridged
    <3> QED
      BY <1>3, <2>0, <2>3, <3>1, <3>2
  <2>4. CASE k \notin {i, j} /\ Parent(k) # i
    <3>1. Ordered(k)
      BY <1>2, <2>4 DEF IInv, HeapShape
    <3>2. k \in Places \ {i, j} /\ Parent(k) \in Places \ {i, j}
      BY <1>8, <1>9, <2>4
    <3> QED
      BY <1>3, <2>0, <3>1, <3>2 DEF Ordered
  <2> QED
    BY <2>1, <2>2, <2>3, <2>4
<1>10. Bridged(i)'
  <2>1. ASSUME NEW c \in 1 .. Live - 1, Parent(c) = j PROVE heap_'[Parent(j)] < heap_'[c]
    <3>1. Parent(c) # i /\ c \notin {i, j} /\ c \in Places
      BY <1>1, <1>2, <1>8, <2>1
    <3>2. Ordered(c)
      BY <1>2, <3>1 DEF IInv, HeapShape
    <3> QED
      BY <1>1, <1>3, <2>1, <3>1, <3>2 DEF Ordered
  <2> QED
    BY <1>2, <2>1 DEF Bridged
<1>11. HeapShape'
  BY <1>2, <1>7, <1>9, <1>10 DEF HeapShape
<1>12. Owned' /\ Given'
  <2>1. i \in 0 .. Live - 1 /\ j \in 0 .. Live - 1 /\ i # j
    BY <1>1, <1>2
  <2> QED
    BY <1>2, <2>1, OwnedSwapped
<1> QED
  BY <1>3, <1>4, <1>5, <1>11, <1>12 DEF IInv

LEMMA UpSwapsKeeps ==
    ASSUME IInv, UpSwaps, UNCHANGED Elsewhere PROVE IInv'
<1> DEFINE j == Parent(i)
<1>1. /\ i \in Nat \ {0} /\ size \in Nat /\ Live \in Int /\ i \in 1 .. Live - 1
      /\ j \in Nat /\ j < i /\ i \in Places /\ j \in Places
      /\ loop = "up" /\ call \in {"add", "del"}
  BY ParentIs DEF UpSwaps, IInv, TypeOK, HeapTypeOK, LoopOK, Live, Places
<1>2. /\ SwapNode_(i, j) /\ i' = j
      /\ UNCHANGED <<user_data, size, call, loop, idx, n>>
      /\ Live' = Live
  BY DEF UpSwaps, Live
<1>3. /\ heap_' \in [Places -> Timers]
      /\ ref_' \in [Fds -> Places \cup {None}]
      /\ heap_'[i] = heap_[j] /\ heap_'[j] = heap_[i]
      /\ \A k \in Places \ {i, j} : heap_'[k] = heap_[k]
      /\ RefInverse'
  BY <1>1, <1>2, Swapped DEF IInv
<1>4. TypeOK'
  BY <1>1, <1>2, <1>3 DEF IInv, TypeOK, HeapTypeOK, Places, Elsewhere, serverVars
<1>5. LoopOK'
  BY <1>1, <1>2 DEF IInv, LoopOK
<1>6. heap_[i] < heap_[j]
  BY <1>1, Smaller DEF IInv, UpSwaps
<1>8. \A k \in 1 .. Live - 1 : /\ k \in Places \ {0} /\ k \in Nat \ {0} /\ Parent(k) \in Places
                             /\ Parent(k) < k
  BY <1>1, ParentIs DEF Places, Live
<1>9. \A k \in Places : heap_[k] \in Nat
  BY HeapNat DEF IInv
<1>10. ASSUME NEW k \in 1 .. Live - 1, k # j PROVE heap_'[Parent(k)] < heap_'[k]
  <2>1. CASE k = i
    BY <1>3, <1>6, <2>1
  <2>2. CASE k # i /\ Parent(k) = j
    <3>1. heap_[j] < heap_[k] /\ k \in Places \ {i, j}
      BY <1>1, <1>8, <1>10, <2>2 DEF IInv, HeapShape, Ordered
    <3> QED
      BY <1>1, <1>3, <1>6, <1>9, <2>2, <3>1
  <2>3. CASE k # i /\ Parent(k) = i
    <3>1. heap_[j] < heap_[k] /\ k \in Places \ {i, j}
      BY <1>1, <1>8, <1>10, <2>3 DEF IInv, HeapShape, Bridged
    <3> QED
      BY <1>3, <2>3, <3>1
  <2>4. CASE k # i /\ Parent(k) \notin {i, j}
    <3>1. /\ heap_[Parent(k)] < heap_[k]
          /\ k \in Places \ {i, j} /\ Parent(k) \in Places \ {i, j}
      BY <1>1, <1>8, <1>10, <2>4 DEF IInv, HeapShape, Ordered
    <3> QED
      BY <1>3, <3>1
  <2> QED
    BY <2>1, <2>2, <2>3, <2>4
<1>11. ASSUME j > 0, NEW c \in 1 .. Live - 1, Parent(c) = j
       PROVE  heap_'[Parent(j)] < heap_'[c]
  <2>1. /\ heap_[Parent(j)] < heap_[j]
        /\ j \in 1 .. Live - 1 /\ Parent(j) \in Places \ {i, j} /\ c \in Places
    <3>1. j \in 1 .. Live - 1
      BY <1>1, <1>11
    <3> QED
      BY <1>1, <1>8, <3>1 DEF IInv, HeapShape, Ordered
  <2>2. CASE c = i
    BY <1>3, <2>1, <2>2
  <2>3. CASE c # i
    <3>1. heap_[j] < heap_[c] /\ c # j
      BY <1>1, <1>8, <1>11, <2>3 DEF IInv, HeapShape, Ordered
    <3>2. heap_[Parent(j)] \in Nat /\ heap_[j] \in Nat /\ heap_[c] \in Nat
      BY <1>1, <1>9, <2>1
    <3>3. heap_[Parent(j)] < heap_[c]
      BY <2>1, <3>1, <3>2
    <3>4. heap_'[Parent(j)] = heap_[Parent(j)] /\ heap_'[c] = heap_[c]
      BY <1>3, <2>1, <2>3, <3>1
    <3> QED
      BY <3>3, <3>4
  <2> QED
    BY <2>2, <2>3
<1>12. HeapShape'
  <2>1. \A k \in 1 .. Live' - 1 : k # i' => Ordered(k)'
    BY <1>2, <1>10 DEF Ordered
  <2>2. Bridged(i)'
    BY <1>2, <1>11 DEF Bridged
  <2> QED
    BY <1>1, <1>2, <2>1, <2>2 DEF HeapShape
<1>13. Owned' /\ Given'
  <2>1. i \in 0 .. Live - 1 /\ j \in 0 .. Live - 1 /\ i # j
    BY <1>1
  <2> QED
    BY <1>2, <2>1, OwnedSwapped
<1> QED
  BY <1>3, <1>4, <1>5, <1>12, <1>13 DEF IInv

(* An operation ends, or goes on to take its node off the end. *)
LEMMA ReturnKeeps ==
    ASSUME IInv, loop \in {"down", "up"}, \A k \in 1 .. Live - 1 : Ordered(k),
           Return, UNCHANGED <<user_data, heap_, size, ref_>>, UNCHANGED Elsewhere
    PROVE  IInv'
<1>1. call' = "del" <=> call = "del"
  BY DEF Return
<1>2. Live' = Live /\ Places' = Places
  BY <1>1 DEF Live, Places
<1>3. TypeOK'
  BY <1>2 DEF IInv, TypeOK, HeapTypeOK, Return, Places, Elsewhere, serverVars
<1>4. LoopOK'
  BY DEF IInv, LoopOK, Return
<1>5. RefInverse'
  BY <1>2 DEF IInv, RefInverse
<1>6. HeapShape'
  <2>1. \A k \in 1 .. Live' - 1 : Ordered(k)'
    BY <1>2 DEF Ordered
  <2>2. loop' \in {"none", "erase"}
    BY DEF Return
  <2> QED
    BY <2>1, <2>2 DEF HeapShape
<1>7. Owned'
  BY <1>1, <1>2 DEF IInv, Owned, Elsewhere, serverVars, Return
<1>8. Given'
  BY DEF IInv, Given, Elsewhere, serverVars
<1> QED
  BY <1>3, <1>4, <1>5, <1>6, <1>7, <1>8 DEF IInv

LEMMA UpStopsKeeps ==
    ASSUME IInv, UpStops, UNCHANGED Elsewhere PROVE IInv'
<1>1. \A k \in 1 .. Live - 1 : Ordered(k)
  BY DEF UpStops, IInv, HeapShape, Ordered
<1> QED
  BY <1>1, ReturnKeeps DEF UpStops

LEMMA DownStopsKeeps ==
    ASSUME IInv, DownStops, UNCHANGED Elsewhere PROVE IInv'
<1>1. /\ loop = "down" /\ i \in 0 .. Live - 1 /\ n = Live /\ Live \in Int
      /\ call \in {"adjust", "del"} /\ idx \in 0 .. i
      /\ UNCHANGED <<user_data, heap_, size, ref_>>
  BY DEF DownStops, IInv, LoopOK, Live, TypeOK, HeapTypeOK
<1>2. \A k \in Places : heap_[k] \in Nat
  BY HeapNat DEF IInv
<1>3. ASSUME NEW k \in 1 .. Live - 1, Parent(k) = i PROVE Ordered(k)
  <2>0. k \in Nat \ {0} /\ k \in Places
    BY <1>1 DEF Live, Places, IInv, TypeOK, HeapTypeOK
  <2>1. 2 * i + 1 <= k /\ i \in Nat /\ k \in Places
    BY <1>1, <1>3, <2>0, ParentIs
  <2>2. 2 * i + 1 < n
    BY <1>1, <2>1
  <2>3. heap_[i] < heap_[Child]
    BY <2>2 DEF DownStops
  <2>4. /\ i \in Places /\ Child \in Places
        /\ k # Child => heap_[Child] < heap_[k]
    BY <1>1, <1>3, <2>2, ChildIs DEF IInv
  <2> QED
    BY <1>2, <1>3, <2>1, <2>3, <2>4 DEF Ordered
<1>4. CASE i > idx \/ call = "adjust"
  <2>1. \A k \in 1 .. Live - 1 : Ordered(k)
    BY <1>1, <1>3, <1>4 DEF IInv, HeapShape
  <2>2. Return
    BY <1>4 DEF DownStops
  <2> QED
    BY <1>1, <2>1, <2>2, ReturnKeeps
<1>5. CASE ~(i > idx \/ call = "adjust")
  <2>1. loop' = "up" /\ UNCHANGED <<call, idx, i, n>> /\ call = "del"
    BY <1>1, <1>5 DEF DownStops
  <2>2. Live' = Live /\ Places' = Places
    BY <1>1, <2>1 DEF Live, Places
  <2>3. TypeOK'
    BY <1>1, <2>1, <2>2 DEF IInv, TypeOK, HeapTypeOK, Elsewhere, serverVars
  <2>4. LoopOK'
    BY <1>1, <2>1, <2>2 DEF IInv, LoopOK
  <2>5. RefInverse'
    BY <1>1, <2>2 DEF IInv, RefInverse
  <2>6. HeapShape'
    <3>1. \A k \in 1 .. Live' - 1 : k # i' => Ordered(k)'
      BY <1>1, <1>3, <2>1, <2>2 DEF IInv, HeapShape, Ordered
    <3>2. Bridged(i)'
      BY <1>1, <2>1, <2>2 DEF IInv, HeapShape, Bridged
    <3> QED
      BY <2>1, <3>1, <3>2 DEF HeapShape
  <2>7. Owned' /\ Given'
    BY <1>1, <2>1, <2>2 DEF IInv, Owned, Given, Elsewhere, serverVars
  <2> QED
    BY <2>3, <2>4, <2>5, <2>6, <2>7 DEF IInv
<1> QED
  BY <1>4, <1>5

LEMMA EraseKeeps ==
    ASSUME IInv, Erase, UNCHANGED Elsewhere PROVE IInv'
<1> DEFINE last == size - 1
           victim == user_data[heap_[last]]
<1>1. /\ call = "del" /\ size \in Nat \ {0} /\ last \in Places
      /\ heap_ \in [Places -> Timers] /\ ref_ \in [Fds -> Places \cup {None}]
      /\ size' = last /\ Places' = 0 .. size - 2 /\ Places' \subseteq Places
      /\ Places = Places' \cup {last} /\ last \notin Places'
      /\ victim \in Fds /\ ref_[victim] = last
  BY DEF Erase, IInv, TypeOK, HeapTypeOK, LoopOK, Places, RefInverse
<1>2. /\ heap_' \in [Places' -> Timers]
      /\ \A k \in Places' : heap_'[k] = heap_[k]
      /\ ref_' = [ref_ EXCEPT ![victim] = None]
      /\ loop' = "none" /\ call' = "none" /\ idx' = 0 /\ i' = 0 /\ n' = 0
      /\ user_data' = user_data
  BY <1>1 DEF Erase
<1>3. \A fd \in Fds \ {victim} : /\ ref_'[fd] = ref_[fd]
                                /\ ref_[fd] # last
  BY <1>1, <1>2 DEF IInv, RefInverse, Places, None
<1>4. ref_' \in [Fds -> Places' \cup {None}] /\ ref_'[victim] = None
  <2>1. ASSUME NEW fd \in Fds PROVE ref_'[fd] \in Places' \cup {None}
    BY <1>1, <1>2, <1>3
  <2> QED
    BY <1>1, <1>2, <2>1
<1>5. TypeOK'
  <2>1. size' \in Nat /\ n' \in 0 .. size'
    BY <1>1, <1>2
  <2> QED
    BY <1>2, <1>4, <2>1 DEF IInv, TypeOK, HeapTypeOK, Elsewhere, serverVars
<1>6. LoopOK'
  BY <1>2 DEF LoopOK
<1>7. RefInverse'
  <2>1. ASSUME NEW k \in Places'
        PROVE  user_data[heap_'[k]] \in Fds /\ ref_'[user_data[heap_'[k]]] = k
    <3>1. user_data[heap_[k]] \in Fds /\ ref_[user_data[heap_[k]]] = k /\ k # last
      BY <1>1, <2>1 DEF IInv, RefInverse
    <3> QED
      BY <1>1, <1>2, <1>3, <2>1, <3>1
  <2>2. ASSUME NEW fd \in Fds, ref_'[fd] # None PROVE user_data[heap_'[ref_'[fd]]] = fd
    <3>1. fd # victim /\ ref_'[fd] = ref_[fd] /\ ref_'[fd] \in Places'
      BY <1>3, <1>4, <2>2
    <3> QED
      BY <1>2, <2>2, <3>1 DEF IInv, RefInverse
  <2> QED
    BY <1>2, <2>1, <2>2 DEF RefInverse, None
<1>8. HeapShape'
  <2>1. ASSUME NEW k \in 1 .. last - 1 PROVE heap_'[Parent(k)] < heap_'[k]
    <3>1. k \in Places' /\ Parent(k) \in Places' /\ k \in 1 .. Live - 1
      BY <1>1, ParentIs DEF Live
    <3>2. Ordered(k)
      BY <3>1 DEF IInv, HeapShape, Erase
    <3> QED
      BY <1>2, <3>1, <3>2 DEF Ordered
  <2>2. Live' = last
    BY <1>1, <1>2 DEF Live
  <2> QED
    BY <1>2, <2>1, <2>2 DEF HeapShape, Ordered
<1>9. Owned'
  <2>1. UNCHANGED <<m_timer_mode, timer_set, users_timer, open, used, ticking>>
    BY DEF Elsewhere, serverVars
  <2>2. ASSUME NEW fd \in Fds PROVE ref_'[fd] # None <=> m_timer_mode = 0 /\ fd \in open
    BY <1>1, <1>3, <1>4 DEF IInv, Owned
  <2>3. \A k \in Places' : heap_'[k] \in used
    BY <1>1, <1>2 DEF IInv, Owned
  <2>4. ASSUME NEW fd \in open, m_timer_mode = 0 PROVE heap_'[ref_'[fd]] = users_timer[fd]
    <3>1. fd \in Fds /\ ref_'[fd] # None /\ fd # victim
      BY <1>1, <2>2, <2>4 DEF IInv, Owned, TypeOK
    <3>2. ref_'[fd] = ref_[fd] /\ ref_'[fd] \in Places'
      BY <1>3, <1>4, <3>1
    <3> QED
      BY <1>2, <2>4, <3>2 DEF IInv, Owned
  <2>5. m_timer_mode # 1
    BY <1>1 DEF IInv, Owned
  <2> QED
    BY <1>2, <2>1, <2>2, <2>3, <2>4, <2>5 DEF IInv, Owned
<1>10. Given'
  BY DEF IInv, Given, Elsewhere, serverVars
<1> QED
  BY <1>5, <1>6, <1>7, <1>8, <1>9, <1>10 DEF IInv
-----------------------------------------------------------------------------
(* The operations of the server. *)

LEMMA InitInv == Init => IInv
<1> SUFFICES ASSUME Init PROVE IInv
  OBVIOUS
<1>1. size = 0 /\ Places = {}
  BY DEF Init, HeapInit, Places
<1>2. TypeOK
  BY <1>1 DEF Init, HeapInit, TypeOK, HeapTypeOK
<1>3. LoopOK /\ RefInverse
  BY <1>1 DEF Init, HeapInit, LoopOK, RefInverse
<1>4. HeapShape
  BY <1>1 DEF Init, HeapInit, HeapShape, Live
<1>5. Owned /\ Given
  BY <1>1 DEF Init, HeapInit, Owned, Given
<1> QED
  BY <1>2, <1>3, <1>4, <1>5 DEF IInv

(* While no operation is under way every connection has its node, and      *)
(* nothing else has.                                                       *)
LEMMA WhenIdle ==
    ASSUME IInv, HeapIdle
    PROVE  /\ call = "none" /\ Live = size /\ size \in Nat
           /\ \A fd \in Fds : /\ m_timer_mode = 0 /\ fd \in open => ref_[fd] \in Places
                              /\ m_timer_mode # 0 \/ fd \notin open => ref_[fd] = None
           /\ \A k \in 1 .. size - 1 : Ordered(k)
  BY DEF HeapIdle, IInv, LoopOK, Owned, Live, TypeOK, HeapTypeOK, HeapShape

LEMMA AddKeeps ==
    ASSUME IInv, NEW fd \in Fds, NEW timer \in Timers, Timer(fd, timer), m_timer_mode = 0
    PROVE  IInv'
<1>1. /\ HeapIdle /\ fd \notin open /\ timer \notin used
      /\ open' = open \cup {fd} /\ used' = used \cup {timer}
      /\ user_data' = [user_data EXCEPT ![timer] = fd]
      /\ users_timer' = [users_timer EXCEPT ![fd] = timer]
      /\ AddTimer(timer, fd) /\ UNCHANGED <<m_timer_mode, timer_set, due, ticking, expired>>
  BY DEF Timer, Idle
<1>2. /\ call = "none" /\ Live = size /\ size \in Nat /\ ref_[fd] = None
      /\ \A k \in 1 .. size - 1 : Ordered(k)
  BY <1>1, WhenIdle
<1>3. /\ call' = "add" /\ loop' = "up" /\ i' = size /\ size' = size + 1
      /\ heap_' = [k \in 0 .. size |-> IF k = size THEN timer ELSE heap_[k]]
      /\ ref_' = [ref_ EXCEPT ![fd] = size]
      /\ UNCHANGED <<idx, n>>
  BY <1>1, <1>2 DEF AddTimer
<1>4. /\ Places' = Places \cup {size} /\ size \notin Places /\ Places' = 0 .. size
      /\ Live' = size + 1
      /\ heap_ \in [Places -> Timers] /\ ref_ \in [Fds -> Places \cup {None}]
      /\ user_data \in [Timers -> Fds \cup {None}]
  BY <1>2, <1>3 DEF Places, Live, IInv, TypeOK, HeapTypeOK
<1>5. /\ heap_' \in [Places' -> Timers]
      /\ heap_'[size] = timer
      /\ \A k \in Places : heap_'[k] = heap_[k]
  BY <1>3, <1>4
<1>6. /\ ref_' \in [Fds -> Places' \cup {None}]
      /\ ref_'[fd] = size
      /\ \A other \in Fds \ {fd} : ref_'[other] = ref_[other]
  BY <1>3, <1>4
<1>7. /\ user_data' \in [Timers -> Fds \cup {None}]
      /\ user_data'[timer] = fd
      /\ \A other \in Timers \ {timer} : user_data'[other] = user_data[other]
  BY <1>1, <1>4
<1>8. \A k \in Places : heap_[k] \in Timers \ {timer}
  BY <1>1, <1>4 DEF IInv, Owned
<1>9. TypeOK'
  <2>1. idx' \in Places' \cup {0} /\ i' \in Places' \cup {0} /\ n' \in 0 .. size' /\ size' \in Nat
    BY <1>2, <1>3, <1>4 DEF IInv, TypeOK, HeapTypeOK
  <2> QED
    BY <1>1, <1>3, <1>5, <1>6, <1>7, <2>1 DEF IInv, TypeOK, HeapTypeOK
<1>10. LoopOK'
  BY <1>2, <1>3, <1>4 DEF LoopOK
<1>11. RefInverse'
  <2>1. ASSUME NEW k \in Places'
        PROVE  user_data'[heap_'[k]] \in Fds /\ ref_'[user_data'[heap_'[k]]] = k
    <3>1. CASE k = size
      BY <1>5, <1>6, <1>7, <3>1
    <3>2. CASE k # size
      <4>1. /\ k \in Places /\ heap_'[k] = heap_[k]
            /\ user_data'[heap_[k]] = user_data[heap_[k]]
        BY <1>4, <1>5, <1>7, <1>8, <3>2
      <4>2. user_data[heap_[k]] \in Fds \ {fd} /\ ref_[user_data[heap_[k]]] = k
        BY <1>2, <4>1 DEF IInv, RefInverse, Places, None
      <4> QED
        BY <1>6, <4>1, <4>2
    <3> QED
      BY <3>1, <3>2
  <2>2. ASSUME NEW other \in Fds, ref_'[other] # None
        PROVE  user_data'[heap_'[ref_'[other]]] = other
    <3>1. CASE other = fd
      BY <1>5, <1>6, <1>7, <3>1
    <3>2. CASE other # fd
      <4>1. ref_'[other] = ref_[other] /\ ref_[other] \in Places
        BY <1>4, <1>6, <2>2, <3>2
      <4>2. user_data[heap_[ref_[other]]] = other
        BY <2>2, <4>1 DEF IInv, RefInverse
      <4> QED
        BY <1>5, <1>7, <1>8, <4>1, <4>2
    <3> QED
      BY <3>1, <3>2
  <2> QED
    BY <2>1, <2>2 DEF RefInverse, None
<1>12. HeapShape'
  <2>1. ASSUME NEW k \in 1 .. size, k # size PROVE heap_'[Parent(k)] < heap_'[k]
    <3>1. k \in 1 .. size - 1 /\ k \in Places /\ Parent(k) \in Places
      BY <1>2, <2>1, ParentIs DEF Places
    <3> QED
      BY <1>2, <1>5, <3>1 DEF Ordered
  <2>2. \A c \in 1 .. size : Parent(c) # size
    BY <1>2, ParentIs
  <2>3. Bridged(i)'
    BY <1>2, <1>3, <1>4, <2>2 DEF Bridged
  <2> QED
    BY <1>2, <1>3, <1>4, <2>1, <2>3 DEF HeapShape, Ordered
<1>13. Owned'
  <2>1. ASSUME NEW other \in Fds
        PROVE  ref_'[other] # None <=> other \in open'
    <3>1. size # None
      BY <1>2 DEF None
    <3>2. CASE other = fd
      BY <1>1, <1>6, <3>1, <3>2
    <3>3. CASE other # fd
      BY <1>1, <1>2, <1>6, <3>3 DEF IInv, Owned
    <3> QED
      BY <3>2, <3>3
  <2>2. \A k \in Places' : heap_'[k] \in used'
    BY <1>1, <1>4, <1>5 DEF IInv, Owned
  <2>3. ASSUME NEW other \in open'
        PROVE  /\ users_timer'[other] \in used'
               /\ user_data'[users_timer'[other]] = other
               /\ heap_'[ref_'[other]] = users_timer'[other]
    <3>0. users_timer \in [Fds -> Timers \cup {NULL}] /\ open \subseteq Fds /\ used \subseteq Timers
      BY DEF IInv, TypeOK
    <3>1. CASE other = fd
      BY <1>1, <1>5, <1>6, <1>7, <3>0, <3>1
    <3>2. CASE other # fd
      <4>1. other \in open /\ other \in Fds /\ users_timer'[other] = users_timer[other]
        BY <1>1, <3>0, <3>2
      <4>2. users_timer[other] \in used /\ users_timer[other] # timer
        BY <1>1, <4>1 DEF IInv, Owned
      <4>3. ref_[other] \in Places
        BY <1>1, <4>1, WhenIdle
      <4> QED
        BY <1>1, <1>5, <1>6, <1>7, <3>0, <3>2, <4>1, <4>2, <4>3 DEF IInv, Owned
    <3> QED
      BY <3>1, <3>2
  <2> QED
    BY <1>1, <1>3, <2>1, <2>2, <2>3 DEF IInv, Owned
<1>14. Given'
  BY <1>1 DEF IInv, Given
<1> QED
  BY <1>9, <1>10, <1>11, <1>12, <1>13, <1>14 DEF IInv

LEMMA AdjustKeeps ==
    ASSUME IInv, NEW fd \in Fds, Adjust(fd), m_timer_mode = 0
    PROVE  IInv'
<1>1. /\ HeapIdle /\ fd \in open /\ due' \subseteq due
      /\ AdjustTimer(fd)
      /\ UNCHANGED <<user_data, m_timer_mode, timer_set, serverVars, ticking, expired>>
  BY DEF Adjust, Idle
<1>2. /\ call = "none" /\ Live = size /\ size \in Nat /\ ref_[fd] \in Places
      /\ \A k \in 1 .. size - 1 : Ordered(k)
  BY <1>1, WhenIdle
<1>3. /\ call' = "adjust" /\ loop' = "down"
      /\ idx' = ref_[fd] /\ i' = ref_[fd] /\ n' = size
      /\ UNCHANGED <<heap_, size, ref_>>
  BY <1>1 DEF AdjustTimer
<1>4. Places' = Places /\ Live' = size
  BY <1>3 DEF Places, Live
<1>5. TypeOK'
  BY <1>1, <1>2, <1>3, <1>4 DEF IInv, TypeOK, HeapTypeOK, serverVars
<1>6. LoopOK'
  BY <1>2, <1>3, <1>4 DEF LoopOK, Places
<1>7. RefInverse'
  BY <1>1, <1>3, <1>4 DEF IInv, RefInverse
<1>8. \A k \in 1 .. size - 1 : heap_[k] \in Nat /\ heap_[Parent(k)] \in Nat
  BY <1>2, HeapNat, ParentIs DEF IInv, Places
<1>9. HeapShape'
  <2>1. ASSUME ref_[fd] > 0, NEW c \in 1 .. size - 1, Parent(c) = ref_[fd]
        PROVE  heap_[Parent(ref_[fd])] < heap_[c]
    <3>1. ref_[fd] \in 1 .. size - 1
      BY <1>2, <2>1 DEF Places
    <3>2. Ordered(ref_[fd]) /\ Ordered(c)
      BY <1>2, <3>1
    <3> QED
      BY <1>8, <2>1, <3>1, <3>2 DEF Ordered
  <2>2. Bridged(i)'
    BY <1>3, <1>4, <2>1 DEF Bridged
  <2>3. \A k \in 1 .. size - 1 : Ordered(k)'
    BY <1>2, <1>3 DEF Ordered
  <2> QED
    BY <1>3, <1>4, <2>2, <2>3 DEF HeapShape
<1>10. Owned' /\ Given'
  BY <1>1, <1>2, <1>3, <1>4 DEF IInv, Owned, Given, serverVars
<1> QED
  BY <1>5, <1>6, <1>7, <1>9, <1>10 DEF IInv

LEMMA DelKeeps ==
    ASSUME IInv, NEW fd \in Fds, DealTimer(fd), m_timer_mode = 0
    PROVE  IInv'
<1> DEFINE r == ref_[fd]
           last == size - 1
<1>1. /\ HeapIdle /\ fd \in open /\ open' = open \ {fd}
      /\ DelTimer(fd)
      /\ UNCHANGED <<user_data, m_timer_mode, timer_set, users_timer, used, due,
                     ticking, expired>>
  BY DEF DealTimer, Idle
<1>2. /\ call = "none" /\ Live = size /\ size \in Nat /\ r \in Places
      /\ \A k \in 1 .. size - 1 : Ordered(k)
  BY <1>1, WhenIdle
<1>3. /\ call' = "del" /\ size' = size /\ Places' = Places /\ Live' = last
      /\ last \in Places /\ size > 0
  BY <1>1, <1>2 DEF DelTimer, Places, Live
<1>4. user_data[heap_[r]] = fd /\ heap_[r] = users_timer[fd]
  BY <1>1, <1>2 DEF IInv, RefInverse, Owned, Places, None
<1>5. CASE r < last
  <2>1. /\ SwapNode_(r, last) /\ loop' = "down" /\ idx' = r /\ i' = r /\ n' = last
    BY <1>1, <1>5 DEF DelTimer
  <2>2. /\ heap_' \in [Places -> Timers]
        /\ ref_' \in [Fds -> Places \cup {None}]
        /\ heap_'[r] = heap_[last] /\ heap_'[last] = heap_[r]
        /\ \A k \in Places \ {r, last} : heap_'[k] = heap_[k]
        /\ RefInverse'
        /\ \A other \in Fds :
              /\ ref_[other] = None => ref_'[other] = None
              /\ ref_[other] # None => /\ ref_'[other] # None
                                       /\ heap_'[ref_'[other]] = heap_[ref_[other]]
    BY <1>1, <1>2, <1>3, <1>5, <2>1, Swapped DEF IInv
  <2>3. TypeOK'
    BY <1>1, <1>2, <1>3, <2>1, <2>2 DEF IInv, TypeOK, HeapTypeOK, Places
  <2>4. LoopOK'
    BY <1>2, <1>3, <1>5, <2>1 DEF LoopOK, Places
  <2>5. HeapShape'
    <3>1. ASSUME NEW k \in 1 .. last - 1, Parent(k) # r, k # r
          PROVE  heap_'[Parent(k)] < heap_'[k]
      <4>1. k \in Places \ {r, last} /\ Parent(k) \in Places \ {r, last} /\ k \in 1 .. size - 1
        BY <1>2, <3>1, ParentIs DEF Places
      <4> QED
        BY <1>2, <2>2, <4>1 DEF Ordered
    <3>2. ASSUME r > 0, NEW c \in 1 .. last - 1, Parent(c) = r
          PROVE  heap_'[Parent(r)] < heap_'[c]
      <4>1. /\ r \in 1 .. size - 1 /\ c \in 1 .. size - 1 /\ r < c
            /\ c \in Places \ {r, last} /\ Parent(r) \in Places \ {r, last}
        BY <1>2, <1>5, <3>2, ParentIs DEF Places
      <4>2. heap_[Parent(r)] < heap_[r] /\ heap_[r] < heap_[c]
        BY <1>2, <3>2, <4>1 DEF Ordered
      <4>3. heap_[Parent(r)] \in Nat /\ heap_[r] \in Nat /\ heap_[c] \in Nat
        BY <1>2, <4>1, HeapNat DEF IInv
      <4>4. heap_[Parent(r)] < heap_[c]
        BY <4>2, <4>3
      <4> QED
        BY <2>2, <4>1, <4>4
    <3>3. Bridged(i)'
      BY <1>3, <2>1, <3>2 DEF Bridged
    <3>4. \A k \in 1 .. Live' - 1 : Parent(k) # i' /\ (k = i' => i' > idx') => Ordered(k)'
      BY <1>2, <1>3, <2>1, <3>1 DEF Ordered, Places
    <3> QED
      BY <1>3, <2>1, <3>3, <3>4 DEF HeapShape
  <2>6. Owned'
    <3>1. ASSUME NEW other \in Fds
          PROVE  ref_'[other] # None <=> other \in open' \/ other = fd
      BY <1>1, <1>2, <2>2 DEF IInv, Owned
    <3>2. user_data[heap_'[last]] = fd /\ fd \notin open'
      BY <1>1, <1>4, <2>2
    <3>3. \A k \in Places : heap_'[k] \in used
      BY <1>2, <1>3, <2>2 DEF IInv, Owned
    <3>4. ASSUME NEW other \in open'
          PROVE  /\ other \in open /\ ref_[other] # None
                 /\ heap_'[ref_'[other]] = users_timer[other]
      <4>1. other \in open /\ other \in Fds
        BY <1>1 DEF IInv, TypeOK
      <4>2. ref_[other] # None
        BY <4>1 DEF IInv, Owned
      <4> QED
        BY <2>2, <4>1, <4>2 DEF IInv, Owned
    <3> QED
      BY <1>1, <1>3, <2>1, <3>1, <3>2, <3>3, <3>4 DEF IInv, Owned
  <2> QED
    BY <1>1, <2>2, <2>3, <2>4, <2>5, <2>6 DEF IInv, Given
<1>6. CASE ~(r < last)
  <2>1. loop' = "erase" /\ UNCHANGED <<heap_, ref_, idx, i, n>>
    BY <1>1, <1>6 DEF DelTimer
  <2>2. r = last
    BY <1>2, <1>6 DEF Places
  <2>3. TypeOK'
    BY <1>1, <1>3, <2>1 DEF IInv, TypeOK, HeapTypeOK
  <2>4. LoopOK'
    BY <1>3, <2>1 DEF LoopOK
  <2>5. RefInverse'
    BY <1>1, <1>3, <2>1 DEF IInv, RefInverse
  <2>6. HeapShape'
    <3>1. \A k \in 1 .. last - 1 : k \in 1 .. size - 1
      BY <1>2
    <3> QED
      BY <1>2, <1>3, <2>1, <3>1 DEF HeapShape, Ordered
  <2>7. Owned'
    <3>1. ASSUME NEW other \in Fds
          PROVE  ref_[other] # None <=> other \in open' \/ other = fd
      BY <1>1, <1>2 DEF IInv, Owned
    <3> QED
      BY <1>1, <1>3, <1>4, <2>1, <2>2, <3>1 DEF IInv, Owned
  <2> QED
    BY <1>1, <2>3, <2>4, <2>5, <2>6, <2>7 DEF IInv, Given
<1> QED
  BY <1>5, <1>6

(* In the other mode the heap is empty and stays so. *)
LEMMA SetKeeps ==
    ASSUME IInv, m_timer_mode = 1, UNCHANGED <<heapVars, m_timer_mode>>
    PROVE  LoopOK' /\ RefInverse' /\ HeapShape' /\ call # "del"
           /\ \A fd \in Fds : ref_[fd] = None
<1>1. size = 0 /\ loop = "none" /\ call = "none"
  BY DEF IInv, Owned, LoopOK
<1>2. \A fd \in Fds : ref_[fd] = None
  BY <1>1 DEF IInv, Owned
<1>3. UNCHANGED <<heap_, size, ref_, call, loop, idx, i, n>>
  BY DEF heapVars, loopVars
<1>4. LoopOK'
  BY <1>3 DEF IInv, LoopOK, Live
<1>5. RefInverse'
  BY <1>1, <1>2, <1>3 DEF RefInverse, Places
<1>6. HeapShape'
  BY <1>1, <1>3 DEF HeapShape, Live
<1> QED
  BY <1>1, <1>2, <1>4, <1>5, <1>6

LEMMA SetAddKeeps ==
    ASSUME IInv, NEW fd \in Fds, NEW timer \in Timers, Timer(fd, timer), m_timer_mode = 1
    PROVE  IInv'
<1>1. /\ fd \notin open /\ timer \notin used
      /\ open' = open \cup {fd} /\ used' = used \cup {timer}
      /\ user_data' = [user_data EXCEPT ![timer] = fd]
      /\ users_timer' = [users_timer EXCEPT ![fd] = timer]
      /\ timer_set' = timer_set \cup {timer}
      /\ UNCHANGED <<heapVars, m_timer_mode, due, ticking, expired>>
  BY DEF Timer
<1>2. UNCHANGED <<heap_, size, ref_, call, loop, idx, i, n>> /\ Places' = Places
  BY <1>1 DEF heapVars, loopVars, Places
<1>3. TypeOK'
  BY <1>1, <1>2 DEF IInv, TypeOK, HeapTypeOK
<1>4. Owned'
  <2>0. /\ users_timer \in [Fds -> Timers \cup {NULL}] /\ user_data \in [Timers -> Fds \cup {None}]
        /\ open \subseteq Fds /\ used \subseteq Timers /\ timer_set \subseteq Timers
        /\ size = 0 /\ Places = {} /\ call # "del" /\ loop = "none"
        /\ \A other \in Fds : ref_[other] = None
    BY <1>1, SetKeeps DEF IInv, TypeOK, Owned, Places
  <2>1. ASSUME NEW other \in open'
        PROVE  /\ users_timer'[other] \in used'
               /\ user_data'[users_timer'[other]] = other
               /\ users_timer'[other] \in timer_set'
    <3>1. CASE other = fd
      BY <1>1, <2>0, <3>1
    <3>2. CASE other # fd
      <4>1. /\ other \in open /\ users_timer'[other] = users_timer[other]
            /\ users_timer[other] \in used /\ user_data[users_timer[other]] = other
            /\ users_timer[other] \in timer_set
        BY <1>1, <2>0, <3>2 DEF IInv, Owned
      <4> QED
        BY <1>1, <2>0, <4>1
    <3> QED
      BY <3>1, <3>2
  <2>2. ASSUME NEW other \in timer_set'
        PROVE  /\ other \in used'
               /\ user_data'[other] \in open'
               /\ users_timer'[user_data'[other]] = other
    <3>1. CASE other = timer
      BY <1>1, <2>0, <3>1
    <3>2. CASE other # timer
      <4>1. /\ other \in timer_set /\ other \in used /\ user_data[other] \in open
            /\ users_timer[user_data[other]] = other
        BY <1>1, <3>2 DEF IInv, Owned
      <4> QED
        BY <1>1, <2>0, <3>2, <4>1
    <3> QED
      BY <3>1, <3>2
  <2> QED
    BY <1>1, <1>2, <2>0, <2>1, <2>2 DEF Owned
<1>5. Given'
  BY <1>1 DEF IInv, Given
<1> QED
  BY <1>1, <1>3, <1>4, <1>5, SetKeeps DEF IInv

(* A connection is closed and its timer leaves the set. *)
LEMMA SetCloseKeeps ==
    ASSUME IInv, NEW fd \in open, m_timer_mode = 1,
           open' = open \ {fd}, timer_set' = timer_set \ {users_timer[fd]},
           expired' \subseteq expired \cup {users_timer[fd]},
           ticking' \in {"no", "yes", "crashed"},
           UNCHANGED <<user_data, heapVars, m_timer_mode, users_timer, used, due>>
    PROVE  IInv'
<1>1. UNCHANGED <<heap_, size, ref_, call, loop, idx, i, n>> /\ Places' = Places
  BY DEF heapVars, loopVars, Places
<1>2. users_timer[fd] \in timer_set /\ user_data[users_timer[fd]] = fd
      /\ users_timer[fd] \in used /\ timer_set \subseteq Timers
  BY DEF IInv, Owned, TypeOK
<1>3. TypeOK'
  BY <1>1, <1>2 DEF IInv, TypeOK, HeapTypeOK
<1>4. Owned'
  <2>1. ASSUME NEW other \in open' PROVE users_timer[other] \in timer_set'
    BY <1>2 DEF IInv, Owned
  <2>2. ASSUME NEW other \in timer_set' PROVE user_data[other] \in open'
    BY <1>2 DEF IInv, Owned
  <2> QED
    BY <1>1, <2>1, <2>2, SetKeeps DEF IInv, Owned
<1>5. Given'
  BY <1>2 DEF IInv, Given
<1> QED
  BY <1>3, <1>4, <1>5, SetKeeps DEF IInv

LEMMA TickExpiresKeeps ==
    ASSUME IInv, NEW timer \in Timers, TickExpires(timer) PROVE IInv'
<1>1. timer \in timer_set /\ m_timer_mode = 1
  BY DEF TickExpires, First, IInv, Owned, TypeOK
<1>2. user_data[timer] \in open /\ users_timer[user_data[timer]] = timer
  BY <1>1 DEF IInv, Owned
<1> QED
  BY <1>1, <1>2, SetCloseKeeps DEF TickExpires

(* What only tells about time. *)
LEMMA TimeKeeps ==
    ASSUME IInv, UNCHANGED <<user_data, heapVars, m_timer_mode, timer_set, serverVars, expired>>,
           due' \subseteq due \cup timer_set,
           ticking' \in {"no", "yes", "crashed"},
           m_timer_mode = 0 => ticking' = ticking
    PROVE  IInv'
<1>1. /\ UNCHANGED <<heap_, size, ref_, call, loop, idx, i, n, users_timer, open, used>>
      /\ Places' = Places /\ Live' = Live
  BY DEF heapVars, loopVars, serverVars, Places, Live
<1>2. TypeOK'
  BY <1>1 DEF IInv, TypeOK, HeapTypeOK
<1>3. LoopOK' /\ RefInverse'
  BY <1>1 DEF IInv, LoopOK, RefInverse
<1>4. HeapShape'
  BY <1>1 DEF IInv, HeapShape, Ordered, Bridged
<1>5. Owned'
  BY <1>1 DEF IInv, Owned
<1>6. Given'
  BY <1>1 DEF IInv, Given, Owned
<1> QED
  BY <1>2, <1>3, <1>4, <1>5, <1>6 DEF IInv
-----------------------------------------------------------------------------
LEMMA NextKeeps == ASSUME IInv, [Next]_vars PROVE IInv'
<1>1. ASSUME NEW fd \in Fds, NEW timer \in Timers, Timer(fd, timer) PROVE IInv'
  BY <1>1, AddKeeps, SetAddKeeps DEF IInv, TypeOK
<1>2. ASSUME NEW fd \in Fds, Adjust(fd) PROVE IInv'
  <2>1. CASE m_timer_mode = 0
    BY <1>2, <2>1, AdjustKeeps
  <2>2. CASE m_timer_mode = 1
    <3>1. users_timer[fd] \in timer_set
      BY <1>2, <2>2 DEF Adjust, IInv, Owned
    <3>2. /\ UNCHANGED <<user_data, heapVars, m_timer_mode, timer_set, serverVars, expired>>
          /\ due' \subseteq due /\ ticking' = ticking
      BY <1>2, <2>2, <3>1 DEF Adjust
    <3>3. ticking' \in {"no", "yes", "crashed"}
      BY <3>2 DEF IInv, TypeOK
    <3> QED
      BY <3>2, <3>3, TimeKeeps
  <2> QED
    BY <2>1, <2>2 DEF IInv, TypeOK
<1>3. ASSUME NEW fd \in Fds, DealTimer(fd) PROVE IInv'
  <2>1. CASE m_timer_mode = 0
    BY <1>3, <2>1, DelKeeps
  <2>2. CASE m_timer_mode = 1
    <3>1. /\ fd \in open /\ open' = open \ {fd}
          /\ timer_set' = timer_set \ {users_timer[fd]}
          /\ UNCHANGED <<user_data, heapVars, m_timer_mode, users_timer, used, due,
                         ticking, expired>>
      BY <1>3, <2>2 DEF DealTimer
    <3>2. ticking' \in {"no", "yes", "crashed"} /\ expired' \subseteq expired \cup {users_timer[fd]}
      BY <3>1 DEF IInv, TypeOK
    <3> QED
      BY <2>2, <3>1, <3>2, SetCloseKeeps
  <2> QED
    BY <2>1, <2>2 DEF IInv, TypeOK
<1>4. ASSUME HeapLoop, UNCHANGED Elsewhere PROVE IInv'
  BY <1>4, DownSwapsKeeps, DownStopsKeeps, UpSwapsKeeps, UpStopsKeeps, EraseKeeps DEF HeapLoop
<1>5. CASE Tick \/ TickStops
  <2>1. /\ UNCHANGED <<user_data, heapVars, m_timer_mode, timer_set, serverVars, due, expired>>
        /\ ticking' \in {"no", "yes", "crashed"}
        /\ timer_set # {} \/ ticking = "yes"
    BY <1>5 DEF Tick, TickStops
  <2>2. m_timer_mode # 0
    BY <2>1 DEF IInv, Owned
  <2> QED
    BY <2>1, <2>2, TimeKeeps
<1>6. ASSUME NEW timer \in Timers, TickExpires(timer) \/ Due(timer) PROVE IInv'
  <2>1. CASE Due(timer)
    <3>1. ticking' \in {"no", "yes", "crashed"}
      BY <2>1 DEF Due, IInv, TypeOK
    <3> QED
      BY <2>1, <3>1, TimeKeeps DEF Due
  <2> QED
    BY <1>6, <2>1, TickExpiresKeeps
<1>7. CASE UNCHANGED vars
  <2>1. ticking' \in {"no", "yes", "crashed"}
    BY <1>7 DEF vars, IInv, TypeOK
  <2> QED
    BY <1>7, <2>1, TimeKeeps DEF vars
<1> QED
  BY <1>1, <1>2, <1>3, <1>4, <1>5, <1>6, <1>7 DEF Next, Elsewhere

(* The heap, its map and the connections are tied together as IInv says,   *)
(* at every turn of the loops (heap_timer.cpp:12-135).                     *)
THEOREM Invariance == Spec => []IInv
<1>1. Init => IInv
  BY InitInv
<1>2. IInv /\ [Next]_vars => IInv'
  BY NextKeeps
<1> QED
  BY <1>1, <1>2, PTL DEF Spec

(* No operation reads or writes outside the vector, and the map never      *)
(* points outside it (heap_timer.cpp:12-57, 121-135).                      *)
THEOREM TypeCorrect == Spec => []TypeOK
<1>1. IInv => TypeOK
  BY DEF IInv
<1> QED
  BY <1>1, Invariance, PTL

(* Between two operations the heap is a heap (heap_timer.cpp:12-57).       *)
THEOREM HeapOrdered == Spec => []HeapOrder
<1>1. ASSUME IInv PROVE HeapOrder
  <2>1. SUFFICES ASSUME HeapIdle, NEW k \in Places \ {0} PROVE Ordered(k)
    BY DEF HeapOrder, Ordered
  <2>2. k \in 1 .. Live - 1
    BY <1>1, <2>1 DEF IInv, LoopOK, Live, HeapIdle, TypeOK, HeapTypeOK, Places
  <2> QED
    BY <1>1, <2>1, <2>2 DEF IInv, HeapShape, HeapIdle
<1> QED
  BY <1>1, Invariance, PTL

(* By which timer the containers watch a descriptor, in the one mode and   *)
(* in the other.                                                           *)
LEMMA WatchedByHeap ==
    ASSUME IInv, m_timer_mode = 0, NEW fd \in Fds
    PROVE  Watched(fd) = IF ref_[fd] # None THEN heap_[ref_[fd]] ELSE NULL
  BY DEF Watched, IInv, Owned

LEMMA WatchedBySet ==
    ASSUME IInv, m_timer_mode = 1, NEW fd \in Fds
    PROVE  Watched(fd) = IF fd \in open THEN users_timer[fd] ELSE NULL
<1>1. ref_[fd] = None
  BY DEF IInv, Owned, LoopOK
<1>2. \A timer \in timer_set : user_data[timer] = fd => fd \in open /\ timer = users_timer[fd]
  BY DEF IInv, Owned
<1>3. CASE fd \in open
  <2>1. users_timer[fd] \in timer_set /\ user_data[users_timer[fd]] = fd
    BY <1>3 DEF IInv, Owned
  <2> QED
    BY <1>1, <1>2, <1>3, <2>1 DEF Watched
<1>4. CASE fd \notin open
  BY <1>1, <1>2, <1>4 DEF Watched
<1> QED
  BY <1>3, <1>4

(* Between two operations every connection is watched by its own timer     *)
(* (webserver.cpp:132-178, heap_timer.cpp:10-135, set_timer.cpp).          *)
THEOREM EachWatched == Spec => []WatchesOpen
<1>1. ASSUME IInv, Idle PROVE WatchesOpen
  <2>1. loop = "none" /\ call = "none" /\ open \subseteq Fds
    BY <1>1 DEF Idle, HeapIdle, IInv, LoopOK, TypeOK
  <2>2. ASSUME NEW fd \in Fds
        PROVE  Watched(fd) = IF fd \in open THEN users_timer[fd] ELSE NULL
    <3>1. CASE m_timer_mode = 0
      BY <1>1, <2>1, <3>1, WatchedByHeap DEF IInv, Owned
    <3>2. CASE m_timer_mode = 1
      BY <1>1, <3>2, WatchedBySet
    <3> QED
      BY <1>1, <3>1, <3>2 DEF IInv, TypeOK
  <2>3. \A k \in Places : ref_[user_data[heap_[k]]] = k
    BY <1>1 DEF IInv, RefInverse
  <2>4. \A timer \in timer_set : Watched(user_data[timer]) = timer
    BY <1>1, <2>1, <2>2 DEF IInv, Owned
  <2> QED
    BY <2>2, <2>3, <2>4 DEF WatchesOpen
<1>2. IInv => WatchesOpen
  BY <1>1 DEF WatchesOpen
<1> QED
  BY <1>2, Invariance, PTL
-----------------------------------------------------------------------------
(* The map from descriptors to timers, before and after a step. *)

WatchMap == [fd \in Fds |-> Watched(fd)]

LEMMA WatchMapByHeap ==
    ASSUME IInv, m_timer_mode = 0
    PROVE  WatchMap = [fd \in Fds |-> IF ref_[fd] # None THEN heap_[ref_[fd]] ELSE NULL]
  BY WatchedByHeap DEF WatchMap

LEMMA WatchMapBySet ==
    ASSUME IInv, m_timer_mode = 1
    PROVE  WatchMap = [fd \in Fds |-> IF fd \in open THEN users_timer[fd] ELSE NULL]
  BY WatchedBySet DEF WatchMap

LEMMA NextByHeap ==
    ASSUME IInv', m_timer_mode' = 0
    PROVE  WatchMap' = [fd \in Fds |-> IF ref_'[fd] # None THEN heap_'[ref_'[fd]] ELSE NULL]
<1>1. \A fd \in Fds : Watched(fd)' = IF ref_'[fd] # None THEN heap_'[ref_'[fd]] ELSE NULL
  BY DEF Watched, IInv, Owned
<1> QED
  BY <1>1 DEF WatchMap

LEMMA NextBySet ==
    ASSUME IInv', m_timer_mode' = 1
    PROVE  WatchMap' = [fd \in Fds |-> IF fd \in open' THEN users_timer'[fd] ELSE NULL]
<1>1. ASSUME NEW fd \in Fds
      PROVE  Watched(fd)' = IF fd \in open' THEN users_timer'[fd] ELSE NULL
  <2>1. ref_'[fd] = None
    BY DEF IInv, Owned, LoopOK
  <2>2. \A timer \in timer_set' :
           user_data'[timer] = fd => fd \in open' /\ timer = users_timer'[fd]
    BY DEF IInv, Owned
  <2>3. CASE fd \in open'
    <3>1. users_timer'[fd] \in timer_set' /\ user_data'[users_timer'[fd]] = fd
      BY <2>3 DEF IInv, Owned
    <3> QED
      BY <2>1, <2>2, <2>3, <3>1 DEF Watched
  <2>4. CASE fd \notin open'
    BY <2>1, <2>2, <2>4 DEF Watched
  <2> QED
    BY <2>3, <2>4
<1> QED
  BY <1>1 DEF WatchMap

(* The swaps move timers about and leave each with its client. *)
LEMMA SwapKeepsWatch ==
    ASSUME IInv, IInv', m_timer_mode = 0, m_timer_mode' = 0,
           NEW a \in Places, NEW b \in Places, a # b, SwapNode_(a, b),
           size' = size, user_data' = user_data
    PROVE  UNCHANGED WatchMap
<1>1. \A fd \in Fds :
         /\ ref_[fd] = None => ref_'[fd] = None
         /\ ref_[fd] # None => /\ ref_'[fd] # None
                               /\ heap_'[ref_'[fd]] = heap_[ref_[fd]]
  BY Swapped DEF IInv
<1> QED
  BY <1>1, WatchMapByHeap, NextByHeap

LEMMA SameWatch ==
    ASSUME UNCHANGED <<user_data, heap_, ref_, timer_set>>
    PROVE  UNCHANGED WatchMap
  BY DEF WatchMap, Watched

LEMMA AddMaps ==
    ASSUME IInv, IInv', NEW fd \in Fds, NEW timer \in Timers, Timer(fd, timer)
    PROVE  Queue!Add(fd, timer)
<1>1. /\ Idle /\ fd \notin open /\ timer \notin used
      /\ open' = open \cup {fd}
      /\ users_timer' = [users_timer EXCEPT ![fd] = timer]
      /\ UNCHANGED <<m_timer_mode, due, expired>>
  BY DEF Timer
<1>2. /\ open \subseteq Fds /\ used \subseteq Timers /\ NULL \notin Timers
      /\ users_timer \in [Fds -> Timers \cup {NULL}]
      /\ timer \notin due \cup expired
      /\ timer # NULL
  BY <1>1, ServerTimersAssumption DEF IInv, TypeOK, Given, ServerTimersAssumption
<1>3. /\ WatchMap[fd] = NULL
      /\ \A other \in Fds : WatchMap[other] # timer
      /\ WatchMap' = [WatchMap EXCEPT ![fd] = timer]
  <2>1. CASE m_timer_mode = 0
    <3>1. AddTimer(timer, fd)
      BY <2>1 DEF Timer
    <3>2. call = "none" /\ size \in Nat
      BY <1>1 DEF Idle, HeapIdle, IInv, LoopOK, TypeOK, HeapTypeOK
    <3>3. /\ \A other \in Fds : ref_[other] # None <=> other \in open
          /\ \A k \in Places : heap_[k] \in used
      BY <2>1, <3>2 DEF IInv, Owned
    <3>4. ref_[fd] = None /\ size # None
      BY <1>1, <3>2, <3>3 DEF None
    <3>5. /\ heap_' = [k \in 0 .. size |-> IF k = size THEN timer ELSE heap_[k]]
          /\ ref_' = [ref_ EXCEPT ![fd] = size]
      BY <3>1, <3>4 DEF AddTimer
    <3>6. ref_ \in [Fds -> Places \cup {None}] /\ Places = 0 .. size - 1
      BY DEF IInv, TypeOK, HeapTypeOK, Places
    <3>7. \A other \in Fds : /\ WatchMap[other] = IF ref_[other] # None THEN heap_[ref_[other]] ELSE NULL
                             /\ WatchMap'[other] = IF ref_'[other] # None THEN heap_'[ref_'[other]] ELSE NULL
      BY <1>1, <2>1, WatchMapByHeap, NextByHeap
    <3>8. WatchMap'[fd] = timer
      BY <3>2, <3>4, <3>5, <3>6, <3>7
    <3>9. ASSUME NEW other \in Fds, other # fd PROVE WatchMap'[other] = WatchMap[other]
      BY <3>2, <3>5, <3>6, <3>7, <3>9
    <3>10. \A other \in Fds : WatchMap[other] # timer
      BY <1>1, <1>2, <3>3, <3>6, <3>7
    <3>11. WatchMap' = [WatchMap EXCEPT ![fd] = timer]
      BY <3>8, <3>9 DEF WatchMap
    <3> QED
      BY <3>4, <3>7, <3>10, <3>11
  <2>2. CASE m_timer_mode = 1
    <3>1. \A other \in Fds : /\ WatchMap[other] = IF other \in open THEN users_timer[other] ELSE NULL
                             /\ WatchMap'[other] = IF other \in open' THEN users_timer'[other] ELSE NULL
      BY <1>1, <2>2, WatchMapBySet, NextBySet
    <3>2. \A other \in Fds : other \in open => users_timer[other] # timer
      BY <1>1 DEF IInv, Owned
    <3>3. \A other \in Fds : WatchMap'[other] = IF other = fd THEN timer ELSE WatchMap[other]
      BY <1>1, <1>2, <3>1
    <3>4. WatchMap' = [WatchMap EXCEPT ![fd] = timer]
      BY <3>3 DEF WatchMap
    <3> QED
      BY <1>1, <1>2, <3>1, <3>2, <3>4
  <2> QED
    BY <2>1, <2>2 DEF IInv, TypeOK
<1> QED
  BY <1>1, <1>2, <1>3 DEF Queue!Add, WatchMap

LEMMA AdjustMaps ==
    ASSUME IInv, IInv', NEW fd \in Fds, Adjust(fd)
    PROVE  Queue!Adjust(fd)
<1>1. /\ Idle /\ fd \in open /\ due' = due \ {users_timer[fd]}
      /\ UNCHANGED <<user_data, m_timer_mode, expired>>
  BY DEF Adjust
<1>2. WatchMap[fd] = users_timer[fd] /\ UNCHANGED WatchMap
  <2>1. CASE m_timer_mode = 0
    <3>1. UNCHANGED <<user_data, heap_, ref_, timer_set>>
      BY <1>1, <2>1 DEF Adjust, AdjustTimer
    <3>2. ref_[fd] # None /\ heap_[ref_[fd]] = users_timer[fd]
      BY <1>1, <2>1 DEF IInv, Owned
    <3> QED
      BY <2>1, <3>1, <3>2, SameWatch, WatchMapByHeap
  <2>2. CASE m_timer_mode = 1
    <3>1. UNCHANGED <<user_data, heap_, ref_, timer_set>>
      BY <1>1, <2>2 DEF Adjust, heapVars, IInv, Owned
    <3> QED
      BY <1>1, <2>2, <3>1, SameWatch, WatchMapBySet
  <2> QED
    BY <2>1, <2>2 DEF IInv, TypeOK
<1> QED
  BY <1>1, <1>2 DEF Queue!Adjust, WatchMap

(* A connection is closed and its timer leaves the set. *)
LEMMA SetCloseMaps ==
    ASSUME IInv, IInv', m_timer_mode = 1, NEW fd \in open, open' = open \ {fd},
           UNCHANGED <<m_timer_mode, users_timer>>
    PROVE  /\ WatchMap[fd] = users_timer[fd]
           /\ WatchMap' = [WatchMap EXCEPT ![fd] = NULL]
<1>1. \A other \in Fds : /\ WatchMap[other] = IF other \in open THEN users_timer[other] ELSE NULL
                         /\ WatchMap'[other] = IF other \in open' THEN users_timer'[other] ELSE NULL
  BY WatchMapBySet, NextBySet
<1>2. \A other \in Fds : WatchMap'[other] = IF other = fd THEN NULL ELSE WatchMap[other]
  BY <1>1
<1>3. WatchMap' = [WatchMap EXCEPT ![fd] = NULL]
  BY <1>2 DEF WatchMap
<1> QED
  BY <1>1, <1>3 DEF IInv, TypeOK

LEMMA DealMaps ==
    ASSUME IInv, IInv', NEW fd \in Fds, DealTimer(fd)
    PROVE  Queue!Remove(fd) \/ UNCHANGED Queue!vars
<1>1. /\ Idle /\ fd \in open /\ open' = open \ {fd}
      /\ UNCHANGED <<user_data, m_timer_mode, users_timer, due, expired>>
  BY DEF DealTimer
<1>2. CASE m_timer_mode = 0
  <2>1. DelTimer(fd) /\ UNCHANGED timer_set /\ size' = size
    BY <1>2 DEF DealTimer, DelTimer
  <2>2. ref_[fd] \in Places /\ size - 1 \in Places
    BY <1>1, <1>2, WhenIdle DEF Idle, Places
  <2>3. UNCHANGED WatchMap
    <3>1. CASE ref_[fd] < size - 1
      <4>1. SwapNode_(ref_[fd], size - 1) /\ m_timer_mode' = 0 /\ user_data' = user_data
        BY <1>1, <1>2, <2>1, <3>1 DEF DelTimer
      <4>2. ref_[fd] # size - 1
        BY <2>2, <3>1 DEF Places
      <4> QED
        BY <1>2, <2>1, <2>2, <4>1, <4>2, SwapKeepsWatch
    <3>2. CASE ~(ref_[fd] < size - 1)
      <4>1. UNCHANGED <<heap_, ref_>>
        BY <2>1, <3>2 DEF DelTimer
      <4> QED
        BY <1>1, <2>1, <4>1, SameWatch
    <3> QED
      BY <3>1, <3>2
  <2> QED
    BY <1>1, <2>3 DEF Queue!vars, WatchMap
<1>3. CASE m_timer_mode = 1
  BY <1>1, <1>3, SetCloseMaps DEF Queue!Remove, WatchMap
<1> QED
  BY <1>2, <1>3 DEF IInv, TypeOK

LEMMA EraseMaps ==
    ASSUME IInv, IInv', Erase, UNCHANGED Elsewhere
    PROVE  \E fd \in Fds : Queue!Remove(fd)
<1> DEFINE fd == user_data[heap_[size - 1]]
<1>1. /\ m_timer_mode = 0 /\ m_timer_mode' = 0 /\ UNCHANGED <<due, expired>>
      /\ size - 1 \in Places /\ fd \in Fds /\ ref_[fd] = size - 1
      /\ heap_' = [k \in 0 .. size - 2 |-> heap_[k]]
      /\ ref_' = [ref_ EXCEPT ![fd] = None]
  BY DEF Erase, Elsewhere, IInv, Owned, LoopOK, TypeOK, HeapTypeOK, RefInverse, Places
<1>2. \A other \in Fds \ {fd} : ref_[other] # None => ref_[other] \in 0 .. size - 2
  BY <1>1 DEF IInv, RefInverse, TypeOK, HeapTypeOK, Places
<1>3. \A other \in Fds : /\ WatchMap[other] = IF ref_[other] # None THEN heap_[ref_[other]] ELSE NULL
                         /\ WatchMap'[other] = IF ref_'[other] # None THEN heap_'[ref_'[other]] ELSE NULL
  BY <1>1, WatchMapByHeap, NextByHeap
<1>4. ref_ \in [Fds -> Places \cup {None}]
  BY DEF IInv, TypeOK, HeapTypeOK
<1>5. \A other \in Fds : WatchMap'[other] = IF other = fd THEN NULL ELSE WatchMap[other]
  BY <1>1, <1>2, <1>3, <1>4
<1>6. WatchMap' = [WatchMap EXCEPT ![fd] = NULL]
  BY <1>5 DEF WatchMap
<1> QED
  BY <1>1, <1>6 DEF Queue!Remove, WatchMap

LEMMA LoopMaps ==
    ASSUME IInv, IInv', HeapLoop, UNCHANGED Elsewhere
    PROVE  [Queue!Next]_Queue!vars
<1>1. UNCHANGED <<m_timer_mode, timer_set, due, expired>>
  BY DEF Elsewhere
<1>2. m_timer_mode = 0 /\ m_timer_mode' = 0
  BY <1>1 DEF HeapLoop, DownSwaps, DownStops, UpSwaps, UpStops, Erase, IInv, Owned, TypeOK
<1>3. CASE DownSwaps
  <2>1. Child \in Places /\ i \in Places /\ i # Child
    BY <1>3, ChildIs DEF DownSwaps, IInv, TypeOK, HeapTypeOK, Places
  <2>2. UNCHANGED WatchMap
    BY <1>2, <1>3, <2>1, SwapKeepsWatch DEF DownSwaps
  <2> QED
    BY <1>1, <2>2 DEF Queue!vars, WatchMap
<1>4. CASE UpSwaps
  <2>1. Parent(i) \in Places /\ i \in Places /\ i # Parent(i)
    BY <1>4, ParentIs DEF UpSwaps, IInv, TypeOK, HeapTypeOK, LoopOK, Live, Places
  <2>2. UNCHANGED WatchMap
    BY <1>2, <1>4, <2>1, SwapKeepsWatch DEF UpSwaps
  <2> QED
    BY <1>1, <2>2 DEF Queue!vars, WatchMap
<1>5. CASE DownStops \/ UpStops
  <2>1. UNCHANGED WatchMap
    BY <1>1, <1>5, SameWatch DEF DownStops, UpStops
  <2> QED
    BY <1>1, <2>1 DEF Queue!vars, WatchMap
<1>6. CASE Erase
  BY <1>6, EraseMaps DEF Queue!Next
<1> QED
  BY <1>3, <1>4, <1>5, <1>6 DEF HeapLoop

LEMMA ExpireMaps ==
    ASSUME IInv, IInv', NEW timer \in Timers, TickExpires(timer)
    PROVE  \E fd \in Fds : Queue!Expire(fd)
<1> DEFINE fd == user_data[timer]
<1>1. /\ timer \in timer_set /\ timer \in due /\ m_timer_mode = 1
      /\ open' = open \ {fd} /\ expired' = expired \cup {timer}
      /\ UNCHANGED <<m_timer_mode, users_timer, due>>
  BY DEF TickExpires, First, IInv, Owned, TypeOK
<1>2. fd \in open /\ fd \in Fds /\ users_timer[fd] = timer
  BY <1>1 DEF IInv, Owned, TypeOK
<1>3. WatchMap[fd] = timer /\ WatchMap' = [WatchMap EXCEPT ![fd] = NULL]
  BY <1>1, <1>2, SetCloseMaps
<1> QED
  BY <1>1, <1>2, <1>3 DEF Queue!Expire, WatchMap

(* Both containers do what TimerQueue promises (heap_timer.cpp:12-135,     *)
(* set_timer.cpp:7-43): each operation of the server, each turn of a loop, *)
(* is one of its steps or changes nothing it speaks of.                    *)
THEOREM Implements == Spec => KeepsPromise
<1>1. Init => Queue!Init
  BY DEF Init, HeapInit, Queue!Init, Watched
<1>2. ASSUME IInv, IInv', [Next]_vars PROVE [Queue!Next]_Queue!vars
  <2>1. ASSUME NEW fd \in Fds, NEW timer \in Timers, Timer(fd, timer)
        PROVE  Queue!Next
    BY <1>2, <2>1, AddMaps DEF Queue!Next
  <2>2. ASSUME NEW fd \in Fds, Adjust(fd) PROVE Queue!Next
    BY <1>2, <2>2, AdjustMaps DEF Queue!Next
  <2>3. ASSUME NEW fd \in Fds, DealTimer(fd) PROVE [Queue!Next]_Queue!vars
    BY <1>2, <2>3, DealMaps DEF Queue!Next
  <2>4. ASSUME HeapLoop, UNCHANGED Elsewhere PROVE [Queue!Next]_Queue!vars
    BY <1>2, <2>4, LoopMaps
  <2>5. ASSUME NEW timer \in Timers, TickExpires(timer) PROVE Queue!Next
    BY <1>2, <2>5, ExpireMaps DEF Queue!Next
  <2>6. ASSUME NEW timer \in Timers, Due(timer) PROVE Queue!Next
    <3>1. /\ due' = due \cup {timer} /\ UNCHANGED expired
          /\ UNCHANGED <<user_data, heap_, ref_, timer_set>>
      BY <2>6 DEF Due, heapVars
    <3>2. UNCHANGED WatchMap
      BY <3>1, SameWatch
    <3> QED
      BY <3>1, <3>2 DEF Queue!Next, Queue!Due, WatchMap
  <2>7. CASE Tick \/ TickStops \/ UNCHANGED vars
    <3>1. UNCHANGED <<user_data, heap_, ref_, timer_set, due, expired>>
      BY <2>7 DEF Tick, TickStops, vars, heapVars
    <3>2. UNCHANGED WatchMap
      BY <3>1, SameWatch
    <3> QED
      BY <3>1, <3>2 DEF Queue!vars, WatchMap
  <2> QED
    BY <1>2, <2>1, <2>2, <2>3, <2>4, <2>5, <2>6, <2>7 DEF Next, Elsewhere
<1> QED
  BY <1>1, <1>2, Invariance, PTL DEF Spec, KeepsPromise, Queue!Spec
=============================================================================
