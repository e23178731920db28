--------------------------- MODULE BlockQueueProofs ---------------------------
(***************************************************************************)
(* The ring buffer of BlockQueue is a bounded first-in, first-out queue,   *)
(* for every capacity, every set of threads and every set of items.        *)
(***************************************************************************)
EXTENDS BlockQueue, SequenceTheorems, TLAPS

(* The remainders that occur: of a number less than twice the modulus.     *)
LEMMA Wrap ==
    ASSUME NEW N \in Nat \ {0}, NEW x \in 0 .. 2 * N - 1
    PROVE  /\ x % N = IF x < N THEN x ELSE x - N
           /\ x % N \in 0 .. N - 1
  OBVIOUS

(* The same of the queue's capacity, for expressions of the state. *)
LEMMA ModIs ==
    \A x \in 0 .. 2 * m_max_size - 1 :
        x % m_max_size = IF x < m_max_size THEN x ELSE x - m_max_size
  <1>1. m_max_size \in Nat \ {0}
    BY QueueAssumption DEF QueueAssumption
  <1>2. ASSUME NEW N \in Nat \ {0}, NEW y \in 0 .. 2 * N - 1
        PROVE  y % N = IF y < N THEN y ELSE y - N
    BY Wrap
  <1> QED
    BY <1>1, <1>2

(* The slot of the i-th oldest item. *)
Slot(i) == (m_front + i) % m_max_size

LEMMA SlotIs ==
    ASSUME TypeOK, NEW i \in 1 .. m_max_size
    PROVE  /\ Slot(i) = IF m_front + i < m_max_size THEN m_front + i
                        ELSE m_front + i - m_max_size
           /\ Slot(i) \in Slots
  <1> m_max_size \in Nat \ {0}
    BY QueueAssumption DEF QueueAssumption
  <1> m_front \in -1 .. m_max_size - 1
    BY DEF TypeOK, Indices, Slots
  <1> m_front + i \in 0 .. 2 * m_max_size - 1
    OBVIOUS
  <1> QED
    BY ModIs DEF Slot, Slots

(* Items of different age are in different slots. *)
LEMMA SlotsDiffer ==
    ASSUME TypeOK, NEW i \in 1 .. m_max_size, NEW j \in 1 .. m_max_size,
           i # j
    PROVE  Slot(i) # Slot(j)
  <1> m_max_size \in Nat /\ m_front \in Int
    BY QueueAssumption DEF QueueAssumption, TypeOK, Indices, Slots
  <1> QED
    BY SlotIs

(* The slot push() fills is the one after the newest. *)
LEMMA NextBack ==
    ASSUME Inv, m_size < m_max_size
    PROVE  (m_back + 1) % m_max_size = Slot(m_size + 1)
  <1> m_max_size \in Nat \ {0}
    BY QueueAssumption DEF QueueAssumption
  <1> /\ m_size \in 0 .. m_max_size
      /\ m_front \in -1 .. m_max_size - 1
      /\ m_back \in -1 .. m_max_size - 1
    BY DEF Inv, TypeOK, Indices, Slots
  <1>1. CASE m_front = -1
    BY <1>1 DEF Inv, RingOK, Slot
  <1>2. CASE m_front # -1
    <2>1. PICK x \in 0 .. 2 * m_max_size - 1 : x = m_front + m_size
      BY <1>2
    <2>2. m_back = IF m_front + m_size < m_max_size THEN m_front + m_size
                   ELSE m_front + m_size - m_max_size
      <3>1. x % m_max_size = IF x < m_max_size THEN x ELSE x - m_max_size
        BY ModIs
      <3>2. m_back = x % m_max_size
        BY <1>2, <2>1 DEF Inv, RingOK
      <3> QED
        BY <2>1, <3>1, <3>2
    <2>3. (m_back + 1) % m_max_size
            = IF m_back + 1 < m_max_size THEN m_back + 1
              ELSE m_back + 1 - m_max_size
      <3>1. m_back + 1 \in 0 .. 2 * m_max_size - 1
        BY <1>2, <2>2
      <3> QED
        BY <3>1, ModIs
    <2>4. Slot(m_size + 1)
            = IF m_front + (m_size + 1) < m_max_size THEN m_front + (m_size + 1)
              ELSE m_front + (m_size + 1) - m_max_size
      BY SlotIs DEF Inv
    <2> QED
      BY <1>2, <2>2, <2>3, <2>4
  <1> QED
    BY <1>1, <1>2

(* m_back is the slot of the newest item, if there is one. *)
LEMMA NewestIs ==
    ASSUME Inv, m_size # 0
    PROVE  /\ m_back = Slot(m_size)
           /\ m_array[m_back] \in Items
  <1> /\ m_max_size \in Nat \ {0}
      /\ m_size \in 1 .. m_max_size
      /\ m_front \in -1 .. m_max_size - 1
    BY QueueAssumption DEF QueueAssumption, Inv, TypeOK, Indices, Slots
  <1>1. m_back = Slot(m_size)
    <2>1. CASE m_front = -1
      BY <2>1, SlotIs DEF Inv, RingOK
    <2>2. CASE m_front # -1
      BY <2>2 DEF Inv, RingOK, Slot
    <2> QED
      BY <2>1, <2>2
  <1>2. m_array[Slot(m_size)] \in Items
    <2>1. \A i \in 1 .. m_size : m_array[Slot(i)] \in Items
      BY DEF Inv, Slot
    <2> QED
      BY <2>1
  <1> QED
    BY <1>1, <1>2

(* After a pop the slots are those of the items one younger. *)
LEMMA NextFront ==
    ASSUME TypeOK, m_front' = (m_front + 1) % m_max_size,
           NEW i \in 1 .. m_max_size - 1
    PROVE  (m_front' + i) % m_max_size = Slot(i + 1)
  <1> m_max_size \in Nat \ {0}
    BY QueueAssumption DEF QueueAssumption
  <1> m_front \in -1 .. m_max_size - 1
    BY DEF TypeOK, Indices, Slots
  <1>1. m_front' = IF m_front + 1 < m_max_size THEN m_front + 1
                   ELSE m_front + 1 - m_max_size
    <2>1. m_front + 1 \in 0 .. 2 * m_max_size - 1
      OBVIOUS
    <2> QED
      BY <2>1, ModIs
  <1>2. PICK x \in 0 .. 2 * m_max_size - 1 : x = m_front' + i
    BY <1>1
  <1>3. (m_front' + i) % m_max_size
          = IF m_front' + i < m_max_size THEN m_front' + i
            ELSE m_front' + i - m_max_size
    <2>1. x % m_max_size = IF x < m_max_size THEN x ELSE x - m_max_size
      BY ModIs
    <2> QED
      BY <1>2, <2>1
  <1>4. Slot(i + 1) = IF m_front + (i + 1) < m_max_size THEN m_front + (i + 1)
                      ELSE m_front + (i + 1) - m_max_size
    BY SlotIs
  <1> QED
    BY <1>1, <1>3, <1>4
-----------------------------------------------------------------------------
(* No step leaves the types: the ends stay slots, the size in range. *)
LEMMA StepType ==
    ASSUME Inv, [Next]_vars
    PROVE  TypeOK'
  <1> m_max_size \in Nat \ {0} /\ TypeOK
    BY QueueAssumption DEF QueueAssumption, Inv
  <1>1. CASE UNCHANGED vars
    BY <1>1 DEF TypeOK, vars, ring
  <1>2. ASSUME NEW t \in Threads, NEW x \in Items, PushAccepted(t, x)
        PROVE  TypeOK'
    <2>1. m_back' \in Slots
      <3>1. m_back + 1 \in 0 .. 2 * m_max_size - 1
        BY DEF TypeOK, Indices, Slots
      <3> QED
        BY <1>2, <3>1, ModIs DEF PushAccepted, Slots
    <2>2. m_size' \in 0 .. m_max_size
      BY <1>2 DEF PushAccepted, TypeOK
    <2> QED
      BY <1>2, <2>1, <2>2 DEF PushAccepted, Locked, Return, Methods, TypeOK, Indices
  <1>3. ASSUME NEW t \in Threads, Pop(t)
        PROVE  TypeOK'
    <2>1. m_front' \in Slots
      <3>1. m_front + 1 \in 0 .. 2 * m_max_size - 1
        BY DEF TypeOK, Indices, Slots
      <3> QED
        BY <1>3, <3>1, ModIs DEF Pop, Slots
    <2>2. m_size' \in 0 .. m_max_size
      BY <1>3 DEF Pop, TypeOK
    <2> QED
      BY <1>3, <2>1, <2>2 DEF Pop, Locked, Return, Methods, TypeOK, Indices
  <1>4. ASSUME NEW t \in Threads, PushRefused(t) \/ Full(t) \/ Empty(t)
        PROVE  TypeOK'
    <2>1. CASE PushRefused(t)
      BY <2>1 DEF PushRefused, Locked, Return, Methods, TypeOK, ring
    <2>2. CASE Full(t)
      BY <2>2 DEF Full, Locked, Return, Methods, TypeOK, ring
    <2>3. CASE Empty(t)
      BY <2>3 DEF Empty, Locked, Return, Methods, TypeOK, ring
    <2> QED
      BY <1>4, <2>1, <2>2, <2>3
  <1>5. ASSUME NEW t \in Threads, PopHangs(t) \/ PopTimed(t)
        PROVE  TypeOK'
    BY <1>5 DEF PopHangs, PopTimed, Return, Methods, TypeOK, ring
  <1>6. ASSUME NEW t \in Threads, Front(t)
        PROVE  TypeOK'
    BY <1>6 DEF Front, Locked, Return, Methods, TypeOK, ring
  <1>7. ASSUME NEW t \in Threads, Back(t)
        PROVE  TypeOK'
    <2>1. m_size # 0 => m_array[m_back] \in Items
      BY NewestIs, SlotIs DEF Inv
    <2> QED
      BY <1>7, <2>1 DEF Back, Locked, Return, Methods, TypeOK, ring
  <1>8. CASE Clear
    BY <1>8 DEF Clear, Locked, TypeOK, Indices
  <1> QED
    BY <1>1, <1>2, <1>3, <1>4, <1>5, <1>6, <1>7, <1>8 DEF Next
-----------------------------------------------------------------------------
(* What each of the two ends does to the slots and to the contents. *)

(* A function on 1 .. n is a sequence. *)
LEMMA FunctionIsSeq ==
    ASSUME NEW S, NEW n \in Nat, NEW f \in [1 .. n -> S]
    PROVE  f \in Seq(S) /\ Len(f) = n
  OBVIOUS

(* The contents are a sequence of items, the i-th oldest in its slot. *)
LEMMA ContentsIs ==
    ASSUME Inv
    PROVE  /\ Contents \in Seq(Items)
           /\ Len(Contents) = m_size
           /\ \A i \in 1 .. m_size : Contents[i] = m_array[Slot(i)]
  <1>1. m_size \in Nat
    BY DEF Inv, TypeOK
  <1>2. \A i \in 1 .. m_size : m_array[Slot(i)] \in Items
    BY DEF Inv, Slot
  <1>3. Contents = [i \in 1 .. m_size |-> m_array[Slot(i)]]
    BY DEF Contents, Slot
  <1> QED
    BY <1>1, <1>2, <1>3

(* push() fills the slot after the newest and touches no other in use. *)
LEMMA PushSlots ==
    ASSUME Inv, NEW t \in Threads, NEW x \in Items, PushAccepted(t, x)
    PROVE  /\ m_back' = Slot(m_size + 1)
           /\ m_array'[Slot(m_size + 1)] = x
           /\ \A i \in 1 .. m_size : m_array'[Slot(i)] = m_array[Slot(i)]
           /\ \A i \in 1 .. m_max_size : Slot(i)' = Slot(i)
  <1>1. /\ TypeOK
        /\ m_size \in 0 .. m_max_size - 1
        /\ m_max_size \in Nat \ {0}
    BY QueueAssumption DEF QueueAssumption, Inv, TypeOK, PushAccepted
  <1>2. m_back' = Slot(m_size + 1)
    BY NextBack DEF PushAccepted
  <1>3. m_array' = [m_array EXCEPT ![Slot(m_size + 1)] = x]
    BY <1>2 DEF PushAccepted
  <1>4. Slot(m_size + 1) \in Slots
    BY <1>1, SlotIs
  <1>5. \A i \in 1 .. m_size : Slot(i) \in Slots /\ Slot(i) # Slot(m_size + 1)
    BY <1>1, SlotIs, SlotsDiffer
  <1>6. \A i \in 1 .. m_max_size : Slot(i)' = Slot(i)
    BY DEF PushAccepted, Slot
  <1>7. m_array \in [Slots -> Items \cup {NoItem}]
    BY <1>1 DEF TypeOK
  <1> QED
    BY <1>2, <1>3, <1>4, <1>5, <1>6, <1>7

(* pop() makes every item one older. *)
LEMMA PopSlots ==
    ASSUME Inv, NEW t \in Threads, Pop(t)
    PROVE  /\ m_front' = Slot(1)
           /\ m_size > 0
           /\ m_size' = m_size - 1
           /\ m_array' = m_array
           /\ \A i \in 1 .. m_size - 1 :
                 (m_front' + i) % m_max_size = Slot(i + 1)
  <1>1. /\ TypeOK
        /\ m_max_size \in Nat
        /\ m_size \in 1 .. m_max_size
    BY QueueAssumption DEF QueueAssumption, Inv, TypeOK, Pop
  <1>2. m_front' = (m_front + 1) % m_max_size
    BY DEF Pop
  <1>3. \A i \in 1 .. m_max_size - 1 : (m_front' + i) % m_max_size = Slot(i + 1)
    BY <1>1, <1>2, NextFront
  <1>4. \A i \in 1 .. m_size - 1 : (m_front' + i) % m_max_size = Slot(i + 1)
    BY <1>1, <1>3
  <1>5. m_front' = Slot(1)
    BY <1>2 DEF Slot
  <1> QED
    BY <1>4, <1>5 DEF Pop

(* push() appends its item. *)
LEMMA PushAppends ==
    ASSUME Inv, NEW t \in Threads, NEW x \in Items, PushAccepted(t, x)
    PROVE  Contents' = Append(Contents, x)
  <1>1. m_size \in Nat /\ m_size < m_max_size /\ m_max_size \in Nat
    BY QueueAssumption DEF QueueAssumption, Inv, TypeOK, PushAccepted
  <1>2. Contents' = [i \in 1 .. m_size + 1 |-> m_array'[Slot(i)]]
    <2>1. m_size' = m_size + 1 /\ m_front' = m_front
      BY DEF PushAccepted
    <2> QED
      BY <2>1 DEF Contents, Slot
  <1>3. \A i \in 1 .. m_size + 1 :
           m_array'[Slot(i)] = IF i = m_size + 1 THEN x ELSE Contents[i]
    BY <1>1, PushSlots, ContentsIs
  <1>4. Contents' \in [1 .. m_size + 1 -> Items]
    <2>1. \A i \in 1 .. m_size + 1 : m_array'[Slot(i)] \in Items
      BY <1>1, <1>3, ContentsIs, ElementOfSeq
    <2> QED
      BY <1>2, <2>1
  <1>5. Contents' \in Seq(Items) /\ Len(Contents') = m_size + 1
    BY <1>1, <1>4, FunctionIsSeq
  <1>6. /\ Append(Contents, x) \in Seq(Items)
        /\ Len(Append(Contents, x)) = m_size + 1
        /\ \A i \in 1 .. m_size : Append(Contents, x)[i] = Contents[i]
        /\ Append(Contents, x)[m_size + 1] = x
    BY ContentsIs, AppendProperties
  <1>7. \A i \in 1 .. m_size + 1 : Contents'[i] = Append(Contents, x)[i]
    BY <1>1, <1>2, <1>3, <1>6
  <1> QED
    BY <1>5, <1>6, <1>7, SeqEqual

(* pop() takes the oldest. *)
LEMMA PopTakesHead ==
    ASSUME Inv, NEW t \in Threads, Pop(t)
    PROVE  /\ Contents # <<>>
           /\ item' = [item EXCEPT ![t] = Head(Contents)]
           /\ Contents' = Tail(Contents)
  <1>1. m_size \in Nat /\ m_size > 0
    BY DEF Inv, TypeOK, Pop
  <1>2. Contents # <<>> /\ Head(Contents) = m_array[Slot(1)]
    BY <1>1, ContentsIs
  <1>3. item' = [item EXCEPT ![t] = m_array[Slot(1)]]
    BY PopSlots DEF Pop
  <1>4. Contents' = [i \in 1 .. m_size - 1 |-> m_array[Slot(i + 1)]]
    <2>1. Contents'
            = [i \in 1 .. m_size' |-> m_array'[(m_front' + i) % m_max_size]]
      BY DEF Contents
    <2> QED
      BY <2>1, PopSlots
  <1>5. \A i \in 1 .. m_size - 1 :
           /\ Contents'[i] = Contents[i + 1]
           /\ Contents'[i] \in Items
    BY <1>1, <1>4, ContentsIs, ElementOfSeq
  <1>6. Contents' \in Seq(Items) /\ Len(Contents') = m_size - 1
    <2>1. m_size - 1 \in Nat /\ Contents' \in [1 .. m_size - 1 -> Items]
      BY <1>1, <1>4, <1>5
    <2> QED
      BY <2>1, FunctionIsSeq
  <1>7. /\ Tail(Contents) \in Seq(Items)
        /\ Len(Tail(Contents)) = m_size - 1
        /\ \A i \in 1 .. m_size - 1 : Tail(Contents)[i] = Contents[i + 1]
    BY <1>2, ContentsIs, HeadTailProperties
  <1>8. Contents' = Tail(Contents)
    BY <1>5, <1>6, <1>7, SeqEqual
  <1> QED
    BY <1>2, <1>3, <1>8
-----------------------------------------------------------------------------
(* The inductive invariant. *)

(* Every item between the ends was pushed. *)
Pushed == \A i \in 1 .. m_size : m_array[Slot(i)] \in Items

(* The parts of Inv. *)
LEMMA InvParts == Inv <=> TypeOK /\ RingOK /\ Pushed
  BY DEF Inv, Pushed, Slot

(* The invariant holds at first. *)
LEMMA InitInv == Init => Inv
  <1> SUFFICES ASSUME Init PROVE Inv
    OBVIOUS
  <1> m_max_size \in Nat \ {0}
    BY QueueAssumption DEF QueueAssumption
  <1>1. TypeOK
    BY DEF Init, TypeOK, Methods, Slots, Indices
  <1>2. RingOK /\ m_size = 0
    BY DEF Init, RingOK
  <1> QED
    BY <1>1, <1>2 DEF Inv

(* push() keeps the numbers in agreement. *)
LEMMA PushInv ==
    ASSUME Inv, NEW t \in Threads, NEW x \in Items, PushAccepted(t, x)
    PROVE  RingOK' /\ Pushed'
  <1>1. /\ TypeOK
        /\ m_max_size \in Nat
        /\ m_size \in 0 .. m_max_size - 1
        /\ m_front' = m_front
        /\ m_size' = m_size + 1
    BY QueueAssumption DEF QueueAssumption, Inv, TypeOK, PushAccepted
  <1>2. RingOK'
    <2>1. CASE m_front = -1
      BY <1>1, <2>1, PushSlots, SlotIs DEF RingOK
    <2>2. CASE m_front # -1
      BY <1>1, <2>2, PushSlots DEF RingOK, Slot
    <2> QED
      BY <2>1, <2>2
  <1>3. \A i \in 1 .. m_size + 1 : m_array'[Slot(i)] \in Items
    BY <1>1, PushSlots, InvParts DEF Pushed
  <1>4. \A i \in 1 .. m_size + 1 : Slot(i)' = Slot(i)
    BY <1>1, PushSlots
  <1> QED
    BY <1>1, <1>2, <1>3, <1>4 DEF Pushed

(* So does pop(). *)
LEMMA PopInv ==
    ASSUME Inv, NEW t \in Threads, Pop(t)
    PROVE  RingOK' /\ Pushed'
  <1>1. /\ TypeOK
        /\ m_max_size \in Nat \ {0}
        /\ m_size \in 1 .. m_max_size
        /\ m_back' = m_back
        /\ m_size' = m_size - 1
    BY QueueAssumption DEF QueueAssumption, Inv, TypeOK, Pop
  <1>2. m_front' \in Slots
    BY <1>1, PopSlots, SlotIs
  <1>3. m_back = Slot(m_size)
    BY <1>1, NewestIs
  <1>4. (m_front' + m_size') % m_max_size = m_back
    <2>1. CASE m_size = 1
      <3>1. m_front' = m_back /\ m_front' \in 0 .. m_max_size - 1
        BY <1>2, <1>3, <2>1, PopSlots DEF Slots
      <3>2. PICK y \in 0 .. m_max_size - 1 : y = m_front'
        BY <3>1
      <3>3. y % m_max_size = y
        BY <1>1, ModIs
      <3>4. m_front' + m_size' = y
        <4>1. m_size' = 0
          BY <1>1, <2>1
        <4>2. y + 0 = y
          BY <1>1
        <4>3. m_front' + m_size' = y + 0
          BY <3>2, <4>1, Zenon
        <4> QED
          BY <4>2, <4>3, Zenon
      <3> QED
        BY <3>1, <3>2, <3>3, <3>4
    <2>2. CASE m_size # 1
      <3>1. PICK k \in 1 .. m_size - 1 : k = m_size - 1
        BY <1>1, <2>2
      <3>2. (m_front' + k) % m_max_size = Slot(k + 1)
        BY PopSlots
      <3> QED
        BY <1>1, <1>3, <3>1, <3>2
    <2> QED
      BY <2>1, <2>2
  <1>5. RingOK'
    BY <1>1, <1>2, <1>4 DEF RingOK, Slots
  <1>6. Pushed'
    <2>1. \A i \in 1 .. m_size - 1 : m_array[Slot(i + 1)] \in Items
      BY <1>1, InvParts DEF Pushed
    <2>2. \A i \in 1 .. m_size' :
             m_array'[(m_front' + i) % m_max_size] \in Items
      BY <2>1, PopSlots
    <2> QED
      BY <2>2 DEF Pushed, Slot
  <1> QED
    BY <1>5, <1>6

(* Every step keeps the invariant. *)
LEMMA StepInv == Inv /\ [Next]_vars => Inv'
  <1> SUFFICES ASSUME Inv, [Next]_vars PROVE Inv'
    OBVIOUS
  <1>0. TypeOK'
    BY StepType
  <1>1. ASSUME NEW t \in Threads, NEW x \in Items, PushAccepted(t, x)
        PROVE  RingOK' /\ Pushed'
    BY <1>1, PushInv
  <1>2. ASSUME NEW t \in Threads, Pop(t)
        PROVE  RingOK' /\ Pushed'
    BY <1>2, PopInv
  <1>3. ASSUME Clear
        PROVE  RingOK' /\ Pushed'
    <2>1. m_front' = -1 /\ m_back' = -1 /\ m_size' = 0
      BY <1>3 DEF Clear
    <2> QED
      BY <2>1 DEF RingOK, Pushed
  <1>4. ASSUME UNCHANGED ring
        PROVE  RingOK' /\ Pushed'
    <2>1. /\ m_front' = m_front /\ m_back' = m_back
          /\ m_size' = m_size /\ m_array' = m_array
      BY <1>4 DEF ring
    <2>2. RingOK'
      BY <2>1, InvParts DEF RingOK
    <2>3. Pushed'
      BY <2>1, InvParts DEF Pushed, Slot
    <2> QED
      BY <2>2, <2>3
  <1>5. \/ UNCHANGED ring
        \/ Clear
        \/ \E t \in Threads : Pop(t) \/ \E x \in Items : PushAccepted(t, x)
    BY DEF Next, vars, ring, PushRefused, PopHangs, PopTimed, Full, Empty,
           Front, Back
  <1>6. RingOK' /\ Pushed'
    BY <1>1, <1>2, <1>3, <1>4, <1>5
  <1> QED
    BY <1>0, <1>6 DEF Inv, Pushed, Slot

(* The numbers of the ring agree and what lies between them was pushed, at *)
(* every step of any number of threads (block_queue.h:143-176).            *)
THEOREM QueueInvIsInvariant == Spec => []Inv
  <1> QED
    BY InitInv, StepInv, PTL DEF Spec

(* The ends of the ring stay inside the array and the count within the     *)
(* capacity (block_queue.h:143-176).                                       *)
THEOREM QueueTypeCorrect == Spec => []TypeOK
  <1>1. Inv => TypeOK
    BY DEF Inv
  <1> QED
    BY <1>1, QueueInvIsInvariant, PTL
-----------------------------------------------------------------------------
(* The promise. *)

(* An empty ring is an empty queue. *)
LEMMA InitPromise == Init => Promise!Init
  <1> SUFFICES ASSUME Init PROVE Promise!Init
    OBVIOUS
  <1>1. Contents = <<>>
    BY DEF Init, Contents
  <1> QED
    BY <1>1 DEF Init, Promise!Init

(* Whatever leaves the ring alone leaves its contents alone. *)
LEMMA SameContents ==
    ASSUME UNCHANGED ring
    PROVE  Contents' = Contents
  BY DEF ring, Contents

(* Every step is a step of the promise or a stutter. *)
LEMMA StepPromise == Inv /\ [Next]_vars => [Promise!Next]_(Promise!vars)
  <1> SUFFICES ASSUME Inv, [Next]_vars
               PROVE  Promise!Next \/ UNCHANGED Promise!vars
    OBVIOUS
  <1>0. /\ Len(Contents) = m_size
        /\ Contents = <<>> <=> m_size = 0
        /\ m_size \in 0 .. m_max_size
        /\ m_max_size \in Nat
    BY ContentsIs, EmptySeq, QueueAssumption DEF QueueAssumption, Inv, TypeOK
  <1>1. CASE UNCHANGED vars
    BY <1>1, SameContents DEF vars, ring, Promise!vars
  <1>2. ASSUME NEW t \in Threads, NEW x \in Items, PushAccepted(t, x)
        PROVE  Promise!Accept(t, x)
    BY <1>0, <1>2, PushAppends
       DEF PushAccepted, Return, Promise!Accept, Promise!Answer
  <1>3. ASSUME NEW t \in Threads, PushRefused(t)
        PROVE  Promise!Refuse(t)
    BY <1>0, <1>3, SameContents
       DEF PushRefused, Return, Promise!Refuse, Promise!Answer
  <1>4. ASSUME NEW t \in Threads, Pop(t)
        PROVE  Promise!Take(t)
    BY <1>4, PopTakesHead DEF Pop, Return, Promise!Take, Promise!Answer
  <1>5. ASSUME NEW t \in Threads, Full(t)
        PROVE  Promise!AskFull(t)
    <2>1. m_size >= m_max_size <=> Len(Contents) = m_max_size
      BY <1>0
    <2>2. (m_size >= m_max_size) = (Len(Contents) = m_max_size)
      BY <2>1
    <2> QED
      BY <1>5, <2>2, SameContents
         DEF Full, Return, Promise!AskFull, Promise!Answer
  <1>6. ASSUME NEW t \in Threads, Empty(t)
        PROVE  Promise!AskEmpty(t)
    <2>1. (m_size = 0) = (Contents = <<>>)
      BY <1>0
    <2> QED
      BY <1>6, <2>1, SameContents
         DEF Empty, Return, Promise!AskEmpty, Promise!Answer
  <1>7. ASSUME NEW t \in Threads, Front(t) \/ Back(t)
        PROVE  Promise!Peek(t)
    <2>1. (m_size # 0) = (Contents # <<>>)
      BY <1>0
    <2> QED
      BY <1>7, <2>1, SameContents
         DEF Front, Back, Return, Promise!Peek, Promise!Answer
  <1>8. ASSUME NEW t \in Threads, PopHangs(t)
        PROVE  UNCHANGED Promise!vars
    BY <1>8, SameContents DEF PopHangs, Promise!vars
  <1>9. ASSUME NEW t \in Threads, PopTimed(t)
        PROVE  Promise!TimedPop(t) \/ UNCHANGED Promise!vars
    <2>1. Contents' = Contents /\ item' = item
      BY <1>9, SameContents DEF PopTimed
    <2> QED
      BY <1>9, <2>1
         DEF PopTimed, Return, Promise!TimedPop, Promise!Answer, Promise!vars
  <1>10. ASSUME Clear
         PROVE  Promise!Clear
    <2>1. Contents' = <<>>
      BY <1>10 DEF Clear, Contents
    <2> QED
      BY <1>10, <2>1 DEF Clear, Promise!Clear
  <1> QED
    <2>1. CASE Next
      BY <2>1, <1>2, <1>3, <1>4, <1>5, <1>6, <1>7, <1>8, <1>9, <1>10
         DEF Next, Promise!Next
    <2> QED
      BY <1>1, <2>1

(* The ring is a bounded first-in, first-out queue (block_queue.h:61-176). *)
THEOREM QueueKeepsPromise == Spec => KeepsPromise
  <1>1. Spec => []Inv
    BY QueueInvIsInvariant
  <1> QED
    BY <1>1, InitPromise, StepPromise, PTL DEF Spec, KeepsPromise, Promise!Spec

(* back() returns the newest item (block_queue.h:105-114).                 *)
THEOREM BackReturnsNewest == Spec => BackIsNewest
  <1>1. Inv /\ [Next]_vars =>
            [\A t \in Threads :
                Back(t) /\ ok'[t].is => value'[t] = Contents[Len(Contents)]]_vars
    <2> SUFFICES ASSUME Inv, NEW t \in Threads, Back(t), ok'[t].is
                 PROVE  value'[t] = Contents[Len(Contents)]
      OBVIOUS
    <2>1. /\ ok' = [ok EXCEPT ![t] = [of |-> "back", is |-> m_size # 0]]
          /\ ok \in [Threads -> [of : Methods, is : BOOLEAN]]
      BY DEF Back, Return, Inv, TypeOK
    <2>2. m_size # 0
      BY <2>1
    <2>3. value' = [value EXCEPT ![t] = m_array[m_back]]
      BY <2>2 DEF Back
    <2>4. value'[t] = m_array[m_back]
      BY <2>3 DEF Inv, TypeOK
    <2>5. Len(Contents) = m_size /\ m_size \in 1 .. m_size
      BY <2>2, ContentsIs DEF Inv, TypeOK
    <2> QED
      BY <2>2, <2>4, <2>5, NewestIs, ContentsIs
  <1>2. Spec => []Inv
    BY QueueInvIsInvariant
  <1> QED
    BY <1>1, <1>2, PTL DEF Spec, BackIsNewest
=============================================================================
