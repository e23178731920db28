------------------------------- MODULE LogProofs -------------------------------
(***************************************************************************)
(* Theorems about Log, for every number of writers, of lines and of days,  *)
(* and every size of the queue and of the files: a synchronous log loses   *)
(* no line, an asynchronous one hangs only with its queue empty, and no    *)
(* rotation, full queue or flush loses a line or writes it twice.  What    *)
(* the log knows of its queue is what BlockQueueProofs proves of that.     *)
(***************************************************************************)
EXTENDS Log, FiniteSetTheorems, SequenceTheorems, TLAPS

AnyLine == [by : Writers, n : Nat]
AnyFile == [day : Nat, part : Nat]

(* The part of TypeOK the arguments need. *)
Typed ==
    /\ day \in Nat
    /\ m_count \in Nat
    /\ m_fp \in AnyFile
    /\ pc \in [Thread -> LogPC]
    /\ lines \in [Writers -> Nat]
    /\ my_tm \in [Writers -> Nat]
    /\ m_size \in Nat
    /\ ~m_is_async => buffer \in Seq(AnyLine) /\ disk \in Seq([file : AnyFile, line : AnyLine])

OnDisk(x) == \E i \in 1 .. Len(disk) : disk[i].line = x
InBuffer(x) == \E i \in 1 .. Len(buffer) : buffer[i] = x

(* In synchronous mode nothing goes by the queue, and a line whose writer  *)
(* is about to flush is in the buffer or already in a file.                *)
Synchronous ==
    ~m_is_async =>
        /\ pc[Flusher] = "pop"
        /\ \A t \in Writers :
              /\ pc[t] # "push"
              /\ pc[t] = "flush" => OnDisk(Present(t)) \/ InBuffer(Present(t))

IInv == Typed /\ Synchronous /\ OnDiskOnReturn /\ HangsEmpty
-----------------------------------------------------------------------------
(* Whatever empties the buffer puts what was in it on the disk. *)
LEMMA FlushedIs ==
    ASSUME Typed, ~m_is_async, disk' = Flushed, buffer' = <<>>
    PROVE  /\ disk' \in Seq([file : AnyFile, line : AnyLine])
           /\ buffer' \in Seq(AnyLine)
           /\ \A x : OnDisk(x) \/ InBuffer(x) => OnDisk(x)'
<1> DEFINE new == [i \in 1 .. Len(buffer) |-> [file |-> m_fp, line |-> buffer[i]]]
<1>1. buffer \in Seq(AnyLine) /\ disk \in Seq([file : AnyFile, line : AnyLine])
      /\ m_fp \in AnyFile /\ Len(buffer) \in Nat /\ Len(disk) \in Nat
  BY DEF Typed
<1>2. new \in Seq([file : AnyFile, line : AnyLine]) /\ Len(new) = Len(buffer)
  <2>1. \A i \in 1 .. Len(buffer) : buffer[i] \in AnyLine
    BY <1>1
  <2> QED
    BY <1>1, <2>1
<1>3. disk' = disk \o new
  BY DEF Flushed
<1>4. disk' \in Seq([file : AnyFile, line : AnyLine]) /\ Len(disk') = Len(disk) + Len(buffer)
  BY <1>1, <1>2, <1>3
<1>5. ASSUME NEW x, OnDisk(x) PROVE OnDisk(x)'
  <2>1. PICK i \in 1 .. Len(disk) : disk[i].line = x
    BY <1>5 DEF OnDisk
  <2>2. disk'[i] = disk[i] /\ i \in 1 .. Len(disk')
    BY <1>1, <1>2, <1>3, <1>4
  <2> QED
    BY <2>1, <2>2 DEF OnDisk
<1>6. ASSUME NEW x, InBuffer(x) PROVE OnDisk(x)'
  <2>1. PICK i \in 1 .. Len(buffer) : buffer[i] = x
    BY <1>6 DEF InBuffer
  <2>2. Len(disk) + i \in 1 .. Len(disk')
    BY <1>1, <1>4
  <2>3. disk'[Len(disk) + i] = new[i]
    <3>1. Len(disk) + i \in Len(disk) + 1 .. Len(disk) + Len(new)
      BY <1>1, <1>2
    <3>2. (Len(disk) + i) - Len(disk) = i
      BY <1>1
    <3> QED
      BY <1>1, <1>2, <1>3, <3>1, <3>2
  <2>4. new[i].line = x
    BY <2>1
  <2> QED
    BY <2>2, <2>3, <2>4 DEF OnDisk
<1>7. buffer' \in Seq(AnyLine)
  OBVIOUS
<1> QED
  BY <1>4, <1>5, <1>6, <1>7

(* fputs adds a line to the buffer. *)
LEMMA FputsIs ==
    ASSUME Typed, ~m_is_async, NEW y \in AnyLine, Fputs(y)
    PROVE  /\ buffer' \in Seq(AnyLine) /\ disk' = disk
           /\ \A x : OnDisk(x) => OnDisk(x)'
           /\ \A x : InBuffer(x) => InBuffer(x)'
           /\ InBuffer(y)'
<1>1. buffer \in Seq(AnyLine) /\ buffer' = Append(buffer, y) /\ disk' = disk
  BY DEF Typed, Fputs
<1>2. /\ buffer' \in Seq(AnyLine) /\ Len(buffer') = Len(buffer) + 1 /\ Len(buffer) \in Nat
      /\ \A i \in 1 .. Len(buffer) : buffer'[i] = buffer[i]
      /\ buffer'[Len(buffer) + 1] = y
  BY <1>1
<1>3. \A i \in 1 .. Len(buffer) : i \in 1 .. Len(buffer')
  BY <1>2
<1>4. Len(buffer) + 1 \in 1 .. Len(buffer')
  BY <1>2
<1> QED
  BY <1>1, <1>2, <1>3, <1>4 DEF OnDisk, InBuffer
-----------------------------------------------------------------------------
LEMMA Apart == Flusher \notin Writers /\ Thread = Writers \cup {Flusher} /\ Nobody # Flusher
  BY LogAssumption DEF LogAssumption, Thread

LEMMA InitInv == Init => IInv
<1> SUFFICES ASSUME Init PROVE IInv
  OBVIOUS
<1>1. Typed
  BY Apart DEF Init, Typed, AnyFile, LogPC, Q!Init
<1>2. Synchronous /\ OnDiskOnReturn
  BY Apart DEF Init, Synchronous, OnDiskOnReturn
<1>3. HangsEmpty
  BY DEF Init, Q!Init, HangsEmpty
<1> QED
  BY <1>1, <1>2, <1>3 DEF IInv

(* What a step of writer t owes: it leaves the others' lines alone, and    *)
(* its own is where its new place in the code says.                        *)
LEMMA WriterKeeps ==
    ASSUME IInv, Typed', NEW t \in Writers, NEW q, pc' = [pc EXCEPT ![t] = q],
           UNCHANGED m_is_async, q # "push" \/ m_is_async,
           \A u \in Writers \ {t} : lines'[u] = lines[u],
           ~m_is_async => /\ \A x : OnDisk(x) => OnDisk(x)'
                          /\ \A x : InBuffer(x) => OnDisk(x)' \/ InBuffer(x)'
                          /\ q = "flush" => OnDisk(Present(t))' \/ InBuffer(Present(t))'
                          /\ q = "idle" => OnDisk(Present(t))'
    PROVE  Synchronous' /\ OnDiskOnReturn'
<1>1. pc \in [Thread -> LogPC] /\ lines \in [Writers -> Nat] /\ lines' \in [Writers -> Nat]
  BY DEF IInv, Typed
<1>2. pc'[t] = q /\ \A u \in Thread \ {t} : pc'[u] = pc[u]
  BY <1>1, Apart
<1>3. \A u \in Writers \ {t} : Present(u)' = Present(u)
  BY DEF Present
<1>4. CASE ~m_is_async
  <2>1. \A u \in Writers \ {t} :
           /\ pc[u] # "push"
           /\ pc[u] = "flush" => OnDisk(Present(u)) \/ InBuffer(Present(u))
           /\ pc[u] = "idle" /\ lines[u] > 0 => OnDisk(Present(u))
    BY <1>4 DEF IInv, Synchronous, OnDiskOnReturn, OnDisk
  <2>2. ASSUME NEW u \in Writers
        PROVE  /\ pc'[u] # "push"
               /\ pc'[u] = "flush" => OnDisk(Present(u))' \/ InBuffer(Present(u))'
               /\ pc'[u] = "idle" /\ lines'[u] > 0 => OnDisk(Present(u))'
    <3>1. CASE u = t
      BY <1>2, <1>4, <3>1
    <3>2. CASE u # t
      <4>1. /\ Present(u)' = Present(u) /\ pc'[u] = pc[u] /\ lines'[u] = lines[u]
            /\ u \in Writers \ {t}
        BY <1>2, <1>3, <3>2, Apart
      <4>2. OnDisk(Present(u)) => OnDisk(Present(u))'
        BY <1>4, <4>1 DEF OnDisk
      <4>3. InBuffer(Present(u)) => OnDisk(Present(u))' \/ InBuffer(Present(u))'
        BY <1>4, <4>1 DEF OnDisk, InBuffer
      <4> QED
        BY <2>1, <4>1, <4>2, <4>3
    <3> QED
      BY <3>1, <3>2
  <2>3. pc'[Flusher] = "pop"
    BY <1>2, <1>4, Apart DEF IInv, Synchronous
  <2> QED
    BY <1>4, <2>2, <2>3 DEF Synchronous, OnDiskOnReturn, OnDisk
<1>5. CASE m_is_async
  BY <1>5 DEF Synchronous, OnDiskOnReturn
<1> QED
  BY <1>4, <1>5

(* Files that a step leaves alone or flushes keep every line. *)
LEMMA FilesKeep ==
    ASSUME IInv, UNCHANGED m_is_async,
           \/ UNCHANGED <<buffer, disk>>
           \/ disk' = Flushed /\ buffer' = <<>>
    PROVE  ~m_is_async => /\ buffer' \in Seq(AnyLine)
                          /\ disk' \in Seq([file : AnyFile, line : AnyLine])
                          /\ \A x : OnDisk(x) => OnDisk(x)'
                          /\ \A x : InBuffer(x) => OnDisk(x)' \/ InBuffer(x)'
<1>1. CASE UNCHANGED <<buffer, disk>>
  BY <1>1 DEF IInv, Typed, OnDisk, InBuffer
<1>2. CASE disk' = Flushed /\ buffer' = <<>>
  BY <1>2, FlushedIs DEF IInv
<1> QED
  BY <1>1, <1>2

LEMMA PresentIs ==
    ASSUME Typed, NEW t \in Writers PROVE Present(t) \in AnyLine
  BY DEF Typed, Present, AnyLine

(* A writer's step at the queue or the files, as to who holds the mutex. *)
LEMMA HangsKept ==
    ASSUME IInv, NEW t \in Writers, NEW q, pc' = [pc EXCEPT ![t] = q],
           UNCHANGED <<m_locker, m_size>> \/ (m_locker' = Nobody)
    PROVE  HangsEmpty'
<1>1. pc'[Flusher] = pc[Flusher]
  BY Apart DEF IInv, Typed
<1> QED
  BY <1>1 DEF IInv, HangsEmpty

LEMMA ReadClockKeeps ==
    ASSUME IInv, NEW t \in Writers, ReadClock(t) PROVE IInv'
<1>1. /\ lines' = [lines EXCEPT ![t] = @ + 1] /\ my_tm' = [my_tm EXCEPT ![t] = day]
      /\ pc' = [pc EXCEPT ![t] = "count"]
      /\ UNCHANGED <<day, m_is_async, m_count, m_fp, buffer, disk, m_locker, m_size>>
  BY DEF ReadClock, Goto, files, queue
<1>2. Typed'
  BY <1>1, Apart DEF IInv, Typed, LogPC
<1>3. Synchronous' /\ OnDiskOnReturn'
  <2>1. \A u \in Writers \ {t} : lines'[u] = lines[u]
    BY <1>1 DEF IInv, Typed
  <2> QED
    BY <1>1, <1>2, <2>1, FilesKeep, WriterKeeps
<1> QED
  BY <1>1, <1>2, <1>3, HangsKept DEF IInv

LEMMA CountKeeps ==
    ASSUME IInv, NEW t \in Writers, Count(t) PROVE IInv'
<1>1. /\ pc' = [pc EXCEPT ![t] = "choose"]
      /\ CountNewDay(my_tm[t]) \/ CountSplit(my_tm[t]) \/ CountOnly(my_tm[t])
      /\ UNCHANGED <<day, m_is_async, lines, my_tm, m_locker, m_size>>
  BY DEF Count, Goto, queue
<1>2. UNCHANGED <<buffer, disk>> \/ (disk' = Flushed /\ buffer' = <<>>)
  BY <1>1 DEF CountNewDay, CountSplit, CountOnly, Reopen
<1>3. m_count' \in Nat /\ m_fp' \in AnyFile
  <2>1. /\ my_tm[t] \in Nat /\ m_count \in Nat /\ m_fp \in AnyFile
        /\ m_split_lines \in Nat \ {0}
    BY LogAssumption DEF LogAssumption, IInv, Typed
  <2>2. (m_count + 1) \div m_split_lines \in Nat
    BY <2>1
  <2> QED
    BY <1>1, <2>1, <2>2 DEF CountNewDay, CountSplit, CountOnly, Reopen, AnyFile
<1>4. Typed'
  BY <1>1, <1>2, <1>3, FilesKeep DEF IInv, Typed, LogPC
<1>5. Synchronous' /\ OnDiskOnReturn'
  BY <1>1, <1>2, <1>4, FilesKeep, WriterKeeps
<1> QED
  BY <1>1, <1>4, <1>5, HangsKept DEF IInv

LEMMA ChooseKeeps ==
    ASSUME IInv, NEW t \in Writers, Choose(t) PROVE IInv'
<1>1. PICK q \in {"fputs", "push"} :
         /\ pc' = [pc EXCEPT ![t] = q]
         /\ q = "push" => m_is_async
         /\ UNCHANGED <<m_locker, m_size>>
  <2>1. CASE ~m_is_async
    BY <2>1 DEF Choose, Goto, queue
  <2>2. CASE m_is_async
    BY <2>2 DEF Choose, Goto, Q!Full, Q!Locked, Q!ring
  <2> QED
    BY <2>1, <2>2
<1>2. UNCHANGED <<day, m_is_async, m_count, m_fp, buffer, disk, lines, my_tm>>
  BY DEF Choose, files
<1>3. Typed'
  BY <1>1, <1>2 DEF IInv, Typed, LogPC
<1>4. Synchronous' /\ OnDiskOnReturn'
  BY <1>1, <1>2, <1>3, FilesKeep, WriterKeeps
<1> QED
  BY <1>1, <1>3, <1>4, HangsKept DEF IInv

LEMMA PushKeeps ==
    ASSUME IInv, NEW t \in Writers, Push(t) PROVE IInv'
<1>1. /\ pc' = [pc EXCEPT ![t] = "flush"] /\ m_locker' = Nobody
      /\ m_size' \in {m_size, m_size + 1}
      /\ UNCHANGED <<day, m_is_async, m_count, m_fp, buffer, disk, lines, my_tm>>
      /\ m_is_async
  BY DEF Push, Goto, files, Q!PushAccepted, Q!PushRefused, Q!Locked, Q!ring, IInv, Synchronous
<1>2. Typed'
  BY <1>1, Apart DEF IInv, Typed, LogPC
<1>3. Synchronous' /\ OnDiskOnReturn'
  BY <1>1 DEF Synchronous, OnDiskOnReturn
<1> QED
  BY <1>1, <1>2, <1>3, HangsKept DEF IInv

LEMMA WriteItselfKeeps ==
    ASSUME IInv, NEW t \in Writers, WriteItself(t) PROVE IInv'
<1>1. /\ Fputs(Present(t)) /\ pc' = [pc EXCEPT ![t] = "flush"]
      /\ UNCHANGED <<day, m_is_async, m_count, m_fp, disk, lines, my_tm, m_locker, m_size>>
  BY DEF WriteItself, Goto, Fputs, queue
<1>2. Present(t) \in AnyLine /\ Present(t)' = Present(t)
  BY <1>1, PresentIs DEF IInv, Present
<1>3. ~m_is_async => /\ buffer' \in Seq(AnyLine)
                     /\ \A x : OnDisk(x) => OnDisk(x)'
                     /\ \A x : InBuffer(x) => InBuffer(x)'
                     /\ InBuffer(Present(t))'
  <2>1. SUFFICES ASSUME ~m_is_async
                 PROVE  /\ buffer' \in Seq(AnyLine)
                        /\ \A x : OnDisk(x) => OnDisk(x)'
                        /\ \A x : InBuffer(x) => InBuffer(x)'
                        /\ InBuffer(Present(t))'
    OBVIOUS
  <2>2. \E i \in 1 .. Len(buffer') : buffer'[i] = Present(t)
    BY <1>1, <1>2, <2>1, FputsIs DEF IInv, InBuffer
  <2> QED
    BY <1>1, <1>2, <2>1, <2>2, FputsIs DEF IInv, InBuffer
<1>4. Typed'
  BY <1>1, <1>3 DEF IInv, Typed, LogPC
<1>5. Synchronous' /\ OnDiskOnReturn'
  BY <1>1, <1>3, <1>4, WriterKeeps
<1> QED
  BY <1>1, <1>4, <1>5, HangsKept DEF IInv

LEMMA FlushKeeps ==
    ASSUME IInv, NEW t \in Writers, Flush(t) PROVE IInv'
<1>1. /\ pc[t] = "flush" /\ pc' = [pc EXCEPT ![t] = "idle"]
      /\ disk' = Flushed /\ buffer' = <<>>
      /\ UNCHANGED <<day, m_is_async, m_count, m_fp, lines, my_tm, m_locker, m_size>>
  BY DEF Flush, Goto, Fflush, queue
<1>2. Typed'
  BY <1>1, FilesKeep DEF IInv, Typed, LogPC
<1>3. ~m_is_async => OnDisk(Present(t))'
  <2>1. SUFFICES ASSUME ~m_is_async PROVE OnDisk(Present(t))'
    OBVIOUS
  <2>2. OnDisk(Present(t)) \/ InBuffer(Present(t))
    BY <1>1, <2>1 DEF IInv, Synchronous
  <2>3. \E i \in 1 .. Len(disk') : disk'[i].line = Present(t)
    BY <1>1, <2>1, <2>2, FlushedIs DEF IInv, OnDisk
  <2> QED
    BY <1>1, <2>3 DEF OnDisk, Present
<1>4. Synchronous' /\ OnDiskOnReturn'
  BY <1>1, <1>2, <1>3, FilesKeep, WriterKeeps
<1> QED
  BY <1>1, <1>2, <1>4, HangsKept DEF IInv

(* The flush thread. *)
LEMMA TakeLineKeeps == ASSUME IInv, TakeLine PROVE IInv'
<1>1. /\ m_is_async /\ pc[Flusher] = "pop"
      /\ UNCHANGED <<day, m_is_async, m_count, m_fp, buffer, disk, lines, my_tm>>
  BY DEF TakeLine, files
<1>2. /\ m_size' \in Nat /\ pc' \in [Thread -> LogPC] /\ HangsEmpty'
  <2>1. CASE Q!Pop(Flusher) /\ Goto(Flusher, "write")
    BY <2>1, Apart DEF Q!Pop, Q!Locked, Goto, IInv, Typed, LogPC, HangsEmpty
  <2>2. CASE Q!PopHangs(Flusher) /\ UNCHANGED pc
    BY <1>1, <2>2 DEF Q!PopHangs, Q!ring, IInv, Typed, HangsEmpty
  <2> QED
    BY <2>1, <2>2 DEF TakeLine
<1>3. Typed'
  BY <1>1, <1>2 DEF IInv, Typed
<1> QED
  BY <1>1, <1>2, <1>3 DEF IInv, Synchronous, OnDiskOnReturn

LEMMA WriteTakenKeeps == ASSUME IInv, WriteTaken PROVE IInv'
<1>1. /\ pc[Flusher] = "write" /\ pc' = [pc EXCEPT ![Flusher] = "pop"]
      /\ UNCHANGED <<day, m_is_async, m_count, m_fp, disk, lines, my_tm, m_locker, m_size>>
  BY DEF WriteTaken, Goto, Fputs, queue
<1>2. m_is_async /\ m_locker = Nobody
  BY <1>1 DEF IInv, Synchronous, HangsEmpty
<1>3. Typed'
  BY <1>1, <1>2 DEF IInv, Typed, LogPC
<1> QED
  BY <1>1, <1>2, <1>3 DEF IInv, Synchronous, OnDiskOnReturn, HangsEmpty

LEMMA OthersKeep == ASSUME IInv, Midnight \/ UNCHANGED vars PROVE IInv'
<1>1. /\ day' \in {day, day + 1}
      /\ UNCHANGED <<m_is_async, m_count, m_fp, buffer, disk, pc, lines, my_tm, m_locker, m_size>>
  BY DEF Midnight, vars, files, queue
<1>2. Typed'
  BY <1>1 DEF IInv, Typed
<1>3. Synchronous' /\ OnDiskOnReturn' /\ HangsEmpty'
  BY <1>1 DEF IInv, Synchronous, OnDiskOnReturn, HangsEmpty, OnDisk, InBuffer, Present
<1> QED
  BY <1>2, <1>3 DEF IInv

LEMMA NextKeeps == ASSUME IInv, [Next]_vars PROVE IInv'
<1>1. ASSUME NEW t \in Writers, Write(t) PROVE IInv'
  BY <1>1, ReadClockKeeps, CountKeeps, ChooseKeeps, PushKeeps, WriteItselfKeeps, FlushKeeps
     DEF Write
<1> QED
  BY <1>1, TakeLineKeeps, WriteTakenKeeps, OthersKeep DEF Next
-----------------------------------------------------------------------------
LEMMA Invariance == Spec => []IInv
<1>1. Init => IInv
  BY InitInv
<1>2. IInv /\ [Next]_vars => IInv'
  BY NextKeeps
<1> QED
  BY <1>1, <1>2, PTL DEF Spec

(* A synchronous log has a line in a file when LOG_INFO returns, whoever   *)
(* opened another file in between (log.cpp:106-165).                       *)
THEOREM ReturnedIsOnDisk == Spec => []OnDiskOnReturn
<1>1. IInv => OnDiskOnReturn
  BY DEF IInv
<1> QED
  BY <1>1, Invariance, PTL

(* The log hangs only on a queue that is empty (block_queue.h:163-169).    *)
THEOREM HangsOnEmptyQueue == Spec => []HangsEmpty
<1>1. IInv => HangsEmpty
  BY DEF IInv
<1> QED
  BY <1>1, Invariance, PTL
-----------------------------------------------------------------------------
(* The types, and every line once. *)

QP == INSTANCE BlockQueueProofs WITH
    Threads <- Thread, Items <- Line, NoItem <- NoLine,
    m_max_size <- max_queue_size, value <- [t \in Thread |-> NoLine]

(* The constants, one by one. *)
LEMMA ConstantsAre ==
    /\ m_split_lines \in Nat \ {0}
    /\ max_queue_size \in Nat \ {0}
    /\ MaxLines \in Nat \ {0}
    /\ MaxDay \in Nat \ {0}
    /\ IsFiniteSet(Writers)
  BY LogAssumption DEF LogAssumption

(* What BlockQueue assumes holds of the log's queue. *)
LEMMA QueueIsBounded == QP!QueueAssumption
  BY LogAssumption DEF LogAssumption, Thread, QP!QueueAssumption
-----------------------------------------------------------------------------
(* The log's queue, and the queue BlockQueueProofs is about, are the same. *)

LEMMA SameInv == (QP!Inv <=> Q!Inv) /\ (QP!Inv' <=> Q!Inv')
  BY DEF QP!Inv, Q!Inv, QP!TypeOK, Q!TypeOK, QP!RingOK, Q!RingOK, QP!Slots, Q!Slots,
         QP!Indices, Q!Indices, QP!Methods, Q!Methods

LEMMA SameContents == QP!Contents = Q!Contents /\ QP!Contents' = Q!Contents'
  BY DEF QP!Contents, Q!Contents

LEMMA QueueStep ==
    ASSUME NEW t \in Thread,
           \/ \E x \in Line : Q!PushAccepted(t, x)
           \/ Q!PushRefused(t) \/ Q!Full(t) \/ Q!Pop(t) \/ Q!PopHangs(t)
    PROVE  [QP!Next]_(QP!vars)
<1>1. CASE \E x \in Line : Q!PushAccepted(t, x)
  BY <1>1 DEF QP!Next, QP!PushAccepted, Q!PushAccepted, QP!Locked, Q!Locked, QP!Return, Q!Return
<1>2. CASE Q!PushRefused(t)
  BY <1>2 DEF QP!Next, QP!PushRefused, Q!PushRefused, QP!Locked, Q!Locked, QP!Return, Q!Return,
              QP!ring, Q!ring
<1>3. CASE Q!Full(t)
  BY <1>3 DEF QP!Next, QP!Full, Q!Full, QP!Locked, Q!Locked, QP!Return, Q!Return, QP!ring, Q!ring
<1>4. CASE Q!Pop(t)
  BY <1>4 DEF QP!Next, QP!Pop, Q!Pop, QP!Locked, Q!Locked, QP!Return, Q!Return
<1>5. CASE Q!PopHangs(t)
  BY <1>5 DEF QP!Next, QP!PopHangs, Q!PopHangs, QP!ring, Q!ring
<1> QED
  BY <1>1, <1>2, <1>3, <1>4, <1>5

(* The log calls no method that spoils the queue. *)
LEMMA QueueInvKept ==
    ASSUME Q!Inv, NEW t \in Thread,
           \/ \E x \in Line : Q!PushAccepted(t, x)
           \/ Q!PushRefused(t) \/ Q!Full(t) \/ Q!Pop(t) \/ Q!PopHangs(t)
    PROVE  Q!Inv'
<1>1. QP!Inv /\ [QP!Next]_(QP!vars)
  BY QueueStep, SameInv
<1> QED
  BY <1>1, QueueIsBounded, SameInv, QP!StepInv

LEMMA ContentsAre ==
    ASSUME Q!Inv
    PROVE  /\ Q!Contents \in Seq(Line)
           /\ Len(Q!Contents) = m_size
           /\ m_size \in 0 .. max_queue_size
<1>1. QP!Inv
  BY SameInv
<1>2. QP!Contents \in Seq(Line) /\ Len(QP!Contents) = m_size
  BY <1>1, QueueIsBounded, QP!ContentsIs
<1> QED
  BY <1>2, SameContents DEF Q!Inv, Q!TypeOK

LEMMA PushAppends ==
    ASSUME Q!Inv, NEW t \in Thread, NEW x \in Line, Q!PushAccepted(t, x)
    PROVE  Q!Contents' = Append(Q!Contents, x)
<1>1. QP!Inv /\ QP!PushAccepted(t, x)
  BY SameInv DEF QP!PushAccepted, Q!PushAccepted, QP!Locked, Q!Locked, QP!Return, Q!Return
<1> QED
  BY <1>1, QueueIsBounded, SameContents, QP!PushAppends

LEMMA PopTakesHead ==
    ASSUME Q!Inv, NEW t \in Thread, Q!Pop(t)
    PROVE  /\ Q!Contents # <<>>
           /\ item' = [item EXCEPT ![t] = Head(Q!Contents)]
           /\ Q!Contents' = Tail(Q!Contents)
<1>1. QP!Inv /\ QP!Pop(t)
  BY SameInv DEF QP!Pop, Q!Pop, QP!Locked, Q!Locked, QP!Return, Q!Return
<1> QED
  BY <1>1, QueueIsBounded, SameContents, QP!PopTakesHead

(* The other methods leave what is queued alone. *)
LEMMA OthersKeepContents ==
    ASSUME NEW t, Q!PushRefused(t) \/ Q!Full(t) \/ Q!PopHangs(t) \/ UNCHANGED queue
    PROVE  Q!Contents' = Q!Contents /\ UNCHANGED <<item, m_size>>
<1>1. UNCHANGED <<m_array, m_size, m_front, item>>
  BY DEF Q!PushRefused, Q!Full, Q!PopHangs, Q!ring, queue
<1> QED
  BY <1>1 DEF Q!Contents
-----------------------------------------------------------------------------
(* The types.  A file's number is bounded by the lines counted, and those  *)
(* by the lines begun: the bound on parts is no part of the code, so the   *)
(* type of m_fp needs the two counts related.                              *)

(* The lines that have been through the first section of write_log. *)
Counted == {x \in Begun : x.n = lines[x.by] => pc[x.by] # "count"}

Counts == Cardinality(Begun) <= MaxLines /\ m_count <= Cardinality(Counted)

Places ==
    /\ \A t \in Writers :
          /\ pc[t] \in LogPC \ {"pop", "write"}
          /\ pc[t] # "idle" => lines[t] > 0
    /\ pc[Flusher] \in {"pop", "write"}
    /\ pc[Flusher] = "write" => item[Flusher] \in Line

TypeInv == TypeOK /\ Q!Inv /\ Places /\ Counts

LEMMA LinesAreFinite == IsFiniteSet(Line)
<1> DEFINE line == [p \in Writers \X (1 .. MaxLines) |-> [by |-> p[1], n |-> p[2]]]
<1>1. IsFiniteSet(Writers \X (1 .. MaxLines))
  <2>1. IsFiniteSet(1 .. MaxLines)
    BY ConstantsAre, FS_Interval
  <2> QED
    BY <2>1, ConstantsAre, FS_Product
<1>2. line \in Surjection(Writers \X (1 .. MaxLines), Line)
  <2>1. line \in [Writers \X (1 .. MaxLines) -> Line]
    BY DEF Line
  <2>2. ASSUME NEW x \in Line PROVE \E p \in Writers \X (1 .. MaxLines) : line[p] = x
    <3>1. x.by \in Writers /\ x.n \in 1 .. MaxLines /\ x = [by |-> x.by, n |-> x.n]
      BY DEF Line
    <3>2. <<x.by, x.n>> \in Writers \X (1 .. MaxLines) /\ line[<<x.by, x.n>>] = x
      BY <3>1
    <3> QED
      BY <3>2
  <2> QED
    BY <2>1, <2>2 DEF Surjection
<1> QED
  BY <1>1, <1>2, FS_Surjection

LEMMA CountsAreNumbers ==
    /\ IsFiniteSet(Begun) /\ IsFiniteSet(Counted)
    /\ Cardinality(Begun) \in Nat /\ Cardinality(Counted) \in Nat
    /\ Cardinality(Counted) <= Cardinality(Begun)
<1>1. Begun \in SUBSET Line /\ Counted \in SUBSET Begun
  BY DEF Begun, Counted
<1> QED
  BY <1>1, LinesAreFinite, FS_Subset, FS_CardinalityType

LEMMA OneMore ==
    ASSUME NEW S, IsFiniteSet(S), NEW x
    PROVE  /\ IsFiniteSet(S \cup {x})
           /\ Cardinality(S \cup {x}) <= Cardinality(S) + 1
           /\ x \notin S => Cardinality(S \cup {x}) = Cardinality(S) + 1
<1>1. Cardinality(S) \in Nat
  BY FS_CardinalityType
<1> QED
  BY <1>1, FS_AddElement

(* A writer's lines are among those begun. *)
LEMMA BegunAtLeast ==
    ASSUME TypeOK, NEW t \in Writers
    PROVE  lines[t] <= Cardinality(Begun)
<1>1. lines[t] \in 0 .. MaxLines /\ MaxLines \in Nat
  BY ConstantsAre DEF TypeOK
<1> DEFINE nth == [k \in 1 .. lines[t] |-> [by |-> t, n |-> k]]
<1>2. nth \in Injection(1 .. lines[t], Begun)
  <2>1. nth \in [1 .. lines[t] -> Begun]
    <3>1. ASSUME NEW k \in 1 .. lines[t] PROVE [by |-> t, n |-> k] \in Begun
      <4>1. k \in 1 .. MaxLines /\ k <= lines[t]
        BY <1>1
      <4> QED
        BY <4>1 DEF Begun, Line
    <3> QED
      BY <3>1
  <2>2. ASSUME NEW i \in 1 .. lines[t], NEW j \in 1 .. lines[t], nth[i] = nth[j] PROVE i = j
    BY <2>2
  <2> QED
    BY <2>1, <2>2 DEF Injection, IsInjective
<1>3. Cardinality(1 .. lines[t]) = lines[t]
  BY <1>1, FS_Interval
<1> QED
  BY <1>2, <1>3, CountsAreNumbers, FS_Injection

LEMMA PresentIsBegun ==
    ASSUME TypeOK, NEW t \in Writers, lines[t] > 0
    PROVE  Present(t) \in Begun
  BY ConstantsAre DEF TypeOK, Present, Begun, Line

(* What a writer that goes on within its line does to the counts. *)
LEMMA CountsMove ==
    ASSUME TypeOK, NEW t \in Writers, NEW q, Goto(t, q), UNCHANGED lines, q # "count"
    PROVE  /\ Begun' = Begun
           /\ Present(t)' = Present(t)
           /\ pc[t] # "count" => Counted' = Counted
           /\ pc[t] = "count" /\ lines[t] > 0 =>
                 Counted' = Counted \cup {Present(t)} /\ Present(t) \notin Counted
<1>1. pc \in [Thread -> LogPC] /\ t \in Thread
  BY DEF TypeOK, Thread
<1>2. pc'[t] = q /\ \A u \in Writers \ {t} : pc'[u] = pc[u]
  BY <1>1 DEF Goto, Thread
<1>3. Begun' = Begun /\ Present(t)' = Present(t)
  BY DEF Begun, Present
<1>4. \A x \in Begun : x.by \in Writers /\ (x.by = t /\ x.n = lines[x.by] <=> x = Present(t))
  BY DEF Begun, Line, Present
<1>5. CASE pc[t] # "count"
  BY <1>2, <1>3, <1>5 DEF Counted, Begun, Line
<1>6. CASE pc[t] = "count" /\ lines[t] > 0
  <2>1. Present(t) \in Begun
    BY <1>6, PresentIsBegun
  <2>2. \A x \in Begun : x \in Counted' <=> x \in Counted \/ x = Present(t)
    BY <1>2, <1>3, <1>4, <1>6 DEF Counted
  <2>3. Present(t) \notin Counted
    BY <1>6 DEF Counted, Present
  <2> QED
    BY <1>3, <1>6, <2>1, <2>2, <2>3 DEF Counted
<1> QED
  BY <1>3, <1>5, <1>6

LEMMA QuotientIs ==
    ASSUME NEW n \in Nat, NEW s \in Nat \ {0}
    PROVE  n \div s \in 0 .. n
  OBVIOUS

LEMMA FlushedIsTyped ==
    ASSUME TypeOK
    PROVE  Flushed \in Seq([file : File, line : Line])
<1> DEFINE new == [i \in 1 .. Len(buffer) |-> [file |-> m_fp, line |-> buffer[i]]]
<1>1. buffer \in Seq(Line) /\ Len(buffer) \in Nat /\ m_fp \in File
  BY DEF TypeOK
<1>2. \A i \in 1 .. Len(buffer) : buffer[i] \in Line
  BY <1>1
<1>3. new \in Seq([file : File, line : Line])
  BY <1>1, <1>2
<1> QED
  BY <1>3 DEF TypeOK, Flushed

(* A queue that no step touches stays as it is. *)
LEMMA QueueSame == ASSUME Q!Inv, UNCHANGED queue PROVE Q!Inv'
  BY DEF queue, Q!Inv, Q!TypeOK, Q!RingOK

LEMMA InitTypes == Init => TypeInv
<1> SUFFICES ASSUME Init PROVE TypeInv
  OBVIOUS
<1>1. Q!Inv
  <2>1. QP!Init
    BY DEF Init, QP!Init, Q!Init, QP!Slots, Q!Slots
  <2> QED
    BY <2>1, QueueIsBounded, SameInv, QP!InitInv
<1>2. TypeOK
  BY <1>1, ConstantsAre, Apart DEF Init, TypeOK, Q!Inv, Day, File, LogPC
<1>3. Places
  BY Apart DEF Init, Places, LogPC
<1>4. Begun = {} /\ Counted = {}
  <2>1. \A x \in Line : x.by \in Writers /\ ~(x.n <= lines[x.by])
    BY DEF Init, Line
  <2> QED
    BY <2>1 DEF Begun, Counted
<1>5. Counts
  BY <1>4, FS_EmptySet, ConstantsAre DEF Init, Counts
<1> QED
  BY <1>1, <1>2, <1>3, <1>5 DEF TypeInv

(* What a writer's move leaves of the places, with its lines. *)
LEMMA PlacesMove ==
    ASSUME TypeInv, NEW t \in Writers, NEW q \in LogPC \ {"pop", "write"}, Goto(t, q),
           lines' \in [Writers -> 0 .. MaxLines],
           \A u \in Writers \ {t} : lines'[u] = lines[u],
           q # "idle" => lines'[t] > 0,
           item' = item
    PROVE  /\ pc' \in [Thread -> LogPC]
           /\ Places'
<1>1. pc \in [Thread -> LogPC] /\ t \in Thread /\ t # Flusher
  BY Apart DEF TypeInv, TypeOK
<1>2. pc'[t] = q /\ \A u \in Thread \ {t} : pc'[u] = pc[u]
  BY <1>1 DEF Goto
<1>3. pc' \in [Thread -> LogPC]
  BY <1>1 DEF Goto
<1> QED
  BY <1>1, <1>2, <1>3, Apart DEF TypeInv, Places

LEMMA ReadClockTypes ==
    ASSUME TypeInv, NEW t \in Writers, ReadClock(t) PROVE TypeInv'
<1>1. /\ pc[t] = "idle" /\ Cardinality(Begun) < MaxLines
      /\ lines' = [lines EXCEPT ![t] = @ + 1] /\ my_tm' = [my_tm EXCEPT ![t] = day]
      /\ Goto(t, "count")
      /\ UNCHANGED <<day, m_is_async, m_count, m_today, m_fp, buffer, disk, refused, queue>>
  BY DEF ReadClock, files
<1>2. /\ lines[t] < MaxLines /\ lines \in [Writers -> 0 .. MaxLines] /\ lines[t] \in Nat
      /\ MaxLines \in Nat
  BY <1>1, BegunAtLeast, CountsAreNumbers, ConstantsAre DEF TypeInv, TypeOK
<1>3. /\ lines' \in [Writers -> 0 .. MaxLines] /\ lines'[t] = lines[t] + 1
      /\ \A u \in Writers \ {t} : lines'[u] = lines[u]
  BY <1>1, <1>2
<1>4. Places' /\ pc' \in [Thread -> LogPC]
  <2>1. item' = item /\ lines'[t] > 0
    BY <1>1, <1>2, <1>3 DEF queue
  <2> QED
    BY <1>1, <1>3, <2>1, PlacesMove DEF LogPC
<1>5. Q!Inv'
  BY <1>1, QueueSame DEF TypeInv
<1>6. my_tm' \in [Writers -> Day]
  BY <1>1 DEF TypeInv, TypeOK
<1>7. TypeOK'
  BY <1>1, <1>3, <1>4, <1>5, <1>6 DEF TypeInv, TypeOK, Q!Inv
<1>8. pc'[t] = "count" /\ \A u \in Writers \ {t} : pc'[u] = pc[u]
  BY <1>1, Apart DEF Goto, TypeInv, TypeOK
<1>9. Begun' = Begun \cup {Present(t)'} /\ Counted' = Counted
  <2>1. \A x \in Line : x.by \in Writers /\ x.n \in Nat
    BY ConstantsAre DEF Line
  <2>2. \A x \in Line : x.by = t /\ x.n = lines[t] + 1 <=> x = Present(t)'
    BY <1>3 DEF Line, Present
  <2>3. \A x \in Line : x \in Begun' <=> x \in Begun \/ x = Present(t)'
    BY <1>2, <1>3, <2>1, <2>2 DEF Begun
  <2>4. Present(t)' \in Line
    BY <1>2, <1>3 DEF Present, Line
  <2>5. Begun' = Begun \cup {Present(t)'}
    BY <2>3, <2>4 DEF Begun
  <2>6. \A x \in Line : x \in Counted' <=> x \in Counted
    BY <1>1, <1>2, <1>3, <1>8, <2>1, <2>2, <2>3 DEF Counted, Begun
  <2> QED
    BY <2>5, <2>6 DEF Counted, Begun
<1>10. Counts'
  <2>1. Cardinality(Begun \cup {Present(t)'}) <= Cardinality(Begun) + 1
    BY CountsAreNumbers, OneMore
  <2>2. Cardinality(Begun') <= Cardinality(Begun) + 1
    BY <1>9, <2>1
  <2>3. Cardinality(Begun') \in Nat
    <3>1. IsFiniteSet(Begun \cup {Present(t)'})
      BY CountsAreNumbers, FS_AddElement
    <3> QED
      BY <1>9, <3>1, FS_CardinalityType
  <2>4. Cardinality(Begun') <= MaxLines
    BY <1>1, <1>2, <2>2, <2>3, CountsAreNumbers
  <2> QED
    BY <1>1, <1>9, <2>4 DEF TypeInv, Counts
<1> QED
  BY <1>4, <1>5, <1>7, <1>10 DEF TypeInv

LEMMA CountTypes ==
    ASSUME TypeInv, NEW t \in Writers, Count(t) PROVE TypeInv'
<1>1. /\ pc[t] = "count" /\ Goto(t, "choose")
      /\ CountNewDay(my_tm[t]) \/ CountSplit(my_tm[t]) \/ CountOnly(my_tm[t])
      /\ UNCHANGED <<day, m_is_async, lines, my_tm, refused, queue>>
  BY DEF Count
<1>2. lines[t] > 0 /\ m_count \in Nat /\ my_tm[t] \in Day /\ m_today \in Day
  BY <1>1 DEF TypeInv, Places, TypeOK
<1>3. /\ Begun' = Begun
      /\ Counted' = Counted \cup {Present(t)} /\ Present(t) \notin Counted
  BY <1>1, <1>2, CountsMove DEF TypeInv
<1>4. /\ Cardinality(Counted') = Cardinality(Counted) + 1
      /\ Cardinality(Counted') <= Cardinality(Begun)
  <2>1. Counted' \in SUBSET Begun
    BY <1>3 DEF Counted
  <2>2. Cardinality(Counted') <= Cardinality(Begun)
    BY <2>1, CountsAreNumbers, FS_Subset
  <2>3. Cardinality(Counted \cup {Present(t)}) = Cardinality(Counted) + 1
    BY <1>3, CountsAreNumbers, OneMore
  <2> QED
    BY <1>3, <2>2, <2>3
<1>5. m_count + 1 <= MaxLines /\ MaxLines \in Nat /\ m_count' \in {0, m_count + 1}
  BY <1>1, <1>2, <1>4, CountsAreNumbers, ConstantsAre
     DEF TypeInv, Counts, CountNewDay, CountSplit, CountOnly
<1>6. Counts'
  BY <1>2, <1>3, <1>4, <1>5, CountsAreNumbers DEF TypeInv, Counts
<1>7. Places' /\ pc' \in [Thread -> LogPC]
  <2>1. item' = item /\ lines' \in [Writers -> 0 .. MaxLines]
    BY <1>1 DEF queue, TypeInv, TypeOK
  <2> QED
    BY <1>1, <1>2, <2>1, PlacesMove DEF LogPC
<1>8. m_fp' \in File
  <2>1. (m_count + 1) \div m_split_lines \in 0 .. MaxLines
    <3>1. (m_count + 1) \div m_split_lines \in 0 .. m_count + 1
      BY <1>2, QuotientIs, ConstantsAre
    <3> QED
      BY <1>2, <1>5, <3>1
  <2> QED
    BY <1>1, <1>2, <1>5, <2>1 DEF CountNewDay, CountSplit, CountOnly, Reopen, File, TypeInv, TypeOK
<1>9. disk' \in Seq([file : File, line : Line]) /\ buffer' \in Seq(Line) /\ m_today' \in Day
  <2>1. \/ UNCHANGED <<buffer, disk>>
        \/ disk' = Flushed /\ buffer' = <<>>
    BY <1>1 DEF CountNewDay, CountSplit, CountOnly, Reopen
  <2>2. m_today' \in Day
    BY <1>1, <1>2 DEF CountNewDay, CountSplit, CountOnly
  <2>3. Flushed \in Seq([file : File, line : Line]) /\ <<>> \in Seq(Line)
    BY FlushedIsTyped DEF TypeInv
  <2>4. disk \in Seq([file : File, line : Line]) /\ buffer \in Seq(Line)
    BY DEF TypeInv, TypeOK
  <2> QED
    BY <2>1, <2>2, <2>3, <2>4
<1>10. Q!Inv'
  BY <1>1, QueueSame DEF TypeInv
<1>11. TypeOK'
  BY <1>1, <1>2, <1>5, <1>7, <1>8, <1>9, <1>10 DEF TypeInv, TypeOK, Q!Inv
<1> QED
  BY <1>6, <1>7, <1>10, <1>11 DEF TypeInv

(* The rest of a line: the writer goes on, and the counts stay. *)
LEMMA LineGoesOn ==
    ASSUME TypeInv, NEW t \in Writers, NEW q \in {"fputs", "push", "flush", "idle"},
           pc[t] \notin {"idle", "count"}, Goto(t, q),
           UNCHANGED <<day, m_is_async, m_count, m_today, m_fp, lines, my_tm, item>>,
           disk' \in Seq([file : File, line : Line]), buffer' \in Seq(Line),
           refused' \subseteq Line, Q!Inv'
    PROVE  TypeInv'
<1>1. lines[t] > 0 /\ lines' \in [Writers -> 0 .. MaxLines]
  BY DEF TypeInv, Places, TypeOK
<1>2. Begun' = Begun /\ Counted' = Counted
  BY <1>1, CountsMove DEF TypeInv
<1>3. Counts'
  BY <1>2 DEF TypeInv, Counts
<1>4. Places' /\ pc' \in [Thread -> LogPC]
  BY <1>1, PlacesMove DEF LogPC
<1>5. TypeOK'
  BY <1>4 DEF TypeInv, TypeOK, Q!Inv
<1> QED
  BY <1>3, <1>4, <1>5 DEF TypeInv

LEMMA ChooseTypes ==
    ASSUME TypeInv, NEW t \in Writers, Choose(t) PROVE TypeInv'
<1>1. PICK q \in {"fputs", "push"} : Goto(t, q) /\ (Q!Full(t) \/ UNCHANGED queue)
  BY DEF Choose
<1>2. /\ pc[t] = "choose"
      /\ UNCHANGED <<day, m_is_async, m_count, m_today, m_fp, buffer, disk, lines, my_tm, refused>>
  BY DEF Choose, files
<1>3. Q!Inv' /\ item' = item
  <2>1. CASE Q!Full(t)
    BY <2>1, QueueInvKept DEF TypeInv, Thread, Q!Full
  <2>2. CASE UNCHANGED queue
    BY <2>2, QueueSame DEF TypeInv, queue
  <2> QED
    BY <1>1, <2>1, <2>2
<1>4. /\ disk' \in Seq([file : File, line : Line]) /\ buffer' \in Seq(Line)
      /\ refused' \subseteq Line
  BY <1>2 DEF TypeInv, TypeOK
<1> QED
  BY <1>1, <1>2, <1>3, <1>4, LineGoesOn

LEMMA PushTypes ==
    ASSUME TypeInv, NEW t \in Writers, Push(t) PROVE TypeInv'
<1>1. /\ pc[t] = "push" /\ Goto(t, "flush")
      /\ UNCHANGED <<day, m_is_async, m_count, m_today, m_fp, buffer, disk, lines, my_tm>>
  BY DEF Push, files
<1>2. Present(t) \in Line
  BY <1>1, PresentIsBegun DEF TypeInv, Places, Begun
<1>3. Q!Inv' /\ item' = item
  <2>1. Q!PushAccepted(t, Present(t)) \/ Q!PushRefused(t)
    BY DEF Push
  <2>2. item' = item
    BY <2>1 DEF Q!PushAccepted, Q!PushRefused
  <2> QED
    BY <1>2, <2>1, <2>2, QueueInvKept DEF TypeInv, Thread
<1>4. /\ disk' \in Seq([file : File, line : Line]) /\ buffer' \in Seq(Line)
      /\ refused' \subseteq Line
  BY <1>1, <1>2 DEF Push, TypeInv, TypeOK
<1> QED
  BY <1>1, <1>3, <1>4, LineGoesOn

LEMMA WriteItselfTypes ==
    ASSUME TypeInv, NEW t \in Writers, WriteItself(t) PROVE TypeInv'
<1>1. /\ pc[t] = "fputs" /\ Goto(t, "flush") /\ buffer' = Append(buffer, Present(t))
      /\ UNCHANGED <<day, m_is_async, m_count, m_today, m_fp, disk, lines, my_tm, refused, queue>>
  BY DEF WriteItself, Fputs
<1>2. Present(t) \in Line
  BY <1>1, PresentIsBegun DEF TypeInv, Places, Begun
<1>3. Q!Inv' /\ item' = item
  BY <1>1, QueueSame DEF TypeInv, queue
<1>4. /\ disk' \in Seq([file : File, line : Line]) /\ buffer' \in Seq(Line)
      /\ refused' \subseteq Line
  BY <1>1, <1>2 DEF TypeInv, TypeOK
<1> QED
  BY <1>1, <1>3, <1>4, LineGoesOn

LEMMA FlushTypes ==
    ASSUME TypeInv, NEW t \in Writers, Flush(t) PROVE TypeInv'
<1>1. /\ pc[t] = "flush" /\ Goto(t, "idle") /\ disk' = Flushed /\ buffer' = <<>>
      /\ UNCHANGED <<day, m_is_async, m_count, m_today, m_fp, lines, my_tm, refused, queue>>
  BY DEF Flush, Fflush
<1>2. Q!Inv' /\ item' = item
  BY <1>1, QueueSame DEF TypeInv, queue
<1>3. /\ disk' \in Seq([file : File, line : Line]) /\ buffer' \in Seq(Line)
      /\ refused' \subseteq Line
  BY <1>1, FlushedIsTyped DEF TypeInv, TypeOK
<1> QED
  BY <1>1, <1>2, <1>3, LineGoesOn

(* The flush thread touches no line's count. *)
LEMMA FlusherMoves ==
    ASSUME TypeInv, NEW q \in {"pop", "write"}, Goto(Flusher, q) \/ (UNCHANGED pc /\ q = pc[Flusher]),
           UNCHANGED <<day, m_is_async, m_count, m_today, m_fp, disk, lines, my_tm, refused>>,
           buffer' \in Seq(Line), q = "write" => item'[Flusher] \in Line, Q!Inv'
    PROVE  TypeInv'
<1>1. pc \in [Thread -> LogPC] /\ Flusher \in Thread
  BY Apart DEF TypeInv, TypeOK
<1>2. /\ pc' \in [Thread -> LogPC] /\ pc'[Flusher] = q
      /\ \A u \in Writers : pc'[u] = pc[u]
  BY <1>1, Apart DEF Goto, LogPC
<1>3. Begun' = Begun /\ Counted' = Counted
  BY <1>2 DEF Begun, Counted, Line
<1>4. Counts' /\ Places'
  BY <1>2, <1>3 DEF TypeInv, Counts, Places
<1>5. TypeOK'
  BY <1>2 DEF TypeInv, TypeOK, Q!Inv
<1> QED
  BY <1>4, <1>5 DEF TypeInv

LEMMA TakeLineTypes == ASSUME TypeInv, TakeLine PROVE TypeInv'
<1>1. /\ pc[Flusher] = "pop" /\ buffer' \in Seq(Line)
      /\ UNCHANGED <<day, m_is_async, m_count, m_today, m_fp, disk, lines, my_tm, refused>>
  BY DEF TakeLine, files, TypeInv, TypeOK
<1>2. Flusher \in Thread
  BY Apart
<1>3. CASE Q!Pop(Flusher) /\ Goto(Flusher, "write")
  <2>1. Q!Inv'
    BY <1>2, <1>3, QueueInvKept DEF TypeInv
  <2>2. Q!Contents # <<>> /\ item' = [item EXCEPT ![Flusher] = Head(Q!Contents)]
    BY <1>2, <1>3, PopTakesHead DEF TypeInv
  <2>3. item'[Flusher] \in Line
    <3>1. item'[Flusher] = Head(Q!Contents)
      BY <1>2, <2>2 DEF TypeInv, Q!Inv, Q!TypeOK
    <3> QED
      BY <2>2, <3>1, ContentsAre, HeadTailProperties DEF TypeInv
  <2> QED
    BY <1>1, <1>3, <2>1, <2>3, FlusherMoves
<1>4. CASE Q!PopHangs(Flusher) /\ UNCHANGED pc
  <2>1. Q!Inv'
    BY <1>2, <1>4, QueueInvKept DEF TypeInv
  <2> QED
    BY <1>1, <1>4, <2>1, FlusherMoves
<1> QED
  BY <1>3, <1>4 DEF TakeLine

LEMMA WriteTakenTypes == ASSUME TypeInv, WriteTaken PROVE TypeInv'
<1>1. /\ pc[Flusher] = "write" /\ Goto(Flusher, "pop") /\ buffer' = Append(buffer, item[Flusher])
      /\ UNCHANGED <<day, m_is_async, m_count, m_today, m_fp, disk, lines, my_tm, refused, queue>>
  BY DEF WriteTaken, Fputs
<1>2. Q!Inv' /\ buffer' \in Seq(Line)
  BY <1>1, QueueSame DEF TypeInv, Places, TypeOK
<1> QED
  BY <1>1, <1>2, FlusherMoves

LEMMA OtherTypes == ASSUME TypeInv, Midnight \/ UNCHANGED vars PROVE TypeInv'
<1>1. /\ day' \in Day
      /\ UNCHANGED <<m_is_async, m_count, m_today, m_fp, buffer, disk, pc, lines, my_tm,
                     refused, queue>>
  BY ConstantsAre DEF Midnight, vars, files, queue, TypeInv, TypeOK, Day
<1>2. Q!Inv' /\ item' = item
  BY <1>1, QueueSame DEF TypeInv, queue
<1>3. Counts' /\ Places'
  BY <1>1, <1>2 DEF TypeInv, Counts, Places, Begun, Counted
<1>4. TypeOK'
  BY <1>1, <1>2 DEF TypeInv, TypeOK, Q!Inv
<1> QED
  BY <1>2, <1>3, <1>4 DEF TypeInv

LEMMA TypesKept == ASSUME TypeInv, [Next]_vars PROVE TypeInv'
<1>1. ASSUME NEW t \in Writers, Write(t) PROVE TypeInv'
  BY <1>1, ReadClockTypes, CountTypes, ChooseTypes, PushTypes, WriteItselfTypes, FlushTypes
     DEF Write
<1> QED
  BY <1>1, TakeLineTypes, WriteTakenTypes, OtherTypes DEF Next

LEMMA TypeInvariance == Spec => []TypeInv
<1>1. Init => TypeInv
  BY InitTypes
<1>2. TypeInv /\ [Next]_vars => TypeInv'
  BY TypesKept
<1> QED
  BY <1>1, <1>2, PTL DEF Spec

(* Every variable of the log keeps its type: whatever the threads do, no   *)
(* more files are numbered than lines were counted (log.cpp:110-135), and  *)
(* what the flush thread writes is a line (log.h:50-58).                   *)
THEOREM LogTypeCorrect == Spec => []TypeOK
<1>1. TypeInv => TypeOK
  BY DEF TypeInv
<1> QED
  BY <1>1, TypeInvariance, PTL
-----------------------------------------------------------------------------
(* Sequences in which nothing occurs twice. *)

LEMMA IntervalIs ==
    ASSUME NEW n \in Nat
    PROVE  IsFiniteSet(1 .. n) /\ Cardinality(1 .. n) = n
  BY FS_Interval

LEMMA OnceIsCounted ==
    ASSUME NEW S, NEW s \in Seq(S)
    PROVE  Cardinality(Range(s)) = Len(s) <=> IsInjective(s)
<1>1. s \in [1 .. Len(s) -> S] /\ Len(s) \in Nat
  OBVIOUS
<1>2. s \in Surjection(1 .. Len(s), Range(s))
  BY <1>1 DEF Surjection, Range
<1>3. IsFiniteSet(1 .. Len(s)) /\ Cardinality(1 .. Len(s)) = Len(s)
  BY <1>1, IntervalIs
<1>4. s \in Injection(1 .. Len(s), Range(s)) <=> IsInjective(s)
  BY <1>2 DEF Injection, Surjection
<1> QED
  BY <1>2, <1>3, <1>4, FS_Surjection

LEMMA ConcatOnce ==
    ASSUME NEW S, NEW s \in Seq(S), NEW u \in Seq(S)
    PROVE  /\ Range(s \o u) = Range(s) \cup Range(u)
           /\ IsInjective(s \o u) <=>
                 IsInjective(s) /\ IsInjective(u) /\ Range(s) \cap Range(u) = {}
<1> DEFINE c == s \o u
<1>1. /\ c \in Seq(S) /\ Len(s) \in Nat /\ Len(u) \in Nat /\ Len(c) = Len(s) + Len(u)
      /\ DOMAIN s = 1 .. Len(s) /\ DOMAIN u = 1 .. Len(u) /\ DOMAIN c = 1 .. Len(s) + Len(u)
  BY ConcatProperties, LenProperties
<1>2. \A i \in 1 .. Len(s) : i \in DOMAIN c /\ c[i] = s[i]
  BY <1>1, ConcatProperties
<1>3. \A i \in 1 .. Len(u) : Len(s) + i \in DOMAIN c /\ c[Len(s) + i] = u[i]
  <2>1. ASSUME NEW i \in 1 .. Len(u) PROVE Len(s) + i \in DOMAIN c /\ c[Len(s) + i] = u[i]
    <3>1. Len(s) + i \in 1 .. Len(s) + Len(u) /\ ~(Len(s) + i <= Len(s)) /\ (Len(s) + i) - Len(s) = i
      BY <1>1
    <3> QED
      BY <1>1, <3>1, ConcatProperties
  <2> QED
    BY <2>1
<1>4. \A k \in DOMAIN c :
         \/ k \in 1 .. Len(s) /\ c[k] = s[k]
         \/ \E i \in 1 .. Len(u) : k = Len(s) + i /\ c[k] = u[i]
  <2>1. ASSUME NEW k \in DOMAIN c, k \notin 1 .. Len(s)
        PROVE  k - Len(s) \in 1 .. Len(u) /\ k = Len(s) + (k - Len(s)) /\ c[k] = u[k - Len(s)]
    <3>1. k - Len(s) \in 1 .. Len(u) /\ k = Len(s) + (k - Len(s))
      BY <1>1, <2>1
    <3> QED
      BY <1>3, <3>1
  <2> QED
    BY <1>2, <2>1
<1>5. Range(c) = Range(s) \cup Range(u)
  <2>1. ASSUME NEW k \in DOMAIN c PROVE c[k] \in Range(s) \cup Range(u)
    BY <1>1, <1>4 DEF Range
  <2>2. ASSUME NEW i \in 1 .. Len(s) PROVE s[i] \in Range(c)
    BY <1>2 DEF Range
  <2>3. ASSUME NEW i \in 1 .. Len(u) PROVE u[i] \in Range(c)
    <3>1. Len(s) + i \in DOMAIN c /\ c[Len(s) + i] = u[i]
      BY <1>3
    <3> QED
      BY <3>1 DEF Range
  <2>4. Range(c) \subseteq Range(s) \cup Range(u)
    BY <2>1 DEF Range
  <2>5. Range(s) \subseteq Range(c) /\ Range(u) \subseteq Range(c)
    BY <1>1, <2>2, <2>3 DEF Range
  <2> QED
    BY <2>4, <2>5
<1>6. ASSUME IsInjective(c)
      PROVE  IsInjective(s) /\ IsInjective(u) /\ Range(s) \cap Range(u) = {}
  <2>1. IsInjective(s)
    BY <1>1, <1>2, <1>6 DEF IsInjective
  <2>2. IsInjective(u)
    <3>1. ASSUME NEW i \in 1 .. Len(u), NEW j \in 1 .. Len(u), u[i] = u[j] PROVE i = j
      <4>1. Len(s) + i = Len(s) + j
        BY <1>3, <1>6, <3>1 DEF IsInjective
      <4> QED
        BY <1>1, <4>1
    <3> QED
      BY <1>1, <3>1 DEF IsInjective
  <2>3. ASSUME NEW i \in 1 .. Len(s), NEW j \in 1 .. Len(u), s[i] = u[j] PROVE FALSE
    <3>1. i = Len(s) + j
      BY <1>2, <1>3, <1>6, <2>3 DEF IsInjective
    <3> QED
      BY <1>1, <3>1
  <2> QED
    BY <1>1, <2>1, <2>2, <2>3 DEF Range
<1>7. ASSUME IsInjective(s), IsInjective(u), Range(s) \cap Range(u) = {}
      PROVE  IsInjective(c)
  <2>1. \A i \in 1 .. Len(s), j \in 1 .. Len(u) : s[i] # u[j]
    BY <1>1, <1>7 DEF Range
  <2>2. ASSUME NEW k \in DOMAIN c, NEW l \in DOMAIN c, c[k] = c[l] PROVE k = l
    <3>1. CASE k \in 1 .. Len(s) /\ c[k] = s[k]
      BY <1>1, <1>4, <1>7, <2>1, <2>2, <3>1 DEF IsInjective
    <3>2. CASE \E i \in 1 .. Len(u) : k = Len(s) + i /\ c[k] = u[i]
      BY <1>1, <1>4, <1>7, <2>1, <2>2, <3>2 DEF IsInjective
    <3> QED
      BY <1>4, <3>1, <3>2
  <2> QED
    BY <2>2 DEF IsInjective
<1> QED
  BY <1>5, <1>6, <1>7

LEMMA SingleOnce ==
    ASSUME NEW x
    PROVE  Range(<<x>>) = {x} /\ IsInjective(<<x>>) /\ Range(<<>>) = {} /\ IsInjective(<<>>)
  BY DEF Range, IsInjective

LEMMA AppendOnce ==
    ASSUME NEW S, NEW s \in Seq(S), NEW x \in S
    PROVE  /\ Range(Append(s, x)) = Range(s) \cup {x}
           /\ IsInjective(Append(s, x)) <=> IsInjective(s) /\ x \notin Range(s)
<1>1. Append(s, x) = s \o <<x>> /\ <<x>> \in Seq(S)
  OBVIOUS
<1>2. /\ Range(s \o <<x>>) = Range(s) \cup Range(<<x>>)
      /\ IsInjective(s \o <<x>>) <=>
            IsInjective(s) /\ IsInjective(<<x>>) /\ Range(s) \cap Range(<<x>>) = {}
  BY <1>1, ConcatOnce, Zenon
<1> QED
  BY <1>1, <1>2, SingleOnce, Zenon

LEMMA TailOnce ==
    ASSUME NEW S, NEW s \in Seq(S), s # <<>>
    PROVE  /\ Range(s) = {Head(s)} \cup Range(Tail(s))
           /\ IsInjective(s) <=> IsInjective(Tail(s)) /\ Head(s) \notin Range(Tail(s))
<1>1. Head(s) \in S /\ <<Head(s)>> \in Seq(S) /\ Tail(s) \in Seq(S)
  OBVIOUS
<1>2. s = <<Head(s)>> \o Tail(s)
  <2>1. <<Head(s)>> \o Tail(s) \in Seq(S) /\ Len(<<Head(s)>> \o Tail(s)) = Len(s)
    BY <1>1, HeadTailProperties, ConcatProperties
  <2>2. \A i \in 1 .. Len(s) : s[i] = (<<Head(s)>> \o Tail(s))[i]
    BY <1>1
  <2> QED
    BY <2>1, <2>2, SeqEqual
<1> DEFINE h == <<Head(s)>>
<1>3. /\ Range(h \o Tail(s)) = Range(h) \cup Range(Tail(s))
      /\ IsInjective(h \o Tail(s)) <=>
            IsInjective(h) /\ IsInjective(Tail(s)) /\ Range(h) \cap Range(Tail(s)) = {}
  BY <1>1, ConcatOnce, Zenon
<1>4. Range(h) = {Head(s)} /\ IsInjective(h)
  BY SingleOnce, Zenon
<1> HIDE DEF h
<1> QED
  BY <1>2, <1>3, <1>4 DEF h
-----------------------------------------------------------------------------
(* Each line once.  The places a line can be in, as three sequences. *)

InFiles == [i \in 1 .. Len(disk) |-> disk[i].line] \o buffer
Queued  == Q!Contents
InHand  == IF pc[Flusher] = "write" THEN <<item[Flusher]>> ELSE <<>>

(* OncePerLine, place by place. *)
Once ==
    /\ IsInjective(InFiles) /\ IsInjective(Queued)
    /\ Range(InFiles) \cap Range(Queued) = {}
    /\ Range(InFiles) \cap Range(InHand) = {}
    /\ Range(Queued) \cap Range(InHand) = {}
    /\ (Range(InFiles) \cup Range(Queued) \cup Range(InHand)) \cap refused = {}
    /\ Range(InFiles) \cup Range(Queued) \cup Range(InHand) \cup refused = HandedOn

LEMMA LinesOf ==
    ASSUME NEW d \in Seq([file : File, line : Line])
    PROVE  [i \in 1 .. Len(d) |-> d[i].line] \in Seq(Line)
<1>1. \A i \in 1 .. Len(d) : d[i] \in [file : File, line : Line]
  BY ElementOfSeq
<1>2. \A i \in 1 .. Len(d) : d[i].line \in Line
  BY <1>1
<1> QED
  BY <1>2

LEMMA PlacesAreTyped ==
    ASSUME TypeInv
    PROVE  /\ [i \in 1 .. Len(disk) |-> disk[i].line] \in Seq(Line)
           /\ InFiles \in Seq(Line) /\ Queued \in Seq(Line) /\ InHand \in Seq(Line)
<1>1. disk \in Seq([file : File, line : Line]) /\ Len(disk) \in Nat /\ buffer \in Seq(Line)
  BY DEF TypeInv, TypeOK
<1>3. [i \in 1 .. Len(disk) |-> disk[i].line] \in Seq(Line)
  BY <1>1, LinesOf
<1>4. InFiles \in Seq(Line)
  BY <1>1, <1>3 DEF InFiles
<1>5. Queued \in Seq(Line)
  BY ContentsAre DEF TypeInv, Queued
<1>6. InHand \in Seq(Line)
  BY DEF TypeInv, Places, InHand
<1> QED
  BY <1>3, <1>4, <1>5, <1>6

LEMMA InHandIs ==
    /\ pc[Flusher] = "write" => Range(InHand) = {item[Flusher]}
    /\ pc[Flusher] # "write" => Range(InHand) = {}
    /\ IsInjective(InHand)
<1>1. CASE pc[Flusher] = "write"
  <2>1. InHand = <<item[Flusher]>>
    BY <1>1 DEF InHand
  <2> QED
    BY <1>1, <2>1, SingleOnce
<1>2. CASE pc[Flusher] # "write"
  <2>1. InHand = <<>>
    BY <1>2 DEF InHand
  <2> QED
    BY <1>2, <2>1, SingleOnce
<1> QED
  BY <1>1, <1>2

LEMMA OnceIsOncePerLine ==
    ASSUME TypeInv
    PROVE  OncePerLine <=> Once
<1>1. Kept = InFiles \o Queued \o InHand /\ Kept \in Seq(Line) /\ InFiles \o Queued \in Seq(Line)
  BY PlacesAreTyped DEF Kept, InFiles, Queued, InHand
<1>2. Cardinality(Range(Kept)) = Len(Kept) <=> IsInjective(Kept)
  BY <1>1, OnceIsCounted
<1>3. /\ Range(InFiles \o Queued) = Range(InFiles) \cup Range(Queued)
      /\ IsInjective(InFiles \o Queued) <=>
            IsInjective(InFiles) /\ IsInjective(Queued) /\ Range(InFiles) \cap Range(Queued) = {}
  BY PlacesAreTyped, ConcatOnce, Zenon
<1>4. /\ Range((InFiles \o Queued) \o InHand) = Range(InFiles \o Queued) \cup Range(InHand)
      /\ IsInjective((InFiles \o Queued) \o InHand) <=>
            /\ IsInjective(InFiles \o Queued) /\ IsInjective(InHand)
            /\ Range(InFiles \o Queued) \cap Range(InHand) = {}
  BY <1>1, PlacesAreTyped, ConcatOnce, Zenon
<1>5. IsInjective(InHand)
  BY InHandIs
<1>6. /\ Range(Kept) = Range(InFiles) \cup Range(Queued) \cup Range(InHand)
      /\ IsInjective(Kept) <=>
            /\ IsInjective(InFiles) /\ IsInjective(Queued) /\ Range(InFiles) \cap Range(Queued) = {}
            /\ (Range(InFiles) \cup Range(Queued)) \cap Range(InHand) = {}
  BY <1>1, <1>3, <1>4, <1>5
<1> QED
  BY <1>2, <1>6 DEF OncePerLine, Once

(* What flushing and fputs do to the lines in files. *)
LEMMA FlushKeepsFiles ==
    ASSUME TypeInv, disk' = Flushed, buffer' = <<>>
    PROVE  InFiles' = InFiles
<1> DEFINE new == [i \in 1 .. Len(buffer) |-> [file |-> m_fp, line |-> buffer[i]]]
           old == [i \in 1 .. Len(disk) |-> disk[i].line]
<1>1. /\ disk \in Seq([file : File, line : Line]) /\ Len(disk) \in Nat
      /\ buffer \in Seq(Line) /\ Len(buffer) \in Nat /\ m_fp \in File
  BY DEF TypeInv, TypeOK
<1>2. new \in Seq([file : File, line : Line]) /\ Len(new) = Len(buffer)
      /\ \A i \in 1 .. Len(buffer) : new[i].line = buffer[i]
  BY <1>1, ElementOfSeq
<1>3. disk' = disk \o new /\ Len(disk') = Len(disk) + Len(buffer)
  BY <1>1, <1>2 DEF Flushed
<1>4. InFiles' = [i \in 1 .. Len(disk) + Len(buffer) |-> (disk \o new)[i].line]
  <2>1. InFiles' = [i \in 1 .. Len(disk') |-> disk'[i].line] \o <<>>
    BY DEF InFiles
  <2>2. [i \in 1 .. Len(disk') |-> disk'[i].line] \in Seq(Line)
    <3>1. disk' \in Seq([file : File, line : Line])
      BY <1>1, <1>2, <1>3, ConcatProperties
    <3> QED
      BY <3>1, LinesOf
  <2> QED
    BY <1>3, <2>1, <2>2
<1>5. InFiles = old \o buffer /\ old \in Seq(Line) /\ Len(old) = Len(disk)
  BY <1>1, PlacesAreTyped DEF InFiles
<1>6. InFiles = [i \in 1 .. Len(disk) + Len(buffer) |-> InFiles[i]]
  BY <1>1, <1>5, ConcatProperties, PlacesAreTyped
<1>7. \A i \in 1 .. Len(disk) + Len(buffer) : InFiles[i] = (disk \o new)[i].line
  <2>1. ASSUME NEW i \in 1 .. Len(disk) PROVE InFiles[i] = (disk \o new)[i].line
    BY <1>1, <1>2, <1>5, <2>1
  <2>2. ASSUME NEW i \in Len(disk) + 1 .. Len(disk) + Len(buffer)
        PROVE  InFiles[i] = (disk \o new)[i].line
    <3>1. i - Len(disk) \in 1 .. Len(buffer) /\ ~(i <= Len(disk))
      BY <1>1, <2>2
    <3>2. InFiles[i] = buffer[i - Len(disk)]
      BY <1>1, <1>5, <3>1
    <3>3. (disk \o new)[i] = new[i - Len(disk)]
      BY <1>1, <1>2, <3>1
    <3> QED
      BY <1>2, <3>1, <3>2, <3>3
  <2> QED
    BY <1>1, <2>1, <2>2
<1> QED
  BY <1>4, <1>6, <1>7

LEMMA FputsAddsToFiles ==
    ASSUME TypeInv, NEW x \in Line, Fputs(x)
    PROVE  InFiles' = Append(InFiles, x)
<1>1. buffer' = Append(buffer, x) /\ disk' = disk
  BY DEF Fputs
<1>2. InFiles' = [i \in 1 .. Len(disk) |-> disk[i].line] \o Append(buffer, x)
  BY <1>1 DEF InFiles
<1>3. [i \in 1 .. Len(disk) |-> disk[i].line] \in Seq(Line) /\ buffer \in Seq(Line)
  BY PlacesAreTyped DEF TypeInv, TypeOK
<1>4. ASSUME NEW s \in Seq(Line), NEW u \in Seq(Line)
      PROVE  s \o Append(u, x) = Append(s \o u, x)
  OBVIOUS
<1> QED
  BY <1>2, <1>3, <1>4 DEF InFiles

(* Only the step that hands a line on changes the lines handed on. *)
LEMMA HandedMove ==
    ASSUME TypeInv, NEW t \in Writers, NEW q, Goto(t, q), UNCHANGED lines
    PROVE  /\ (pc[t] \in {"flush", "idle"} <=> q \in {"flush", "idle"}) => HandedOn' = HandedOn
           /\ pc[t] \notin {"flush", "idle"} /\ q = "flush" =>
                 HandedOn' = HandedOn \cup {Present(t)} /\ Present(t) \notin HandedOn
<1>1. pc \in [Thread -> LogPC] /\ t \in Thread
  BY DEF TypeInv, TypeOK, Thread
<1>2. pc'[t] = q /\ \A u \in Writers \ {t} : pc'[u] = pc[u]
  BY <1>1 DEF Goto, Thread
<1>3. Begun' = Begun
  BY DEF Begun
<1>4. \A x \in Begun : x.by \in Writers /\ (x.by = t /\ x.n = lines[x.by] <=> x = Present(t))
  BY DEF Begun, Line, Present
<1>5. CASE pc[t] \in {"flush", "idle"} <=> q \in {"flush", "idle"}
  <2>1. \A x \in Begun : x \in HandedOn' <=> x \in HandedOn
    BY <1>2, <1>3, <1>4, <1>5 DEF HandedOn
  <2> QED
    BY <1>3, <1>5, <2>1 DEF HandedOn
<1>6. CASE pc[t] \notin {"flush", "idle"} /\ q = "flush"
  <2>1. Present(t) \in Begun
    BY <1>6, PresentIsBegun DEF TypeInv, Places
  <2>2. \A x \in Begun : x \in HandedOn' <=> x \in HandedOn \/ x = Present(t)
    BY <1>2, <1>3, <1>4, <1>6 DEF HandedOn
  <2>3. Present(t) \notin HandedOn
    BY <1>6 DEF HandedOn, Present
  <2> QED
    BY <1>3, <1>6, <2>1, <2>2, <2>3 DEF HandedOn
<1> QED
  BY <1>5, <1>6

LEMMA HandStays ==
    ASSUME TypeInv, NEW t \in Writers, NEW q, Goto(t, q), item' = item
    PROVE  InHand' = InHand
  BY Apart DEF TypeInv, TypeOK, Goto, InHand

(* Nothing moves. *)
LEMMA OnceStays ==
    ASSUME Once, InFiles' = InFiles, Queued' = Queued, InHand' = InHand,
           refused' = refused, HandedOn' = HandedOn
    PROVE  Once'
  BY DEF Once

LEMMA ReadClockOnce ==
    ASSUME TypeInv, Once, NEW t \in Writers, ReadClock(t) PROVE Once'
<1>1. /\ pc[t] = "idle" /\ lines' = [lines EXCEPT ![t] = @ + 1] /\ Goto(t, "count")
      /\ Cardinality(Begun) < MaxLines
      /\ UNCHANGED <<buffer, disk, refused, queue>>
  BY DEF ReadClock, files
<1>2. InFiles' = InFiles /\ Queued' = Queued /\ InHand' = InHand
  BY <1>1, OthersKeepContents, HandStays DEF InFiles, Queued, queue
<1>3. HandedOn' = HandedOn
  <2>1. /\ lines[t] < MaxLines /\ lines \in [Writers -> 0 .. MaxLines] /\ lines[t] \in Nat
        /\ MaxLines \in Nat
    BY <1>1, BegunAtLeast, CountsAreNumbers, ConstantsAre DEF TypeInv, TypeOK
  <2>2. lines'[t] = lines[t] + 1 /\ \A u \in Writers \ {t} : lines'[u] = lines[u]
    BY <1>1, <2>1
  <2>3. pc'[t] = "count" /\ \A u \in Writers \ {t} : pc'[u] = pc[u]
    BY <1>1, Apart DEF Goto, TypeInv, TypeOK
  <2>4. \A x \in Line : x.by \in Writers /\ x.n \in Nat
    BY ConstantsAre DEF Line
  <2>5. \A x \in Line : x \in HandedOn' <=> x \in HandedOn
    BY <1>1, <2>1, <2>2, <2>3, <2>4 DEF HandedOn, Begun
  <2> QED
    BY <2>5 DEF HandedOn, Begun
<1> QED
  BY <1>1, <1>2, <1>3, OnceStays

LEMMA CountOnce ==
    ASSUME TypeInv, Once, NEW t \in Writers, Count(t) PROVE Once'
<1>1. /\ pc[t] = "count" /\ Goto(t, "choose")
      /\ UNCHANGED <<buffer, disk>> \/ (disk' = Flushed /\ buffer' = <<>>)
      /\ UNCHANGED <<lines, refused, queue>>
  BY DEF Count, CountNewDay, CountSplit, CountOnly, Reopen
<1>2. InFiles' = InFiles
  BY <1>1, FlushKeepsFiles DEF InFiles
<1>3. Queued' = Queued /\ InHand' = InHand /\ HandedOn' = HandedOn
  BY <1>1, OthersKeepContents, HandStays, HandedMove DEF Queued, queue
<1> QED
  BY <1>1, <1>2, <1>3, OnceStays

LEMMA ChooseOnce ==
    ASSUME TypeInv, Once, NEW t \in Writers, Choose(t) PROVE Once'
<1>1. PICK q \in {"fputs", "push"} : Goto(t, q) /\ (Q!Full(t) \/ UNCHANGED queue)
  BY DEF Choose
<1>2. pc[t] = "choose" /\ UNCHANGED <<buffer, disk, lines, refused>>
  BY DEF Choose, files
<1>3. Queued' = Queued /\ item' = item
  BY <1>1, OthersKeepContents DEF Queued
<1>4. InHand' = InHand /\ HandedOn' = HandedOn /\ InFiles' = InFiles
  BY <1>1, <1>2, <1>3, HandStays, HandedMove DEF InFiles
<1> QED
  BY <1>2, <1>3, <1>4, OnceStays

(* The two ways to hand a line on, and the refusal. *)
LEMMA PushOnce ==
    ASSUME TypeInv, Once, NEW t \in Writers, Push(t) PROVE Once'
<1>1. pc[t] = "push" /\ Goto(t, "flush") /\ UNCHANGED <<buffer, disk, lines>>
  BY DEF Push, files
<1>2. HandedOn' = HandedOn \cup {Present(t)} /\ Present(t) \notin HandedOn /\ InFiles' = InFiles
  BY <1>1, HandedMove DEF InFiles
<1>3. Present(t) \in Line
  BY <1>1, PresentIsBegun DEF TypeInv, Places, Begun
<1>4. CASE Q!PushAccepted(t, Present(t)) /\ UNCHANGED refused
  <2>1. Queued' = Append(Queued, Present(t)) /\ item' = item
    BY <1>3, <1>4, PushAppends DEF TypeInv, Queued, Q!PushAccepted, Thread
  <2>2. InHand' = InHand
    BY <1>1, <2>1, HandStays
  <2>3. /\ Range(Queued)' = Range(Queued) \cup {Present(t)}
        /\ IsInjective(Queued)' <=> IsInjective(Queued) /\ Present(t) \notin Range(Queued)
    <3>1. /\ Range(Append(Queued, Present(t))) = Range(Queued) \cup {Present(t)}
          /\ IsInjective(Append(Queued, Present(t))) <=>
                IsInjective(Queued) /\ Present(t) \notin Range(Queued)
      BY <1>3, PlacesAreTyped, AppendOnce
    <3> QED
      BY <2>1, <3>1
  <2> QED
    BY <1>2, <1>4, <2>2, <2>3 DEF Once
<1>5. CASE Q!PushRefused(t) /\ refused' = refused \cup {Present(t)}
  <2>1. Queued' = Queued /\ item' = item
    BY <1>5, OthersKeepContents DEF Queued
  <2>2. InHand' = InHand
    BY <1>1, <2>1, HandStays
  <2> QED
    BY <1>2, <1>5, <2>1, <2>2 DEF Once
<1> QED
  BY <1>4, <1>5 DEF Push

LEMMA WriteItselfOnce ==
    ASSUME TypeInv, Once, NEW t \in Writers, WriteItself(t) PROVE Once'
<1>1. /\ pc[t] = "fputs" /\ Goto(t, "flush") /\ Fputs(Present(t))
      /\ UNCHANGED <<lines, refused, queue>>
  BY DEF WriteItself
<1>2. HandedOn' = HandedOn \cup {Present(t)} /\ Present(t) \notin HandedOn
  BY <1>1, HandedMove
<1>3. Present(t) \in Line
  BY <1>1, PresentIsBegun DEF TypeInv, Places, Begun
<1>4. Queued' = Queued /\ InHand' = InHand
  BY <1>1, OthersKeepContents, HandStays DEF Queued, queue
<1>5. InFiles' = Append(InFiles, Present(t))
  BY <1>1, <1>3, FputsAddsToFiles
<1>6. /\ Range(Append(InFiles, Present(t))) = Range(InFiles) \cup {Present(t)}
      /\ IsInjective(Append(InFiles, Present(t))) <=>
            IsInjective(InFiles) /\ Present(t) \notin Range(InFiles)
  BY <1>3, PlacesAreTyped, AppendOnce
<1>7. /\ Range(InFiles)' = Range(InFiles) \cup {Present(t)}
      /\ IsInjective(InFiles)' <=> IsInjective(InFiles) /\ Present(t) \notin Range(InFiles)
  BY <1>5, <1>6
<1> QED
  BY <1>1, <1>2, <1>4, <1>7 DEF Once

LEMMA FlushOnce ==
    ASSUME TypeInv, Once, NEW t \in Writers, Flush(t) PROVE Once'
<1>1. /\ pc[t] = "flush" /\ Goto(t, "idle") /\ disk' = Flushed /\ buffer' = <<>>
      /\ UNCHANGED <<lines, refused, queue>>
  BY DEF Flush, Fflush
<1>2. InFiles' = InFiles
  BY <1>1, FlushKeepsFiles
<1>3. Queued' = Queued /\ InHand' = InHand /\ HandedOn' = HandedOn
  BY <1>1, OthersKeepContents, HandStays, HandedMove DEF Queued, queue
<1> QED
  BY <1>1, <1>2, <1>3, OnceStays

(* The flush thread takes the oldest line, and writes it. *)
LEMMA FlusherHandsOnNothing ==
    ASSUME TypeInv, UNCHANGED lines, \A u \in Writers : pc'[u] = pc[u]
    PROVE  HandedOn' = HandedOn
  BY DEF HandedOn, Begun, Line

LEMMA TakeLineOnce == ASSUME TypeInv, Once, TakeLine PROVE Once'
<1>1. pc[Flusher] = "pop" /\ UNCHANGED <<buffer, disk, lines, refused>>
  BY DEF TakeLine, files
<1>2. pc \in [Thread -> LogPC] /\ Flusher \in Thread /\ InFiles' = InFiles
  BY <1>1, Apart DEF TypeInv, TypeOK, InFiles
<1>3. CASE Q!Pop(Flusher) /\ Goto(Flusher, "write")
  <2>1. /\ Queued # <<>> /\ Queued' = Tail(Queued)
        /\ item' = [item EXCEPT ![Flusher] = Head(Queued)]
    BY <1>2, <1>3, PopTakesHead DEF TypeInv, Queued
  <2>2. pc'[Flusher] = "write" /\ \A u \in Writers : pc'[u] = pc[u]
    BY <1>2, <1>3, Apart DEF Goto
  <2>3. item'[Flusher] = Head(Queued)
    BY <1>2, <2>1 DEF TypeInv, Q!Inv, Q!TypeOK
  <2>4. Range(InHand) = {} /\ Range(InHand)' = {Head(Queued)}
    <3>1. Range(InHand)' = {item'[Flusher]}
      <4>1. InHand' = <<item'[Flusher]>>
        BY <2>2 DEF InHand
      <4> QED
        BY <4>1, SingleOnce
    <3> QED
      BY <1>1, <2>3, <3>1, InHandIs
  <2>5. /\ Range(Queued) = {Head(Queued)} \cup Range(Queued)'
        /\ IsInjective(Queued) => IsInjective(Queued)' /\ Head(Queued) \notin Range(Queued)'
    <3>1. /\ Range(Queued) = {Head(Queued)} \cup Range(Tail(Queued))
          /\ IsInjective(Queued) <=>
                IsInjective(Tail(Queued)) /\ Head(Queued) \notin Range(Tail(Queued))
      BY <2>1, PlacesAreTyped, TailOnce
    <3> QED
      BY <2>1, <3>1
  <2>6. HandedOn' = HandedOn
    BY <1>1, <2>2, FlusherHandsOnNothing
  <2> QED
    BY <1>1, <1>2, <2>4, <2>5, <2>6 DEF Once
<1>4. CASE Q!PopHangs(Flusher) /\ UNCHANGED pc
  <2>1. Queued' = Queued /\ item' = item
    BY <1>4, OthersKeepContents DEF Queued
  <2>2. InHand' = InHand /\ HandedOn' = HandedOn
    BY <1>1, <1>4, <2>1, FlusherHandsOnNothing DEF InHand
  <2> QED
    BY <1>1, <1>2, <2>1, <2>2, OnceStays
<1> QED
  BY <1>3, <1>4 DEF TakeLine

LEMMA WriteTakenOnce == ASSUME TypeInv, Once, WriteTaken PROVE Once'
<1>1. /\ pc[Flusher] = "write" /\ Goto(Flusher, "pop") /\ Fputs(item[Flusher])
      /\ UNCHANGED <<lines, refused, queue>>
  BY DEF WriteTaken
<1>2. item[Flusher] \in Line /\ Queued' = Queued
  BY <1>1, OthersKeepContents DEF TypeInv, Places, Queued
<1>3. pc'[Flusher] = "pop" /\ \A u \in Writers : pc'[u] = pc[u]
  BY <1>1, Apart DEF Goto, TypeInv, TypeOK
<1>4. Range(InHand) = {item[Flusher]} /\ Range(InHand)' = {}
  <2>1. InHand' = <<>>
    BY <1>3 DEF InHand
  <2> QED
    BY <1>1, <2>1, InHandIs, SingleOnce
<1>5. HandedOn' = HandedOn
  BY <1>1, <1>3, FlusherHandsOnNothing
<1>6. /\ Range(InFiles)' = Range(InFiles) \cup {item[Flusher]}
      /\ IsInjective(InFiles)' <=> IsInjective(InFiles) /\ item[Flusher] \notin Range(InFiles)
  <2>1. InFiles' = Append(InFiles, item[Flusher])
    BY <1>1, <1>2, FputsAddsToFiles
  <2>2. /\ Range(Append(InFiles, item[Flusher])) = Range(InFiles) \cup {item[Flusher]}
        /\ IsInjective(Append(InFiles, item[Flusher])) <=>
              IsInjective(InFiles) /\ item[Flusher] \notin Range(InFiles)
    BY <1>2, PlacesAreTyped, AppendOnce
  <2> QED
    BY <2>1, <2>2
<1> QED
  BY <1>1, <1>2, <1>4, <1>5, <1>6 DEF Once

LEMMA OtherOnce == ASSUME TypeInv, Once, Midnight \/ UNCHANGED vars PROVE Once'
<1>1. UNCHANGED <<buffer, disk, pc, lines, refused, queue>>
  BY DEF Midnight, vars, files, queue
<1>2. Queued' = Queued /\ InFiles' = InFiles /\ InHand' = InHand /\ HandedOn' = HandedOn
  BY <1>1, OthersKeepContents DEF Queued, InFiles, InHand, HandedOn, Begun, queue
<1> QED
  BY <1>1, <1>2, OnceStays

LEMMA OnceKept == ASSUME TypeInv, Once, [Next]_vars PROVE Once'
<1>1. ASSUME NEW t \in Writers, Write(t) PROVE Once'
  BY <1>1, ReadClockOnce, CountOnce, ChooseOnce, PushOnce, WriteItselfOnce, FlushOnce DEF Write
<1> QED
  BY <1>1, TakeLineOnce, WriteTakenOnce, OtherOnce DEF Next

LEMMA InitOnce == Init => Once
<1> SUFFICES ASSUME Init PROVE Once
  OBVIOUS
<1>1. InFiles = <<>> /\ InHand = <<>>
  BY Apart DEF Init, InFiles, InHand
<1>2. Queued = <<>>
  BY DEF Init, Q!Init, Queued, Q!Contents
<1>3. HandedOn = {}
  <2>1. \A x \in Line : ~(x.n <= lines[x.by])
    BY DEF Init, Line
  <2> QED
    BY <2>1 DEF HandedOn, Begun
<1> QED
  BY <1>1, <1>2, <1>3, SingleOnce DEF Once, Init

(* A line is in exactly one place once its writer has handed it on, unless *)
(* push() refused it, and before that it is nowhere: no rotation, full     *)
(* queue or flush, of whichever thread, loses a line or writes it twice    *)
(* (log.cpp:106-165, log.h:50-58).                                         *)
THEOREM LineKeptOnce == Spec => []OncePerLine
<1>1. Init => Once
  BY InitOnce
<1>2. TypeInv /\ Once /\ [Next]_vars => Once'
  BY OnceKept
<1>3. TypeInv /\ Once => OncePerLine
  BY OnceIsOncePerLine
<1> QED
  BY <1>1, <1>2, <1>3, TypeInvariance, PTL DEF Spec
=============================================================================
