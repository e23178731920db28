----------------------------- MODULE LogFileProofs -----------------------------
(***************************************************************************)
(* How many lines a file of Log gets, for every number of writers and of   *)
(* lines, and every size of the queue and of the files.  The open file's   *)
(* lines and those on their way to it are counted together: a line is on   *)
(* its way from the section that counts it to the fputs that writes it,    *)
(* and whatever file is open by then gets it.                              *)
(***************************************************************************)
EXTENDS LogProofs

(* Writers that have counted their line and have yet to hand it on. *)
Way == {"choose", "push", "fputs"}
OnTheirWay == {t \in Writers : pc[t] \in Way}

InFlight == Cardinality(OnTheirWay) + m_size + IF pc[Flusher] = "write" THEN 1 ELSE 0

(* Nobody has read a date that is still to come. *)
Clocks == m_today <= day /\ \A t \in Writers : my_tm[t] <= day

(* Without a flush thread nothing is queued. *)
QueueUnused == ~m_is_async => m_size = 0

FirstDay ==
    day = 1 =>
        /\ m_fp = [day |-> 1, part |-> m_count \div m_split_lines]
        /\ \A i \in 1 .. Len(disk) : disk[i].file.part <= m_fp.part
        /\ InFile(m_fp) + InFlight <= (m_count % m_split_lines) + 1 + Stragglers

FilesInv == Clocks /\ QueueUnused /\ FirstDay /\ FilesSplit

(* What the earlier proofs give. *)
Known == TypeInv /\ Synchronous
-----------------------------------------------------------------------------
(* Arithmetic: the next number of a file, and its next line. *)

LEMMA NextQuotient ==
    ASSUME NEW n \in Nat, NEW s \in Nat \ {0}
    PROVE  IF (n + 1) % s = 0 THEN (n + 1) \div s = n \div s + 1
           ELSE (n + 1) \div s = n \div s /\ (n + 1) % s = (n % s) + 1
  OBVIOUS

LEMMA RemainderIs ==
    ASSUME NEW n \in Nat, NEW s \in Nat \ {0}
    PROVE  n % s \in 0 .. s - 1
  OBVIOUS
-----------------------------------------------------------------------------
(* Counting the lines of a file. *)

(* Where in d the lines of file f are. *)
At(d, f) == {i \in 1 .. Len(d) : d[i].file = f}

LEMMA AtIsFinite ==
    ASSUME NEW S, NEW d \in Seq(S), NEW f
    PROVE  IsFiniteSet(At(d, f)) /\ Cardinality(At(d, f)) \in Nat
<1>1. At(d, f) \in SUBSET (1 .. Len(d)) /\ Len(d) \in Nat
  BY DEF At
<1>2. IsFiniteSet(1 .. Len(d))
  BY <1>1, IntervalIs
<1> QED
  BY <1>1, <1>2, FS_Subset, FS_CardinalityType

(* An interval that starts later has as many numbers. *)
LEMMA ShiftedInterval ==
    ASSUME NEW m \in Nat, NEW n \in Nat
    PROVE  IsFiniteSet(m + 1 .. m + n) /\ Cardinality(m + 1 .. m + n) = n
<1>1. m + 1 \in Int /\ m + n \in Int
  OBVIOUS
<1>2. /\ IsFiniteSet(m + 1 .. m + n)
      /\ Cardinality(m + 1 .. m + n) = IF m + 1 > m + n THEN 0 ELSE (m + n) - (m + 1) + 1
  BY <1>1, FS_Interval, Zenon
<1> QED
  BY <1>2

(* The lines of f in d with b appended, all of whose lines are of file g. *)
AllOf(b, g) == \A i \in 1 .. Len(b) : b[i].file = g

LEMMA AtConcat ==
    ASSUME NEW S, NEW d \in Seq(S), NEW b \in Seq(S), NEW f, NEW g, AllOf(b, g)
    PROVE  /\ f = g => Cardinality(At(d \o b, f)) = Cardinality(At(d, f)) + Len(b)
           /\ f # g => Cardinality(At(d \o b, f)) = Cardinality(At(d, f))
<1>1. Len(d) \in Nat /\ Len(b) \in Nat /\ Len(d \o b) = Len(d) + Len(b)
  BY ConcatProperties, LenProperties
<1>2. \A i \in 1 .. Len(d) : (d \o b)[i] = d[i]
  BY <1>1, ConcatProperties
<1>3. \A i \in Len(d) + 1 .. Len(d) + Len(b) : (d \o b)[i].file = g
  <2>1. ASSUME NEW i \in Len(d) + 1 .. Len(d) + Len(b) PROVE (d \o b)[i].file = g
    <3>1. i \in 1 .. Len(d) + Len(b) /\ ~(i <= Len(d)) /\ i - Len(d) \in 1 .. Len(b)
      BY <1>1
    <3>2. (d \o b)[i] = b[i - Len(d)]
      BY <3>1, ConcatProperties
    <3> QED
      BY <3>1, <3>2 DEF AllOf
  <2> QED
    BY <2>1
<1>4. CASE f # g
  <2>1. At(d \o b, f) = At(d, f)
    BY <1>1, <1>2, <1>3, <1>4 DEF At
  <2> QED
    BY <1>4, <2>1, AtIsFinite
<1>5. CASE f = g
  <2> DEFINE later == Len(d) + 1 .. Len(d) + Len(b)
  <2>1. At(d \o b, f) = At(d, f) \cup later
    BY <1>1, <1>2, <1>3, <1>5 DEF At
  <2>2. At(d, f) \cap later = {}
    BY <1>1 DEF At
  <2>3. IsFiniteSet(later) /\ Cardinality(later) = Len(b)
    BY <1>1, ShiftedInterval
  <2>4. IsFiniteSet(At(d, f)) /\ Cardinality(At(d, f)) \in Nat
    BY AtIsFinite
  <2>5. Cardinality(At(d, f) \cup later)
          = Cardinality(At(d, f)) + Cardinality(later) - Cardinality(At(d, f) \cap later)
    BY <2>3, <2>4, FS_Union
  <2>6. Cardinality(At(d, f) \cap later) = 0
    BY <2>2, FS_EmptySet
  <2> HIDE DEF later
  <2>7. Cardinality(At(d \o b, f)) = Cardinality(At(d, f)) + Len(b)
    BY <1>1, <2>1, <2>3, <2>4, <2>5, <2>6
  <2> QED
    BY <1>5, <2>7
<1> QED
  BY <1>4, <1>5

LEMMA InFileIs ==
    ASSUME TypeOK, NEW f
    PROVE  /\ InFile(f) = Cardinality(At(disk, f)) + IF m_fp = f THEN Len(buffer) ELSE 0
           /\ InFile(f) \in Nat
<1>1. disk \in Seq([file : File, line : Line]) /\ Len(buffer) \in Nat
  BY DEF TypeOK
<1>2. Cardinality(At(disk, f)) \in Nat
  BY <1>1, AtIsFinite
<1> QED
  BY <1>1, <1>2 DEF InFile, At

(* Flushing moves no line to another file, whichever is opened then. *)
LEMMA FlushCounts ==
    ASSUME TypeOK, disk' = Flushed, buffer' = <<>>
    PROVE  \A f : InFile(f)' = InFile(f)
<1> DEFINE new == [i \in 1 .. Len(buffer) |-> [file |-> m_fp, line |-> buffer[i]]]
<1>1. /\ disk \in Seq([file : File, line : Line]) /\ buffer \in Seq(Line) /\ Len(buffer) \in Nat
      /\ m_fp \in File
  BY DEF TypeOK
<1>2. new \in Seq([file : File, line : Line]) /\ Len(new) = Len(buffer)
      /\ AllOf(new, m_fp)
  BY <1>1, ElementOfSeq DEF AllOf
<1>3. disk' = disk \o new
  BY DEF Flushed
<1> SUFFICES ASSUME NEW f PROVE InFile(f)' = InFile(f)
  OBVIOUS
<1> HIDE DEF new
<1>4. /\ f = m_fp => Cardinality(At(disk \o new, f)) = Cardinality(At(disk, f)) + Len(new)
      /\ f # m_fp => Cardinality(At(disk \o new, f)) = Cardinality(At(disk, f))
  BY <1>1, <1>2, AtConcat
<1>5. InFile(f)' = Cardinality(At(disk', f)) + IF m_fp' = f THEN 0 ELSE 0
  BY DEF InFile, At
<1>6. Cardinality(At(disk, f)) \in Nat
  BY <1>1, AtIsFinite
<1> QED
  BY <1>1, <1>2, <1>3, <1>4, <1>5, <1>6, InFileIs

LEMMA FputsCounts ==
    ASSUME TypeOK, NEW x \in Line, Fputs(x)
    PROVE  \A f : InFile(f)' = InFile(f) + IF f = m_fp THEN 1 ELSE 0
<1>1. /\ buffer' = Append(buffer, x) /\ buffer \in Seq(Line) /\ UNCHANGED <<disk, m_fp>>
      /\ Len(buffer) \in Nat
  BY DEF Fputs, TypeOK
<1>2. Len(buffer') = Len(buffer) + 1
  BY <1>1
<1> SUFFICES ASSUME NEW f PROVE InFile(f)' = InFile(f) + IF f = m_fp THEN 1 ELSE 0
  OBVIOUS
<1>3. InFile(f)' = Cardinality(At(disk, f)) + IF m_fp = f THEN Len(buffer) + 1 ELSE 0
  BY <1>1, <1>2 DEF InFile, At
<1>4. Cardinality(At(disk, f)) \in Nat
  BY AtIsFinite DEF TypeOK
<1> QED
  BY <1>1, <1>3, <1>4, InFileIs
-----------------------------------------------------------------------------
(* The lines on their way. *)

LEMMA WayIsFinite ==
    /\ IsFiniteSet(OnTheirWay)
    /\ Cardinality(OnTheirWay) \in Nat
    /\ Cardinality(OnTheirWay) <= Cardinality(Writers)
    /\ Cardinality(Writers) \in Nat
<1>1. OnTheirWay \in SUBSET Writers
  BY DEF OnTheirWay
<1> QED
  BY <1>1, ConstantsAre, FS_Subset, FS_CardinalityType

(* What a writer's move does to their number. *)
LEMMA WayMoves ==
    ASSUME TypeInv, NEW t \in Writers, NEW q, Goto(t, q)
    PROVE  /\ pc'[Flusher] = pc[Flusher]
           /\ Cardinality(OnTheirWay)' \in Nat
           /\ (pc[t] \in Way <=> q \in Way) =>
                 Cardinality(OnTheirWay)' = Cardinality(OnTheirWay)
           /\ pc[t] \notin Way /\ q \in Way =>
                 Cardinality(OnTheirWay)' = Cardinality(OnTheirWay) + 1
           /\ pc[t] \in Way /\ q \notin Way =>
                 Cardinality(OnTheirWay)' = Cardinality(OnTheirWay) - 1
<1>1. /\ pc'[t] = q /\ pc'[Flusher] = pc[Flusher]
      /\ \A u \in Writers \ {t} : pc'[u] = pc[u]
  BY Apart DEF TypeInv, TypeOK, Goto
<1>2. OnTheirWay' = IF q \in Way THEN OnTheirWay \cup {t} ELSE OnTheirWay \ {t}
  BY <1>1 DEF OnTheirWay, Way
<1>3. t \in OnTheirWay <=> pc[t] \in Way
  BY DEF OnTheirWay, Way
<1>4. /\ Cardinality(OnTheirWay \cup {t})
            = IF t \in OnTheirWay THEN Cardinality(OnTheirWay) ELSE Cardinality(OnTheirWay) + 1
      /\ Cardinality(OnTheirWay \ {t})
            = IF t \in OnTheirWay THEN Cardinality(OnTheirWay) - 1 ELSE Cardinality(OnTheirWay)
      /\ IsFiniteSet(OnTheirWay \cup {t}) /\ IsFiniteSet(OnTheirWay \ {t})
  BY WayIsFinite, FS_AddElement, FS_RemoveElement
<1>5. Cardinality(OnTheirWay)'
        = IF q \in Way THEN Cardinality(OnTheirWay \cup {t}) ELSE Cardinality(OnTheirWay \ {t})
  BY <1>2
<1>6. Cardinality(OnTheirWay \cup {t}) \in Nat /\ Cardinality(OnTheirWay \ {t}) \in Nat
  BY <1>4, FS_CardinalityType
<1> QED
  BY <1>1, <1>3, <1>4, <1>5, <1>6, WayIsFinite

(* No more lines are on their way than there are places for them. *)
LEMMA InFlightBounded ==
    ASSUME Known, QueueUnused
    PROVE  InFlight \in Nat /\ Stragglers \in Int /\ InFlight <= Stragglers + 1
<1>1. m_size \in 0 .. max_queue_size /\ max_queue_size \in Nat
  BY ConstantsAre, ContentsAre DEF Known, TypeInv
<1>2. CASE m_is_async
  BY <1>1, <1>2, WayIsFinite DEF InFlight, Stragglers
<1>3. CASE ~m_is_async
  <2>1. m_size = 0 /\ pc[Flusher] = "pop"
    BY <1>3 DEF QueueUnused, Known, Synchronous
  <2> QED
    BY <1>3, <2>1, WayIsFinite DEF InFlight, Stragglers
<1> QED
  BY <1>2, <1>3

(* A file's lines after a step of a writer or of the flush thread. *)
LEMMA PartsStay ==
    ASSUME Known, NEW p \in Nat, m_fp.part <= p,
           \A i \in 1 .. Len(disk) : disk[i].file.part <= m_fp.part,
           disk' = disk \/ disk' = Flushed
    PROVE  \A i \in 1 .. Len(disk') : disk'[i].file.part <= p
<1> DEFINE new == [i \in 1 .. Len(buffer) |-> [file |-> m_fp, line |-> buffer[i]]]
<1>1. /\ disk \in Seq([file : File, line : Line]) /\ buffer \in Seq(Line) /\ m_fp \in File
      /\ Len(disk) \in Nat /\ Len(buffer) \in Nat
  BY DEF Known, TypeInv, TypeOK
<1>2. \A i \in 1 .. Len(disk) : disk[i].file.part \in Int
  <2>1. \A i \in 1 .. Len(disk) : disk[i] \in [file : File, line : Line]
    BY <1>1, ElementOfSeq
  <2> QED
    BY <2>1 DEF File
<1>3. m_fp.part \in Nat
  BY <1>1 DEF File
<1>4. \A i \in 1 .. Len(disk) : disk[i].file.part <= p
  BY <1>2, <1>3
<1>5. CASE disk' = disk
  BY <1>4, <1>5
<1>6. CASE disk' = Flushed
  <2>1. /\ disk' = disk \o new /\ new \in Seq([file : File, line : Line])
        /\ Len(new) = Len(buffer) /\ \A i \in 1 .. Len(buffer) : new[i].file.part = m_fp.part
    BY <1>1, <1>6, ElementOfSeq DEF Flushed
  <2>2. Len(disk') = Len(disk) + Len(buffer)
    BY <1>1, <2>1, ConcatProperties
  <2>3. \A i \in 1 .. Len(disk) : disk'[i] = disk[i]
    BY <1>1, <2>1, ConcatProperties
  <2>4. ASSUME NEW i \in Len(disk) + 1 .. Len(disk) + Len(buffer)
        PROVE  disk'[i].file.part = m_fp.part
    <3>1. i \in 1 .. Len(disk) + Len(buffer) /\ ~(i <= Len(disk)) /\ i - Len(disk) \in 1 .. Len(buffer)
      BY <1>1
    <3>2. disk'[i] = new[i - Len(disk)]
      BY <1>1, <2>1, <3>1, ConcatProperties
    <3> QED
      BY <2>1, <3>1, <3>2
  <2>5. ASSUME NEW i \in 1 .. Len(disk') PROVE disk'[i].file.part <= p
    <3>1. CASE i \in 1 .. Len(disk)
      BY <1>4, <2>3, <3>1
    <3>2. CASE i \in Len(disk) + 1 .. Len(disk) + Len(buffer)
      BY <2>4, <3>2
    <3> QED
      BY <1>1, <2>2, <3>1, <3>2
  <2> QED
    BY <2>5
<1> QED
  BY <1>5, <1>6
-----------------------------------------------------------------------------
(* The steps.  Most keep the file and the count. *)

LEMMA SameFile ==
    ASSUME Known, FilesInv, TypeInv',
           UNCHANGED <<day, m_is_async, m_count, m_fp>>, Clocks', QueueUnused',
           disk' = disk \/ disk' = Flushed,
           \A f : f # m_fp => InFile(f)' = InFile(f),
           \A f : f = m_fp => InFile(f)' + InFlight' <= InFile(f) + InFlight,
           InFlight' \in Nat
    PROVE  FilesInv'
<1>1. m_fp \in File /\ m_count \in Nat
  BY DEF Known, TypeInv, TypeOK
<1>2. /\ Stragglers' = Stragglers /\ Stragglers \in Int /\ InFlight \in Nat
      /\ m_split_lines \in Nat /\ m_count % m_split_lines \in 0 .. m_split_lines - 1
  BY <1>1, InFlightBounded, ConstantsAre, RemainderIs DEF FilesInv, Stragglers
<1>3. \A f : InFile(f) \in Nat /\ InFile(f)' \in Nat
  <2>1. TypeOK /\ TypeOK'
    BY DEF Known, TypeInv
  <2>2. ASSUME NEW f PROVE InFile(f) \in Nat
    BY <2>1, InFileIs
  <2>3. ASSUME NEW f PROVE InFile(f)' \in Nat
    <3>1. disk' \in Seq([file : File, line : Line]) /\ Len(buffer') \in Nat
      BY <2>1 DEF TypeOK
    <3>2. Cardinality(At(disk', f)) \in Nat
      BY <3>1, AtIsFinite
    <3> QED
      BY <3>1, <3>2 DEF InFile, At
  <2> QED
    BY <2>2, <2>3
<1>4. \A f : f = m_fp => InFile(m_fp)' = InFile(f)'
  BY DEF InFile
<1>5. ASSUME day = 1
      PROVE  /\ \A i \in 1 .. Len(disk') : disk'[i].file.part <= m_fp.part
             /\ InFile(m_fp)' + InFlight' <= (m_count % m_split_lines) + 1 + Stragglers
  <2>1. m_fp.part \in Nat /\ m_fp.part <= m_fp.part
    BY <1>1 DEF File
  <2>2. \A i \in 1 .. Len(disk') : disk'[i].file.part <= m_fp.part
    BY <1>5, <2>1, PartsStay DEF FilesInv, FirstDay
  <2>3. InFile(m_fp) + InFlight <= (m_count % m_split_lines) + 1 + Stragglers
    BY <1>5 DEF FilesInv, FirstDay
  <2>4. PICK f : f = m_fp
    OBVIOUS
  <2>5. InFile(f)' + InFlight' <= InFile(f) + InFlight /\ InFile(f) = InFile(m_fp)
    BY <2>4
  <2>6. InFile(m_fp)' = InFile(f)'
    BY <1>4, <2>4
  <2> QED
    BY <1>2, <1>3, <2>2, <2>3, <2>5, <2>6
<1>6. FirstDay'
  BY <1>2, <1>5 DEF FirstDay, FilesInv
<1>7. FilesSplit'
  <2> SUFFICES ASSUME day = 1, NEW f \in File PROVE InFile(f)' <= m_split_lines + Stragglers
    BY <1>2 DEF FilesSplit
  <2>1. CASE f = m_fp
    <3>1. InFile(f)' + InFlight' <= (m_count % m_split_lines) + 1 + Stragglers
      BY <1>4, <1>5, <2>1
    <3> QED
      BY <1>2, <1>3, <3>1
  <2>2. CASE f # m_fp
    BY <2>2 DEF FilesInv, FilesSplit
  <2> QED
    BY <2>1, <2>2
<1> QED
  BY <1>6, <1>7 DEF FilesInv

(* The step does not write: InFlight is all that could matter. *)
LEMMA FilesAlone ==
    ASSUME Known, FilesInv, TypeInv',
           UNCHANGED <<day, m_is_async, m_count, m_fp>>, Clocks', QueueUnused',
           UNCHANGED <<disk, buffer>> \/ (disk' = Flushed /\ buffer' = <<>>),
           InFlight' <= InFlight, InFlight' \in Nat
    PROVE  FilesInv'
<1>1. TypeOK
  BY DEF Known, TypeInv
<1>2. \A f : InFile(f)' = InFile(f) /\ InFile(f) \in Nat
  <2>1. CASE UNCHANGED <<disk, buffer>>
    BY <1>1, <2>1, InFileIs DEF InFile
  <2>2. CASE disk' = Flushed /\ buffer' = <<>>
    BY <1>1, <2>2, FlushCounts, InFileIs
  <2> QED
    BY <2>1, <2>2
<1>3. InFlight \in Nat
  BY InFlightBounded DEF FilesInv
<1>4. \A f : f = m_fp => InFile(f)' + InFlight' <= InFile(f) + InFlight
  <2>1. ASSUME NEW f PROVE InFile(f)' + InFlight' <= InFile(f) + InFlight
    BY <1>2, <1>3
  <2> QED
    BY <2>1
<1> QED
  BY <1>2, <1>4, SameFile

LEMMA ReadClockFiles ==
    ASSUME Known, FilesInv, TypeInv', NEW t \in Writers, ReadClock(t) PROVE FilesInv'
<1>1. /\ pc[t] = "idle" /\ Goto(t, "count") /\ my_tm' = [my_tm EXCEPT ![t] = day]
      /\ UNCHANGED <<day, m_is_async, m_count, m_today, m_fp, buffer, disk, m_size>>
  BY DEF ReadClock, files, queue
<1>2. day \in Nat /\ my_tm \in [Writers -> Day]
  BY ConstantsAre DEF Known, TypeInv, TypeOK, Day
<1>3. Clocks' /\ QueueUnused'
  BY <1>1, <1>2 DEF FilesInv, Clocks, QueueUnused
<1>4. InFlight' = InFlight /\ InFlight \in Nat
  <2>1. pc'[Flusher] = pc[Flusher] /\ Cardinality(OnTheirWay)' = Cardinality(OnTheirWay)
    BY <1>1, WayMoves DEF Known, Way
  <2> QED
    BY <1>1, <2>1, InFlightBounded DEF FilesInv, InFlight
<1>5. InFlight' <= InFlight /\ InFlight' \in Nat
  BY <1>4
<1> QED
  BY <1>1, <1>3, <1>5, FilesAlone

LEMMA ChooseFiles ==
    ASSUME Known, FilesInv, TypeInv', NEW t \in Writers, Choose(t) PROVE FilesInv'
<1>1. PICK q \in {"fputs", "push"} : Goto(t, q) /\ (Q!Full(t) \/ UNCHANGED queue)
  BY DEF Choose
<1>2. /\ pc[t] = "choose" /\ m_size' = m_size
      /\ UNCHANGED <<day, m_is_async, m_count, m_today, m_fp, buffer, disk, my_tm>>
  BY <1>1, OthersKeepContents DEF Choose, files
<1>3. Clocks' /\ QueueUnused'
  BY <1>2 DEF FilesInv, Clocks, QueueUnused
<1>4. InFlight' = InFlight /\ InFlight \in Nat
  <2>1. pc'[Flusher] = pc[Flusher] /\ Cardinality(OnTheirWay)' = Cardinality(OnTheirWay)
    BY <1>1, <1>2, WayMoves DEF Known, Way
  <2> QED
    BY <1>2, <2>1, InFlightBounded DEF FilesInv, InFlight
<1>5. InFlight' <= InFlight /\ InFlight' \in Nat
  BY <1>4
<1> QED
  BY <1>2, <1>3, <1>5, FilesAlone

LEMMA PushFiles ==
    ASSUME Known, FilesInv, TypeInv', NEW t \in Writers, Push(t) PROVE FilesInv'
<1>1. /\ pc[t] = "push" /\ Goto(t, "flush") /\ m_size' \in {m_size, m_size + 1}
      /\ UNCHANGED <<day, m_is_async, m_count, m_today, m_fp, buffer, disk, my_tm>>
  BY DEF Push, files, Q!PushAccepted, Q!PushRefused, Q!ring
<1>2. m_is_async
  BY <1>1 DEF Known, Synchronous
<1>3. Clocks' /\ QueueUnused'
  BY <1>1, <1>2 DEF FilesInv, Clocks, QueueUnused
<1>4. m_size \in Nat
  BY ContentsAre DEF Known, TypeInv
<1>5. InFlight' <= InFlight /\ InFlight' \in Nat
  <2>1. /\ pc'[Flusher] = pc[Flusher] /\ Cardinality(OnTheirWay)' \in Nat
        /\ Cardinality(OnTheirWay)' = Cardinality(OnTheirWay) - 1
    BY <1>1, WayMoves DEF Known, Way
  <2> QED
    BY <1>1, <1>4, <2>1, WayIsFinite DEF InFlight
<1> QED
  BY <1>1, <1>3, <1>5, FilesAlone

LEMMA FlushFiles ==
    ASSUME Known, FilesInv, TypeInv', NEW t \in Writers, Flush(t) PROVE FilesInv'
<1>1. /\ pc[t] = "flush" /\ Goto(t, "idle") /\ disk' = Flushed /\ buffer' = <<>>
      /\ UNCHANGED <<day, m_is_async, m_count, m_today, m_fp, my_tm, m_size>>
  BY DEF Flush, Fflush, queue
<1>2. Clocks' /\ QueueUnused'
  BY <1>1 DEF FilesInv, Clocks, QueueUnused
<1>3. InFlight' = InFlight /\ InFlight \in Nat
  <2>1. pc'[Flusher] = pc[Flusher] /\ Cardinality(OnTheirWay)' = Cardinality(OnTheirWay)
    BY <1>1, WayMoves DEF Known, Way
  <2> QED
    BY <1>1, <2>1, InFlightBounded DEF FilesInv, InFlight
<1>4. InFlight' <= InFlight /\ InFlight' \in Nat
  BY <1>3
<1> QED
  BY <1>1, <1>2, <1>4, FilesAlone

LEMMA TakeLineFiles ==
    ASSUME Known, FilesInv, TypeInv', TakeLine PROVE FilesInv'
<1>1. /\ m_is_async /\ pc[Flusher] = "pop"
      /\ UNCHANGED <<day, m_is_async, m_count, m_today, m_fp, buffer, disk, my_tm>>
  BY DEF TakeLine, files
<1>2. Clocks' /\ QueueUnused'
  BY <1>1 DEF FilesInv, Clocks, QueueUnused
<1>3. m_size \in Nat /\ InFlight \in Nat
  BY ContentsAre, InFlightBounded DEF Known, TypeInv, FilesInv
<1>4. InFlight' <= InFlight /\ InFlight' \in Nat
  <2>1. CASE Q!Pop(Flusher) /\ Goto(Flusher, "write")
    <3>1. pc'[Flusher] = "write" /\ OnTheirWay' = OnTheirWay /\ m_size' = m_size - 1
      BY <2>1, Apart DEF Goto, Known, TypeInv, TypeOK, OnTheirWay, Q!Pop
    <3> QED
      BY <1>1, <1>3, <3>1, WayIsFinite DEF InFlight
  <2>2. CASE Q!PopHangs(Flusher) /\ UNCHANGED pc
    <3>1. InFlight' = InFlight
      BY <2>2 DEF Q!PopHangs, Q!ring, InFlight, OnTheirWay
    <3> QED
      BY <1>3, <3>1
  <2> QED
    BY <2>1, <2>2 DEF TakeLine
<1> QED
  BY <1>1, <1>2, <1>4, FilesAlone

(* fputs, by a writer or by the flush thread: one line less on its way. *)
LEMMA FputsFiles ==
    ASSUME Known, FilesInv, TypeInv', NEW x \in Line, Fputs(x),
           UNCHANGED <<day, m_is_async, my_tm, m_size>>,
           InFlight' = InFlight - 1, InFlight' \in Nat
    PROVE  FilesInv'
<1>1. UNCHANGED <<m_count, m_today, m_fp, disk>>
  BY DEF Fputs
<1>2. Clocks' /\ QueueUnused'
  BY <1>1 DEF FilesInv, Clocks, QueueUnused
<1>3. TypeOK
  BY DEF Known, TypeInv
<1>4. \A f : InFile(f)' = InFile(f) + IF f = m_fp THEN 1 ELSE 0
  BY <1>3, FputsCounts
<1>5. \A f : InFile(f) \in Nat
  BY <1>3, InFileIs
<1>6. InFlight \in Nat
  BY InFlightBounded DEF FilesInv
<1>7. ASSUME NEW f PROVE /\ f # m_fp => InFile(f)' = InFile(f)
                         /\ f = m_fp => InFile(f)' + InFlight' <= InFile(f) + InFlight
  BY <1>4, <1>5, <1>6
<1> QED
  BY <1>1, <1>2, <1>7, SameFile

LEMMA WriteItselfFiles ==
    ASSUME Known, FilesInv, TypeInv', NEW t \in Writers, WriteItself(t) PROVE FilesInv'
<1>1. /\ pc[t] = "fputs" /\ Goto(t, "flush") /\ Fputs(Present(t))
      /\ UNCHANGED <<day, m_is_async, my_tm, m_size>>
  BY DEF WriteItself, queue
<1>2. Present(t) \in Line
  BY <1>1, PresentIsBegun DEF Known, TypeInv, Places, Begun
<1>3. InFlight' = InFlight - 1 /\ InFlight' \in Nat
  <2>1. /\ pc'[Flusher] = pc[Flusher] /\ Cardinality(OnTheirWay)' \in Nat
        /\ Cardinality(OnTheirWay)' = Cardinality(OnTheirWay) - 1
    BY <1>1, WayMoves DEF Known, Way
  <2>2. m_size \in Nat
    BY ContentsAre DEF Known, TypeInv
  <2> QED
    BY <1>1, <2>1, <2>2, WayIsFinite DEF InFlight
<1> QED
  BY <1>1, <1>2, <1>3, FputsFiles

LEMMA WriteTakenFiles ==
    ASSUME Known, FilesInv, TypeInv', WriteTaken PROVE FilesInv'
<1>1. /\ pc[Flusher] = "write" /\ Goto(Flusher, "pop") /\ Fputs(item[Flusher])
      /\ UNCHANGED <<day, m_is_async, my_tm, m_size>>
  BY DEF WriteTaken, queue
<1>2. item[Flusher] \in Line /\ m_size \in Nat
  BY <1>1, ContentsAre DEF Known, TypeInv, Places
<1>3. pc'[Flusher] = "pop" /\ OnTheirWay' = OnTheirWay
  BY <1>1, Apart DEF Goto, Known, TypeInv, TypeOK, OnTheirWay
<1>4. InFlight' = InFlight - 1 /\ InFlight' \in Nat
  BY <1>1, <1>2, <1>3, WayIsFinite DEF InFlight
<1> QED
  BY <1>1, <1>2, <1>4, FputsFiles

(* Counting a line, which may open a file: the new one is empty, and the   *)
(* lines on their way to it are as many as there are places for.           *)
LEMMA CountFiles ==
    ASSUME Known, FilesInv, TypeInv', NEW t \in Writers, Count(t) PROVE FilesInv'
<1>1. /\ pc[t] = "count" /\ Goto(t, "choose")
      /\ CountNewDay(my_tm[t]) \/ CountSplit(my_tm[t]) \/ CountOnly(my_tm[t])
      /\ UNCHANGED <<day, m_is_async, my_tm, m_size>>
  BY DEF Count, queue
<1>2. \/ UNCHANGED <<buffer, disk>> /\ m_fp' = m_fp
      \/ disk' = Flushed /\ buffer' = <<>>
  BY <1>1 DEF CountNewDay, CountSplit, CountOnly, Reopen
<1>3. TypeOK /\ m_fp \in File /\ m_count \in Nat /\ m_split_lines \in Nat \ {0}
  BY ConstantsAre DEF Known, TypeInv, TypeOK
<1>4. \A f : InFile(f)' = InFile(f) /\ InFile(f) \in Nat
  <2>1. CASE UNCHANGED <<buffer, disk>> /\ m_fp' = m_fp
    BY <1>3, <2>1, InFileIs DEF InFile
  <2>2. CASE disk' = Flushed /\ buffer' = <<>>
    BY <1>3, <2>2, FlushCounts, InFileIs
  <2> QED
    BY <1>2, <2>1, <2>2
<1>5. Clocks' /\ QueueUnused'
  BY <1>1 DEF FilesInv, Clocks, QueueUnused, CountNewDay, CountSplit, CountOnly
<1>6. Stragglers' = Stragglers /\ Stragglers \in Int /\ InFlight \in Nat
  BY <1>1, InFlightBounded DEF FilesInv, Stragglers
<1>7. FilesSplit'
  BY <1>1, <1>4, <1>6 DEF FilesInv, FilesSplit
<1>8. InFlight' = InFlight + 1 /\ InFlight' <= Stragglers + 1
  <2>1. /\ pc'[Flusher] = pc[Flusher] /\ Cardinality(OnTheirWay)' \in Nat
        /\ Cardinality(OnTheirWay)' = Cardinality(OnTheirWay) + 1
    BY <1>1, WayMoves DEF Known, Way
  <2>2. m_size \in 0 .. max_queue_size /\ max_queue_size \in Nat
    BY ContentsAre, ConstantsAre DEF Known, TypeInv
  <2>3. InFlight' = InFlight + 1
    BY <1>1, <2>1, <2>2, WayIsFinite DEF InFlight
  <2>4. Cardinality(OnTheirWay)' <= Cardinality(Writers)
    <3>1. OnTheirWay' \in SUBSET Writers
      BY DEF OnTheirWay
    <3>2. Cardinality(OnTheirWay') <= Cardinality(Writers)
      BY <3>1, ConstantsAre, FS_Subset
    <3> QED
      BY <3>2
  <2>5. ~m_is_async => m_size = 0 /\ pc[Flusher] = "pop"
    BY DEF FilesInv, QueueUnused, Known, Synchronous
  <2> QED
    BY <1>1, <2>1, <2>2, <2>3, <2>4, <2>5, WayIsFinite DEF InFlight, Stragglers
<1>9. ASSUME day = 1 PROVE m_today = my_tm[t]
  <2>1. m_today \in Nat \ {0} /\ my_tm[t] \in Nat \ {0}
    BY <1>3, ConstantsAre DEF TypeOK, Day
  <2> QED
    BY <1>9, <2>1 DEF FilesInv, Clocks
<1>10. ASSUME day = 1, CountSplit(my_tm[t]) PROVE FirstDay'
  <2>1. /\ disk' = Flushed /\ m_count' = m_count + 1 /\ (m_count + 1) % m_split_lines = 0
        /\ m_fp' = [day |-> my_tm[t], part |-> (m_count + 1) \div m_split_lines]
    BY <1>10 DEF CountSplit, Reopen, NewPart
  <2>2. my_tm[t] = 1
    <3>1. my_tm[t] \in Nat \ {0}
      BY <1>3, ConstantsAre DEF TypeOK, Day
    <3> QED
      BY <1>10, <3>1 DEF FilesInv, Clocks
  <2>3. m_fp = [day |-> 1, part |-> m_count \div m_split_lines]
    BY <1>10 DEF FilesInv, FirstDay
  <2>4. m_fp'.part = m_fp.part + 1 /\ m_fp.part \in Nat
    <3>1. (m_count + 1) \div m_split_lines = m_count \div m_split_lines + 1
      BY <1>3, <2>1, NextQuotient
    <3>2. m_count \div m_split_lines \in Nat
      BY <1>3, QuotientIs
    <3> QED
      BY <2>1, <2>3, <3>1, <3>2
  <2>5. \A i \in 1 .. Len(disk') : disk'[i].file.part <= m_fp'.part
    <3>1. m_fp.part + 1 \in Nat /\ m_fp.part <= m_fp.part + 1
      BY <2>4
    <3>2. \A i \in 1 .. Len(disk') : disk'[i].file.part <= m_fp.part + 1
      BY <1>10, <2>1, <3>1, PartsStay DEF FilesInv, FirstDay
    <3> QED
      BY <2>4, <3>2
  <2>6. InFile(m_fp)' = 0
    <3>1. PICK g : g = m_fp'
      OBVIOUS
    <3>2. InFile(m_fp)' = InFile(g)'
      BY <3>1 DEF InFile
    <3>3. At(disk, g) = {}
      <4>1. ASSUME NEW i \in 1 .. Len(disk), disk[i].file = g PROVE FALSE
        <5>1. disk[i].file.part <= m_fp.part
          BY <1>10 DEF FilesInv, FirstDay
        <5>2. disk[i].file.part = m_fp.part + 1
          BY <2>4, <3>1, <4>1
        <5> QED
          BY <2>4, <5>1, <5>2
      <4> QED
        BY <4>1 DEF At
    <3>4. g # m_fp
      BY <2>4, <3>1
    <3>5. InFile(g) = 0
      <4>1. Cardinality(At(disk, g)) = 0
        BY <3>3, FS_EmptySet
      <4> QED
        BY <1>3, <3>4, <4>1, InFileIs
    <3> QED
      BY <1>4, <3>2, <3>5
  <2>7. m_count' % m_split_lines = 0
    BY <2>1
  <2> QED
    BY <1>6, <1>8, <2>1, <2>2, <2>5, <2>6, <2>7 DEF FirstDay
<1>11. ASSUME day = 1, CountOnly(my_tm[t]) PROVE FirstDay'
  <2>1. /\ m_count' = m_count + 1 /\ (m_count + 1) % m_split_lines # 0
        /\ UNCHANGED <<m_fp, buffer, disk>>
    BY <1>11 DEF CountOnly, NewPart
  <2>2. /\ (m_count + 1) \div m_split_lines = m_count \div m_split_lines
        /\ (m_count + 1) % m_split_lines = (m_count % m_split_lines) + 1
        /\ m_count % m_split_lines \in Nat
    <3>1. m_count % m_split_lines \in 0 .. m_split_lines - 1
      BY <1>3, RemainderIs
    <3>2. \A k \in 0 .. m_split_lines - 1 : k \in Nat
      BY <1>3
    <3>3. IF (m_count + 1) % m_split_lines = 0
          THEN (m_count + 1) \div m_split_lines = m_count \div m_split_lines + 1
          ELSE /\ (m_count + 1) \div m_split_lines = m_count \div m_split_lines
               /\ (m_count + 1) % m_split_lines = (m_count % m_split_lines) + 1
      BY <1>3, NextQuotient
    <3> QED
      BY <2>1, <3>1, <3>2, <3>3
  <2>3. InFile(m_fp)' = InFile(m_fp) /\ InFile(m_fp) \in Nat
    <3>1. InFile(m_fp)' = InFile(m_fp)
      BY <2>1 DEF InFile
    <3> QED
      BY <1>4, <3>1
  <2>4. /\ m_fp = [day |-> 1, part |-> m_count \div m_split_lines]
        /\ \A i \in 1 .. Len(disk) : disk[i].file.part <= m_fp.part
        /\ InFile(m_fp) + InFlight <= (m_count % m_split_lines) + 1 + Stragglers
    BY <1>11 DEF FilesInv, FirstDay
  <2>5. InFile(m_fp)' + InFlight' <= (m_count' % m_split_lines) + 1 + Stragglers'
    BY <1>6, <1>8, <2>1, <2>2, <2>3, <2>4
  <2> QED
    BY <2>1, <2>2, <2>4, <2>5 DEF FirstDay
<1>12. FirstDay'
  <2>1. ~(m_today # my_tm[t]) => ~CountNewDay(my_tm[t])
    BY DEF CountNewDay
  <2>2. day # 1 => FirstDay'
    BY <1>1 DEF FirstDay
  <2> QED
    BY <1>1, <1>9, <1>10, <1>11, <2>1, <2>2
<1> QED
  BY <1>5, <1>7, <1>12 DEF FilesInv

LEMMA MidnightFiles ==
    ASSUME Known, FilesInv, Midnight PROVE FilesInv'
<1>1. day \in Nat \ {0} /\ m_today \in Nat /\ my_tm \in [Writers -> Nat]
  BY ConstantsAre DEF Known, TypeInv, TypeOK, Day
<1>2. day' = day + 1 /\ UNCHANGED <<m_is_async, m_today, my_tm, m_size>>
  BY DEF Midnight, files, queue
<1>3. Clocks' /\ QueueUnused'
  BY <1>1, <1>2 DEF FilesInv, Clocks, QueueUnused
<1>4. day' # 1
  BY <1>1, <1>2
<1> QED
  BY <1>3, <1>4 DEF FilesInv, FirstDay, FilesSplit

LEMMA StutterFiles ==
    ASSUME FilesInv, UNCHANGED vars PROVE FilesInv'
<1>1. UNCHANGED <<day, m_is_async, m_count, m_today, m_fp, buffer, disk, pc, my_tm, m_size>>
  BY DEF vars, files, queue
<1>2. Clocks' /\ QueueUnused' /\ FirstDay' /\ FilesSplit'
  BY <1>1 DEF FilesInv, Clocks, QueueUnused, FirstDay, FilesSplit, InFile, InFlight, OnTheirWay,
              Stragglers
<1> QED
  BY <1>2 DEF FilesInv

LEMMA InitFiles == Init => FilesInv
<1> SUFFICES ASSUME Init PROVE FilesInv
  OBVIOUS
<1>1. /\ m_split_lines \in Nat \ {0} /\ max_queue_size \in Nat /\ Cardinality(Writers) \in Nat
  BY ConstantsAre, WayIsFinite
<1>2. Clocks /\ QueueUnused /\ m_size = 0
  BY DEF Init, Q!Init, Clocks, QueueUnused
<1>3. \A f : InFile(f) = 0
  <2>1. \A f : At(disk, f) = {} /\ buffer = <<>>
    BY DEF Init, At
  <2>2. \A f : Cardinality(At(disk, f)) = 0
    BY <2>1, FS_EmptySet
  <2> QED
    BY <2>1, <2>2, InitTypes, InFileIs DEF TypeInv
<1>4. InFlight = 0
  <2>1. OnTheirWay = {} /\ pc[Flusher] = "pop"
    BY Apart DEF Init, OnTheirWay, Way
  <2>2. Cardinality(OnTheirWay) = 0
    BY <2>1, FS_EmptySet
  <2> QED
    BY <1>2, <2>1, <2>2 DEF InFlight
<1>5. FirstDay
  <2>1. 0 \div m_split_lines = 0 /\ 0 % m_split_lines = 0
    BY <1>1
  <2>2. 0 <= 1 + Stragglers
    BY <1>1 DEF Stragglers
  <2> QED
    BY <1>3, <1>4, <2>1, <2>2 DEF Init, FirstDay
<1>6. FilesSplit
  <2>1. 0 <= m_split_lines + Stragglers
    BY <1>1 DEF Stragglers
  <2> QED
    BY <1>3, <2>1 DEF FilesSplit
<1> QED
  BY <1>2, <1>5, <1>6 DEF FilesInv

LEMMA FilesKept ==
    ASSUME Known, FilesInv, TypeInv', [Next]_vars PROVE FilesInv'
<1>1. ASSUME NEW t \in Writers, Write(t) PROVE FilesInv'
  BY <1>1, ReadClockFiles, CountFiles, ChooseFiles, PushFiles, WriteItselfFiles, FlushFiles
     DEF Write
<1> QED
  BY <1>1, TakeLineFiles, WriteTakenFiles, MidnightFiles, StutterFiles DEF Next

LEMMA FilesInvariance == Spec => []FilesInv
<1>1. Init => FilesInv
  BY InitFiles
<1>2. TypeInv /\ TypeInv' /\ IInv /\ FilesInv /\ [Next]_vars => FilesInv'
  BY FilesKept DEF Known, IInv
<1> QED
  BY <1>1, <1>2, TypeInvariance, Invariance, PTL DEF Spec

(* Within a day a file gets at most m_split_lines lines and one for each   *)
(* other thread that had counted its line when the file was opened; in     *)
(* asynchronous mode, also what the queue and the flush thread held        *)
(* (log.cpp:110-165).                                                      *)
THEOREM FilesAreSplit == Spec => []FilesSplit
<1>1. FilesInv => FilesSplit
  BY DEF FilesInv
<1> QED
  BY <1>1, FilesInvariance, PTL
=============================================================================
