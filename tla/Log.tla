--------------------------------- MODULE Log ---------------------------------
(***************************************************************************)
(* The log: every thread formats a line and either writes it to m_fp       *)
(* itself or, in asynchronous mode, hands it to a flush thread through a   *)
(* BlockQueue; LOG_INFO and its kin then flush m_fp.  write_log reads the  *)
(* date first, then takes m_mutex three times: to count the line and open  *)
(* another file if need be, to format in m_buf, and to write.  Between     *)
(* these sections other threads run.                                       *)
(*                                                                         *)
(* A step is one critical section, of m_mutex or of the queue; nothing     *)
(* blocks while it holds m_mutex, so that mutex needs no variable.  The    *)
(* second section overwrites m_buf and copies it: it is part of Choose.    *)
(***************************************************************************)
EXTENDS Integers, Sequences, FiniteSets, Functions

CONSTANTS
    Writers,         (* the server's threads                              *)
    Flusher,         (* flush_log_thread                                  *)
    Nobody, NoLine,
    m_split_lines,
    max_queue_size,  (* of the queue, when there is one                   *)
    MaxLines,        (* bound: lines written by all                       *)
    MaxDay           (* bound: days                                       *)

ASSUME LogAssumption ==
    /\ IsFiniteSet(Writers)
    /\ Flusher \notin Writers
    /\ Nobody \notin Writers \cup {Flusher}
    /\ {m_split_lines, max_queue_size, MaxLines, MaxDay} \subseteq Nat \ {0}

Day  == 1 .. MaxDay
Line == [by : Writers, n : 1 .. MaxLines]
File == [day : Day, part : 0 .. MaxLines]

VARIABLES
    day,         (* the clock                                             *)
    m_is_async, m_count, m_today,
    m_fp,        (* the file that is open                                 *)
    buffer,      (* its stdio buffer                                      *)
    disk,        (* lines written to files, oldest first                  *)
    pc,          (* where each thread is                                  *)
    lines,       (* how many lines each writer has begun                  *)
    my_tm,       (* the day each writer read for its present line         *)
    refused,     (* lines that push() refused: they are gone              *)
    m_locker, m_array, m_size, m_front, m_back, item, ok  (* m_log_queue  *)

Thread == Writers \cup {Flusher}

Q == INSTANCE BlockQueue WITH
    Threads <- Thread, Items <- Line, NoItem <- NoLine,
    m_max_size <- max_queue_size, value <- [t \in Thread |-> NoLine]

queue == <<m_locker, m_array, m_size, m_front, m_back, item, ok>>
files == <<m_count, m_today, m_fp, buffer, disk>>
vars  == <<day, m_is_async, files, pc, lines, my_tm, refused, queue>>

LogPC == {"idle", "count", "choose", "push", "fputs", "flush", "pop", "write"}

Goto(t, p) == pc' = [pc EXCEPT ![t] = p]

(* The lines whose writing has begun. *)
Begun == {x \in Line : x.n <= lines[x.by]}

(* The line writer t is writing. *)
Present(t) == [by |-> t, n |-> lines[t]]

(* Log::init: today's file is open, and the flush thread runs if asked for. *)
Init ==
    /\ day = 1
    /\ m_is_async \in BOOLEAN
    /\ m_count = 0
    /\ m_today = 1
    /\ m_fp = [day |-> 1, part |-> 0]
    /\ buffer = <<>>
    /\ disk = <<>>
    /\ pc = [t \in Thread |-> IF t = Flusher THEN "pop" ELSE "idle"]
    /\ lines = [t \in Writers |-> 0]
    /\ my_tm = [t \in Writers |-> 1]
    /\ refused = {}
    /\ Q!Init
-----------------------------------------------------------------------------
(* The files. *)

(* What is in the buffer, each line with the file it goes to. *)
Flushed == disk \o [i \in 1 .. Len(buffer) |-> [file |-> m_fp, line |-> buffer[i]]]

Fputs(x) ==
    /\ buffer' = Append(buffer, x)
    /\ UNCHANGED <<m_count, m_today, m_fp, disk>>

Fflush ==
    /\ disk' = Flushed
    /\ buffer' = <<>>
    /\ UNCHANGED <<m_count, m_today, m_fp>>

(* Mutant: fopen without fflush and fclose; what was buffered is forgotten. *)
ReopenOnly(f) ==
    /\ buffer' = <<>>
    /\ m_fp' = f
    /\ UNCHANGED disk

(* fflush, fclose, fopen. *)
Reopen(f) ==
    /\ disk' = Flushed
    /\ buffer' = <<>>
    /\ m_fp' = f

(* Mutant: == for %. *)
NewPartOnce == m_count + 1 = m_split_lines

(* m_count % m_split_lines == 0, after the increment. *)
NewPart == (m_count + 1) % m_split_lines = 0

(* The first section of write_log, for a line of day d. *)
CountNewDay(d) ==
    /\ m_today # d
    /\ Reopen([day |-> d, part |-> 0])
    /\ m_today' = d
    /\ m_count' = 0

CountSplit(d) ==
    /\ m_today = d
    /\ NewPart
    /\ Reopen([day |-> d, part |-> (m_count + 1) \div m_split_lines])
    /\ m_count' = m_count + 1
    /\ UNCHANGED m_today

CountOnly(d) ==
    /\ m_today = d
    /\ ~NewPart
    /\ m_count' = m_count + 1
    /\ UNCHANGED <<m_today, m_fp, buffer, disk>>
-----------------------------------------------------------------------------
(* A writer: LOG_INFO(...), which is write_log() and flush(). *)

ReadClock(t) ==
    /\ pc[t] = "idle"
    /\ Cardinality(Begun) < MaxLines
    /\ lines' = [lines EXCEPT ![t] = @ + 1]
    /\ my_tm' = [my_tm EXCEPT ![t] = day]
    /\ Goto(t, "count")
    /\ UNCHANGED <<day, m_is_async, files, refused, queue>>

Count(t) ==
    /\ pc[t] = "count"
    /\ CountNewDay(my_tm[t]) \/ CountSplit(my_tm[t]) \/ CountOnly(my_tm[t])
    /\ Goto(t, "choose")
    /\ UNCHANGED <<day, m_is_async, lines, my_tm, refused, queue>>

(* m_is_async && !m_log_queue->full(). *)
Choose(t) ==
    /\ pc[t] = "choose"
    /\ \/ ~m_is_async /\ Goto(t, "fputs") /\ UNCHANGED queue
       \/ m_is_async /\ Q!Full(t) /\ Goto(t, IF ok'[t].is THEN "fputs" ELSE "push")
    /\ UNCHANGED <<day, m_is_async, files, lines, my_tm, refused>>

(* push(), whose answer nobody looks at. *)
Push(t) ==
    /\ pc[t] = "push"
    /\ \/ Q!PushAccepted(t, Present(t)) /\ UNCHANGED refused
       \/ Q!PushRefused(t) /\ refused' = refused \cup {Present(t)}
    /\ Goto(t, "flush")
    /\ UNCHANGED <<day, m_is_async, files, lines, my_tm>>

WriteItself(t) ==
    /\ pc[t] = "fputs"
    /\ Fputs(Present(t))
    /\ Goto(t, "flush")
    /\ UNCHANGED <<day, m_is_async, lines, my_tm, refused, queue>>

(* Mutant: a synchronous log is thought to need no flush. *)
FlushAsyncOnly(t) ==
    /\ pc[t] = "flush"
    /\ IF m_is_async THEN Fflush ELSE UNCHANGED files
    /\ Goto(t, "idle")
    /\ UNCHANGED <<day, m_is_async, lines, my_tm, refused, queue>>

Flush(t) ==
    /\ pc[t] = "flush"
    /\ Fflush
    /\ Goto(t, "idle")
    /\ UNCHANGED <<day, m_is_async, lines, my_tm, refused, queue>>

Write(t) ==
    ReadClock(t) \/ Count(t) \/ Choose(t) \/ Push(t) \/ WriteItself(t) \/ Flush(t)
-----------------------------------------------------------------------------
(* The flush thread, async_write_log. *)

TakeLine ==
    /\ m_is_async
    /\ pc[Flusher] = "pop"
    /\ \/ Q!Pop(Flusher) /\ Goto(Flusher, "write")
       \/ Q!PopHangs(Flusher) /\ UNCHANGED pc
    /\ UNCHANGED <<day, m_is_async, files, lines, my_tm, refused>>

WriteTaken ==
    /\ pc[Flusher] = "write"
    /\ Fputs(item[Flusher])
    /\ Goto(Flusher, "pop")
    /\ UNCHANGED <<day, m_is_async, lines, my_tm, refused, queue>>

Midnight ==
    /\ day < MaxDay
    /\ day' = day + 1
    /\ UNCHANGED <<m_is_async, files, pc, lines, my_tm, refused, queue>>

Next == (\E t \in Writers : Write(t)) \/ TakeLine \/ WriteTaken \/ Midnight

Spec == Init /\ [][Next]_vars

(* Every thread is scheduled; a writer that is in write_log goes on, but   *)
(* need not begin another line.                                            *)
Fairness ==
    /\ \A t \in Writers : WF_vars(pc[t] # "idle" /\ Write(t))
    /\ WF_vars(TakeLine)
    /\ WF_vars(WriteTaken)

FairSpec == Spec /\ Fairness
-----------------------------------------------------------------------------
TypeOK ==
    /\ day \in Day
    /\ m_is_async \in BOOLEAN
    /\ m_count \in Nat
    /\ m_today \in Day
    /\ m_fp \in File
    /\ buffer \in Seq(Line)
    /\ disk \in Seq([file : File, line : Line])
    /\ pc \in [Thread -> LogPC]
    /\ lines \in [Writers -> 0 .. MaxLines]
    /\ my_tm \in [Writers -> Day]
    /\ refused \subseteq Line
    /\ Q!TypeOK

(* Every line in a file, in the buffer of the open one, in the queue or in *)
(* the flush thread's hands.                                               *)
Kept ==
    [i \in 1 .. Len(disk) |-> disk[i].line] \o buffer \o Q!Contents
        \o IF pc[Flusher] = "write" THEN <<item[Flusher]>> ELSE <<>>

(* Lines whose writer has got past handing them on. *)
HandedOn ==
    {x \in Begun : x.n = lines[x.by] => pc[x.by] \in {"flush", "idle"}}

(* A line is in exactly one place once its writer has handed it on, unless *)
(* push() refused it, and before that it is nowhere, whatever rotation,    *)
(* full queue or flush comes between (log.cpp:106-165).                    *)
OncePerLine ==
    /\ Cardinality(Range(Kept)) = Len(Kept)
    /\ Range(Kept) \cap refused = {}
    /\ Range(Kept) \cup refused = HandedOn

(* In synchronous mode a line is in a file when LOG_INFO returns, even if  *)
(* another thread opened another file between fputs and flush.             *)
OnDiskOnReturn ==
    ~m_is_async => \A t \in Writers :
        pc[t] = "idle" /\ lines[t] > 0 =>
            \E i \in 1 .. Len(disk) : disk[i].line = Present(t)

(* Within a day, a file gets at most m_split_lines lines and one for each  *)
(* other thread that had counted its line when the file was opened; in     *)
(* asynchronous mode, also what the queue and the flush thread held.       *)
Stragglers ==
    Cardinality(Writers) - 1 + IF m_is_async THEN max_queue_size + 1 ELSE 0

InFile(f) ==
    Cardinality({i \in 1 .. Len(disk) : disk[i].file = f})
        + IF m_fp = f THEN Len(buffer) ELSE 0

FilesSplit ==
    day = 1 => \A f \in File : InFile(f) <= m_split_lines + Stragglers

(* Only a flush thread that found the queue empty keeps the queue's mutex: *)
(* when the log hangs, every line that was accepted is out of the queue    *)
(* (block_queue.h:163-169, locker.h:97-103).                               *)
HangsEmpty ==
    m_locker # Nobody => m_locker = Flusher /\ m_size = 0 /\ pc[Flusher] = "pop"

(* "If it is a new day or there are more than the maximum of lines, make a *)
(* new log file" (log.cpp:109): no file of an earlier day is opened again. *)
OnlyNewDays == [][m_fp'.day >= m_fp.day]_vars

(* An asynchronous log records the server's state (README.md:7): a thread  *)
(* that logs gets out of it.                                               *)
LoggingReturns ==
    \A t \in Writers : pc[t] = "count" ~> pc[t] = "idle"
=============================================================================
