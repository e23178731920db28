----------------------------- MODULE BoundedQueue -----------------------------
(***************************************************************************)
(* What a blocking queue promises the threads that share it, with nothing  *)
(* of the ring it is kept in: first in, first out, never more than its     *)
(* capacity, and answers that are true when they are given.                *)
(***************************************************************************)
EXTENDS Naturals, Sequences

CONSTANTS
    Threads,    (* the threads that share the queue                       *)
    Items,      (* what is queued                                         *)
    NoItem,     (* a T nothing was assigned to                            *)
    Capacity

VARIABLES
    queue,  (* oldest first                                               *)
    item,   (* what pop last gave each thread                             *)
    ok      (* the answer each thread last got, and from which method     *)

vars == <<queue, item, ok>>

Answer(t, m, b) == ok' = [ok EXCEPT ![t] = [of |-> m, is |-> b]]

Init ==
    /\ queue = <<>>
    /\ item = [t \in Threads |-> NoItem]
    /\ ok = [t \in Threads |-> [of |-> "none", is |-> FALSE]]

Accept(t, x) ==
    /\ Len(queue) < Capacity
    /\ queue' = Append(queue, x)
    /\ Answer(t, "push", TRUE)
    /\ UNCHANGED item

Refuse(t) ==
    /\ Len(queue) = Capacity
    /\ Answer(t, "push", FALSE)
    /\ UNCHANGED <<queue, item>>

Take(t) ==
    /\ queue # <<>>
    /\ item' = [item EXCEPT ![t] = Head(queue)]
    /\ queue' = Tail(queue)
    /\ Answer(t, "pop", TRUE)

AskFull(t) ==
    /\ Answer(t, "full", Len(queue) = Capacity)
    /\ UNCHANGED <<queue, item>>

AskEmpty(t) ==
    /\ Answer(t, "empty", queue = <<>>)
    /\ UNCHANGED <<queue, item>>

(* front() and back(): whether there is one. *)
Peek(t) ==
    /\ \E m \in {"front", "back"} : Answer(t, m, queue # <<>>)
    /\ UNCHANGED <<queue, item>>

(* pop() with a timeout promises nothing. *)
TimedPop(t) ==
    /\ \E b \in BOOLEAN : Answer(t, "timed", b)
    /\ UNCHANGED <<queue, item>>

Clear ==
    /\ queue' = <<>>
    /\ UNCHANGED <<item, ok>>

Next ==
    \/ \E t \in Threads :
          \/ \E x \in Items : Accept(t, x)
          \/ Refuse(t) \/ Take(t) \/ AskFull(t) \/ AskEmpty(t) \/ Peek(t)
          \/ TimedPop(t)
    \/ Clear

Spec == Init /\ [][Next]_vars
=============================================================================
