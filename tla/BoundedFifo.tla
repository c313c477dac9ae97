---------------------------- MODULE BoundedFifo ----------------------------
(***************************************************************************)
(* What the message queues of one/arcus promise their user: a bounded      *)
(* first-in first-out queue.  `Ring' (one/arcus/internal/ring.h) is shown  *)
(* to implement it, and `Connection' uses it as its incoming and outgoing  *)
(* message queues.                                                         *)
(***************************************************************************)
EXTENDS Naturals, Sequences

CONSTANTS
  Value,     (* what a queue can hold (Message in the code)              *)
  Capacity,  (* the number of slots                                      *)
  None       (* the value of `popped' before the first pop               *)

VARIABLES
  queue,     (* the values pushed and not yet popped, oldest first       *)
  popped     (* the value the last pop returned                          *)

vars == <<queue, popped>>

Init ==
  /\ queue = <<>>
  /\ popped = None

Push(v) ==
  /\ Len(queue) < Capacity
  /\ queue' = Append(queue, v)
  /\ UNCHANGED popped

Pop ==
  /\ queue # <<>>
  /\ popped' = Head(queue)
  /\ queue' = Tail(queue)

Clear ==
  /\ queue' = <<>>
  /\ UNCHANGED popped

Next ==
  \/ \E v \in Value : Push(v)
  \/ Pop
  \/ Clear

Spec == Init /\ [][Next]_vars
=============================================================================
