-------------------------------- MODULE Ring --------------------------------
(***************************************************************************)
(* one/arcus/internal/ring.h: Ring<T>, an array used circularly.  `last'   *)
(* indexes the oldest value not yet popped, `next' the slot the next push  *)
(* writes (the code's comment on _next says "most recent pushed item").    *)
(*                                                                         *)
(* `Spec' is the class as its users drive it: every push of Connection is  *)
(* preceded by the check size() == capacity() (connection.cpp 83 and 507)  *)
(* and returns without pushing when it holds.                              *)
(***************************************************************************)
EXTENDS Naturals, Sequences

CONSTANTS
  Value,     (* the T of Ring<T>                                         *)
  Capacity,  (* the constructor's argument                               *)
  None       (* a slot or a result that no push has written yet          *)

ASSUME CapacityAssumption == Capacity \in Nat \ {0}   \* ring.h:16
ASSUME NoneAssumption == None \notin Value

VARIABLES
  buffer,    (* _buffer: array of Capacity slots                         *)
  size,      (* _size                                                    *)
  last,      (* _last                                                    *)
  next,      (* _next                                                    *)
  popped     (* what the last pop() returned a reference to              *)

vars == <<buffer, size, last, next, popped>>

Slots == 0 .. Capacity - 1

(* An index that wraps one slot too late. *)
SuccLate(i) == IF i + 1 > Capacity THEN 0 ELSE i + 1

\* The index after i, as both push and pop compute it: increment, then wrap.
Succ(i) == IF i + 1 >= Capacity THEN 0 ELSE i + 1

Init ==
  /\ buffer = [i \in Slots |-> None]
  /\ size = 0
  /\ last = 0
  /\ next = 0
  /\ popped = None

(***************************************************************************)
(* push(): writes the slot, advances next, and grows size up to the        *)
(* capacity.  On a full ring it overwrites slot `next' (= last) and leaves *)
(* `last' where it is.                                                     *)
(***************************************************************************)
Push(v) ==
  /\ buffer' = [buffer EXCEPT ![next] = v]
  /\ next' = Succ(next)
  /\ size' = IF size < Capacity THEN size + 1 ELSE size
  /\ UNCHANGED <<last, popped>>

\* pop(): asserts size > 0 and returns a reference to the slot it leaves.
Pop ==
  /\ size > 0
  /\ last' = Succ(last)
  /\ size' = size - 1
  /\ popped' = buffer[last]
  /\ UNCHANGED <<buffer, next>>

\* clear(): forgets the contents; the slots keep their values.
Clear ==
  /\ next' = 0
  /\ last' = 0
  /\ size' = 0
  /\ UNCHANGED <<buffer, popped>>

(* A caller that pushes without looking at the size. *)
UncheckedPush(v) == Push(v)

\* A push by Connection, behind its size() == capacity() check.
GuardedPush(v) ==
  /\ size # Capacity
  /\ Push(v)

Next ==
  \/ \E v \in Value : GuardedPush(v)
  \/ Pop
  \/ Clear

Spec == Init /\ [][Next]_vars

-----------------------------------------------------------------------------
\* The slot that holds the i-th oldest value, i = 0 being the oldest.
SlotAt(i) == IF last + i >= Capacity THEN last + i - Capacity ELSE last + i

\* The contents, oldest first: the abstract queue this ring stands for.
Contents == [i \in 1 .. size |-> buffer[SlotAt(i - 1)]]

(***************************************************************************)
(* Type invariant of the five fields (ring.h 71-77): the indices stay      *)
(* inside the array whatever the order of push, pop and clear.             *)
(***************************************************************************)
TypeOK ==
  /\ buffer \in [Slots -> Value \cup {None}]
  /\ size \in 0 .. Capacity
  /\ last \in Slots
  /\ next \in Slots
  /\ popped \in Value \cup {None}

(***************************************************************************)
(* The redundant fields agree (ring.h 71-77): counting `size' slots from   *)
(* the oldest one ends at the slot the next push writes, and each of them  *)
(* holds a pushed value, so that no pop returns a slot nobody wrote.       *)
(***************************************************************************)
IndexInv ==
  /\ next = SlotAt(size)
  /\ \A i \in 1 .. size : Contents[i] \in Value

Inv == TypeOK /\ IndexInv

(***************************************************************************)
(* The ring implements the bounded FIFO (ring.h 10 "FIFO ring buffer with  *)
(* a fixed capacity", 57 "Pops the oldest pushed value"): under the        *)
(* callers' check every operation is the abstract one on `Contents'.       *)
(***************************************************************************)
Fifo == INSTANCE BoundedFifo WITH queue <- Contents

ImplementsFifo == Fifo!Spec
=============================================================================
