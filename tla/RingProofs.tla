----------------------------- MODULE RingProofs -----------------------------
(***************************************************************************)
(* Ring (ring.h) for every capacity and every set of values: its fields    *)
(* stay consistent, and behind the callers' size check it implements the   *)
(* bounded FIFO.  `Inv' of Ring is inductive as it stands.                 *)
(***************************************************************************)
EXTENDS Ring, SequenceTheorems, TLAPS

USE CapacityAssumption

-----------------------------------------------------------------------------
(***************************************************************************)
(* The slot arithmetic of push and pop, with the wrap as ring.h writes it. *)
(***************************************************************************)
LEMMA SuccInSlots ==
  ASSUME NEW i \in Slots
  PROVE  Succ(i) \in Slots
BY DEF Succ, Slots

(***************************************************************************)
(* Distinct positions of the contents are distinct slots: no push behind   *)
(* the size check overwrites a value that is still queued.                 *)
(***************************************************************************)
LEMMA SlotAtInjective ==
  ASSUME last \in Slots, NEW i \in 0 .. Capacity - 1, NEW j \in 0 .. Capacity - 1,
         SlotAt(i) = SlotAt(j)
  PROVE  i = j
BY DEF SlotAt, Slots

LEMMA SlotAtInSlots ==
  ASSUME last \in Slots, NEW i \in 0 .. Capacity
  PROVE  SlotAt(i) \in Slots
BY DEF SlotAt, Slots

-----------------------------------------------------------------------------
(***************************************************************************)
(* What each operation does to the contents.                               *)
(***************************************************************************)
LEMMA PushContents ==
  ASSUME Inv, NEW v \in Value, GuardedPush(v)
  PROVE  Inv' /\ Contents' = Append(Contents, v)
<1> USE DEF Inv, TypeOK
<1>1. size \in 0 .. Capacity - 1 /\ size' = size + 1 /\ last' = last
  BY DEF GuardedPush, Push
<1>2. next = SlotAt(size) /\ next \in Slots
  BY DEF IndexInv
<1>3. buffer' = [buffer EXCEPT ![next] = v] /\ popped' = popped
  BY DEF GuardedPush, Push
<1>4. next' = Succ(next)
  BY DEF GuardedPush, Push
<1>5. \A i : SlotAt(i)' = SlotAt(i)
  BY <1>1 DEF SlotAt
<1>6. TypeOK'
  BY <1>1, <1>2, <1>3, <1>4, SuccInSlots
<1>7. next' = SlotAt(size)'
  BY <1>1, <1>2, <1>4 DEF SlotAt, Succ, Slots
<1>8. \A i \in 1 .. size : buffer'[SlotAt(i - 1)] = buffer[SlotAt(i - 1)]
  <2> TAKE i \in 1 .. size
  <2>1. i - 1 \in 0 .. Capacity - 1 /\ i - 1 # size
    BY <1>1
  <2>2. SlotAt(i - 1) # next /\ SlotAt(i - 1) \in Slots
    BY <1>1, <1>2, <2>1, SlotAtInjective, SlotAtInSlots
  <2> QED
    BY <1>3, <2>2
<1>9. buffer'[SlotAt(size)] = v
  BY <1>2, <1>3
<1>10. Contents' = [i \in 1 .. size + 1 |-> buffer'[SlotAt(i - 1)]]
  BY <1>1, <1>5 DEF Contents
<1>11. Contents \in Seq(Value) /\ Len(Contents) = size
  <2>1. \A i \in 1 .. size : Contents[i] \in Value
    BY DEF IndexInv
  <2> QED
    BY <1>1, <2>1 DEF Contents
<1>12. Contents' = Append(Contents, v)
  <2>1. \A i \in 1 .. size + 1 :
          buffer'[SlotAt(i - 1)] = IF i <= size THEN Contents[i] ELSE v
    <3> TAKE i \in 1 .. size + 1
    <3>1. CASE i <= size
      BY <1>1, <1>8, <3>1 DEF Contents
    <3>2. CASE i = size + 1
      <4>1. i - 1 = size
        BY <1>1, <3>2
      <4> QED
        BY <1>1, <1>9, <3>2, <4>1
    <3> QED
      BY <1>1, <3>1, <3>2
  <2> DEFINE New == [i \in 1 .. size + 1 |-> buffer'[SlotAt(i - 1)]]
  <2>2. New \in Seq(Value) /\ Len(New) = size + 1
    <3>1. \A i \in 1 .. size + 1 : (IF i <= size THEN Contents[i] ELSE v) \in Value
      BY <1>1, <1>11
    <3>2. \A i \in 1 .. size + 1 : buffer'[SlotAt(i - 1)] \in Value
      BY <2>1, <3>1
    <3> QED
      BY <1>1, <3>2
  <2>3. /\ Append(Contents, v) \in Seq(Value)
        /\ Len(Append(Contents, v)) = size + 1
        /\ \A i \in 1 .. size + 1 :
              Append(Contents, v)[i] = IF i <= size THEN Contents[i] ELSE v
    BY <1>1, <1>11, AppendProperties
  <2>4. \A i \in 1 .. size + 1 : New[i] = Append(Contents, v)[i]
    BY <2>1, <2>3
  <2>5. New = Append(Contents, v)
    BY <2>2, <2>3, <2>4, SeqEqual
  <2> QED
    BY <1>10, <2>5
<1>13. \A i \in 1 .. size' : Contents[i]' \in Value
  BY <1>1, <1>11, <1>12
<1> QED
  BY <1>6, <1>7, <1>12, <1>13 DEF IndexInv

LEMMA PopContents ==
  ASSUME Inv, Pop
  PROVE  /\ Inv'
         /\ Contents # <<>>
         /\ popped' = Head(Contents)
         /\ Contents' = Tail(Contents)
<1> USE DEF Inv, TypeOK
<1>1. size \in 1 .. Capacity /\ size' = size - 1 /\ buffer' = buffer
  BY DEF Pop
<1>2. last' = Succ(last) /\ next' = next /\ popped' = buffer[last]
  BY DEF Pop
<1>3. \A i \in 0 .. size - 1 : SlotAt(i)' = SlotAt(i + 1)
  BY <1>1, <1>2 DEF SlotAt, Succ, Slots
<1>4. Contents \in Seq(Value) /\ Len(Contents) = size
  <2>1. \A i \in 1 .. size : Contents[i] \in Value
    BY DEF IndexInv
  <2> QED
    BY <1>1, <2>1 DEF Contents
<1>5. Contents # <<>> /\ Head(Contents) = Contents[1]
  BY <1>1, <1>4
<1>6. Contents[1] = buffer[last]
  BY <1>1 DEF Contents, SlotAt, Slots
<1>7. popped' = Head(Contents) /\ popped' \in Value
  BY <1>1, <1>2, <1>5, <1>6 DEF IndexInv
<1>8. Contents' = Tail(Contents)
  <2> DEFINE New == [i \in 1 .. size - 1 |-> Contents[i + 1]]
  <2>1. Contents' = New
    <3>1. \A i \in 1 .. size - 1 : buffer'[SlotAt(i - 1)'] = Contents[i + 1]
      <4> TAKE i \in 1 .. size - 1
      <4>1. SlotAt(i - 1)' = SlotAt(i)
        BY <1>1, <1>3
      <4>2. Contents[i + 1] = buffer[SlotAt(i)]
        BY <1>1 DEF Contents
      <4> QED
        BY <1>1, <4>1, <4>2
    <3>2. Contents' = [i \in 1 .. size - 1 |-> buffer'[SlotAt(i - 1)']]
      BY <1>1 DEF Contents
    <3> QED
      BY <3>1, <3>2
  <2>2. New \in Seq(Value) /\ Len(New) = size - 1
    BY <1>1, <1>4
  <2>3. /\ Tail(Contents) \in Seq(Value)
        /\ Len(Tail(Contents)) = size - 1
        /\ \A i \in 1 .. size - 1 : Tail(Contents)[i] = Contents[i + 1]
    BY <1>1, <1>4, <1>5, HeadTailProperties
  <2>4. New = Tail(Contents)
    BY <2>2, <2>3, SeqEqual
  <2> QED
    BY <2>1, <2>4
<1>9. TypeOK'
  BY <1>1, <1>2, <1>7, SuccInSlots
<1>10. next' = SlotAt(size)'
  <2>1. next = SlotAt(size)
    BY DEF IndexInv
  <2> QED
    BY <1>1, <1>2, <2>1 DEF SlotAt, Succ, Slots
<1>11. \A i \in 1 .. size' : Contents'[i] \in Value
  BY <1>1, <1>4, <1>5, <1>8, HeadTailProperties
<1> QED
  BY <1>5, <1>7, <1>8, <1>9, <1>10, <1>11 DEF IndexInv

LEMMA ClearContents ==
  ASSUME Inv, Clear
  PROVE  Inv' /\ Contents' = <<>>
BY DEF Inv, TypeOK, IndexInv, Clear, Contents, SlotAt, Slots

-----------------------------------------------------------------------------
LEMMA InitInv == Init => Inv /\ Contents = <<>>
BY DEF Init, Inv, TypeOK, IndexInv, Contents, SlotAt, Slots

LEMMA StepInv == Inv /\ [Next]_vars => Inv'
<1> SUFFICES ASSUME Inv, [Next]_vars PROVE Inv'
  OBVIOUS
<1>1. ASSUME NEW v \in Value, GuardedPush(v) PROVE Inv'
  BY <1>1, PushContents
<1>2. CASE Pop
  BY <1>2, PopContents
<1>3. CASE Clear
  BY <1>3, ClearContents
<1>4. CASE UNCHANGED vars
  BY <1>4 DEF vars, Inv, TypeOK, IndexInv, Contents, SlotAt
<1> QED
  BY <1>1, <1>2, <1>3, <1>4 DEF Next

(***************************************************************************)
(* The indices of the ring (ring.h 71-77) stay inside the array and agree  *)
(* with the size, whatever the capacity and the order of the operations:   *)
(* the type invariant and IndexInv that MCRing checks at capacity 3.       *)
(***************************************************************************)
THEOREM RingInvariant == Spec => [](TypeOK /\ IndexInv)
<1>1. Init => Inv
  BY InitInv
<1>2. Inv => TypeOK /\ IndexInv
  BY DEF Inv
<1> QED
  BY <1>1, <1>2, StepInv, PTL DEF Spec

(***************************************************************************)
(* The fields of ring.h 71-77 keep their ranges for every capacity.        *)
(***************************************************************************)
THEOREM RingTypeCorrect == Spec => []TypeOK
BY RingInvariant, PTL

(***************************************************************************)
(* ring.h 10: the class is a "FIFO ring buffer with a fixed capacity".     *)
(* Behind the size check of Connection (connection.cpp 83, 507), every     *)
(* push, pop and clear of the ring is the one of the bounded FIFO on its   *)
(* contents, for every capacity.                                           *)
(***************************************************************************)
THEOREM RingImplementsFifo == Spec => ImplementsFifo
<1>1. Init => Fifo!Init
  BY InitInv DEF Init, Fifo!Init
<1>2. Inv /\ [Next]_vars => [Fifo!Next]_(Fifo!vars)
  <2> SUFFICES ASSUME Inv, [Next]_vars PROVE [Fifo!Next]_(Fifo!vars)
    OBVIOUS
  <2>1. ASSUME NEW v \in Value, GuardedPush(v) PROVE Fifo!Push(v)
    <3>1. Contents' = Append(Contents, v) /\ popped' = popped
      BY <2>1, PushContents DEF GuardedPush, Push
    <3>2. Len(Contents) < Capacity
      <4>1. Contents = [i \in 1 .. size |-> buffer[SlotAt(i - 1)]] /\ size \in Nat
        BY DEF Contents, Inv, TypeOK
      <4>2. Len(Contents) = size
        BY <4>1
      <4> QED
        BY <2>1, <4>2 DEF GuardedPush, Inv, TypeOK
    <3> QED
      BY <3>1, <3>2 DEF Fifo!Push
  <2>2. CASE Pop
    BY <2>2, PopContents DEF Fifo!Next, Fifo!Pop
  <2>3. CASE Clear
    BY <2>3, ClearContents DEF Fifo!Next, Fifo!Clear, Clear
  <2>4. CASE UNCHANGED vars
    BY <2>4 DEF vars, Fifo!vars, Contents, SlotAt
  <2> QED
    BY <2>1, <2>2, <2>3, <2>4 DEF Next, Fifo!Next
<1>3. Init => Inv
  BY InitInv
<1> QED
  BY <1>1, <1>2, <1>3, StepInv, PTL DEF Spec, ImplementsFifo, Fifo!Spec
=============================================================================
