------------------------------ MODULE DataBuffer ------------------------------
(***************************************************************************)
(* DataBuffer: a RingBuffer of frames per (camera, type).  Every operation *)
(* holds the buffer's mutex from its first access to its last, so each is  *)
(* one step; the rings' own mutexes add nothing.                           *)
(***************************************************************************)
EXTENDS RingIndex, Sequences

CONSTANTS
  Cameras, Types,
  Frames,      \* the DataBundles pushed
  NoFrame,     \* a null shared_ptr
  NoSlot,      \* no entry in slots_
  MaxFrames,   \* max_frames_per_slot_
  Capacity,    \* capacity_ of every ring
  MaxWrites    \* bound on a ring's write_idx_, for TLC

Keys == Cameras \X Types

\* The constructor rounds the depth up; 2^31 frames is out of the question.
NextPowerOfTwo(v) ==
  CHOOSE p \in {2 ^ i : i \in 0 .. 30} :
    /\ p >= v
    /\ \A q \in {2 ^ i : i \in 0 .. 30} : q >= v => p <= q

ASSUME BufferAssumption ==
  /\ Capacity \in Nat \ {0}
  /\ MaxWrites \in Nat
  /\ NoFrame \notin Frames

ASSUME CapacityAssumption == Capacity = NextPowerOfTwo(MaxFrames)

VARIABLE slots  \* slots_: the ring of each key, or NoSlot

Rings == [write : Nat, read : Nat, ring : [0 .. Capacity - 1 -> Frames \union {NoFrame}]]

ASSUME NoSlotAssumption == NoSlot \notin Rings /\ NoSlot \notin Seq(Frames)

NewRing == [write |-> 0, read |-> 0, ring |-> [i \in 0 .. Capacity - 1 |-> NoFrame]]

Init == slots = [k \in Keys |-> NoSlot]
-----------------------------------------------------------------------------
(* RingBuffer                                                              *)

EvictUnguarded(write, read) == write - Capacity  \* mutant

EvictLate(write, read) ==  \* mutant
  IF write - read > Capacity + 1 THEN write - Capacity - 1 ELSE read

\* The oldest frame is given up when the write position gets ahead of it by
\* more than the capacity.
Evict(write, read) == IF write - read > Capacity THEN write - Capacity ELSE read

RingPush(r, f) ==
  [write |-> r.write + 1,
   read  |-> Evict(r.write + 1, r.read),
   ring  |-> [r.ring EXCEPT ![Cell(r.write, Capacity)] = f]]

RingSize(r) == r.write - r.read

RingGetLatestAtWrite(r) ==  \* mutant
  IF r.write = r.read THEN NoFrame ELSE r.ring[Cell(r.write, Capacity)]

RingGetLatest(r) ==
  IF r.write = r.read THEN NoFrame ELSE r.ring[Cell(r.write - 1, Capacity)]

RingGetLatestN(r, count) ==
  LET n == IF count <= RingSize(r) THEN count ELSE RingSize(r)
  IN  [i \in 1 .. n |-> r.ring[Cell(r.write - (n + 1 - i), Capacity)]]

RingClear(r) == NewRing
-----------------------------------------------------------------------------
(* DataBuffer                                                              *)

\* A push creates the slot it needs, so a frame that arrives after
\* remove_slot brings the slot back.
SlotFor(k) == IF slots[k] = NoSlot THEN NewRing ELSE slots[k]

Push(k, f) ==
  /\ SlotFor(k).write < MaxWrites
  /\ slots' = [slots EXCEPT ![k] = RingPush(SlotFor(k), f)]

\* An existing slot keeps its frames.
CreateSlot(k) ==
  /\ slots[k] = NoSlot
  /\ slots' = [slots EXCEPT ![k] = NewRing]

RemoveSlot(k) ==
  /\ slots[k] # NoSlot
  /\ slots' = [slots EXCEPT ![k] = NoSlot]

RemoveAllSlots(camera) ==
  slots' = [k \in Keys |-> IF k[1] = camera THEN NoSlot ELSE slots[k]]

ClearSlot(k) ==
  /\ slots[k] # NoSlot
  /\ slots' = [slots EXCEPT ![k] = RingClear(slots[k])]

Clear == slots' = [k \in Keys |-> NoSlot]

GetLatest(k) == IF slots[k] = NoSlot THEN NoFrame ELSE RingGetLatest(slots[k])

GetLatestN(k, count) == IF slots[k] = NoSlot THEN <<>> ELSE RingGetLatestN(slots[k], count)

SlotSize(k) == IF slots[k] = NoSlot THEN 0 ELSE RingSize(slots[k])

ActiveSlots == {k \in Keys : slots[k] # NoSlot}

Next ==
  \/ \E k \in Keys, f \in Frames : Push(k, f)
  \/ \E k \in Keys : CreateSlot(k) \/ RemoveSlot(k) \/ ClearSlot(k)
  \/ \E camera \in Cameras : RemoveAllSlots(camera)
  \/ Clear

Spec == Init /\ [][Next]_slots
-----------------------------------------------------------------------------
(* Properties                                                              *)

\* Every key has a ring of the right size or none, with positions that never
\* go below zero, where they would wrap around.
TypeOK == slots \in [Keys -> Rings \union {NoSlot}]

\* The positions of a ring are never further apart than its capacity, and all
\* between them is a frame: a reader is never given a null or evicted frame.
RingOK(r) ==
  /\ r.read <= r.write
  /\ r.write - r.read <= Capacity
  /\ \A pos \in r.read .. r.write - 1 : r.ring[Cell(pos, Capacity)] \in Frames

RingsOK == \A k \in ActiveSlots : RingOK(slots[k])

\* What every operation preserves.
IndInv == TypeOK /\ RingsOK

RecentOf(r) == [i \in 1 .. r.write - r.read |-> r.ring[Cell(r.read + i - 1, Capacity)]]

Recent == [k \in Keys |-> IF slots[k] = NoSlot THEN NoSlot ELSE RecentOf(slots[k])]

Abstract == INSTANCE LatestFrames WITH recent <- Recent, Depth <- Capacity

\* The rings behave as sequences of the last Capacity frames: overwriting the
\* oldest cell drops exactly the oldest frame, and slots do not disturb each
\* other.
ImplementsLatestFrames == Abstract!Spec

\* What the readers return are the newest frames of that sequence, in the
\* order they were pushed.
ReadersSeeNewest ==
  \A k \in ActiveSlots :
    LET held == RecentOf(slots[k])
        size == SlotSize(k)
    IN  /\ GetLatest(k) = IF size = 0 THEN NoFrame ELSE held[size]
        /\ \A count \in 0 .. Capacity + 1 :
             LET n == IF count <= size THEN count ELSE size
             IN  GetLatestN(k, count) = [i \in 1 .. n |-> held[size - n + i]]
==============================================================================
