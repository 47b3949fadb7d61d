--------------------------- MODULE DataBufferProofs ---------------------------
(***************************************************************************)
(* The properties of DataBuffer for every depth, set of cameras, types and *)
(* frames: the rings stay within their capacity, a reader only ever gets   *)
(* frames, and every operation is one of LatestFrames or changes nothing.  *)
(***************************************************************************)
EXTENDS DataBuffer

LEMMA NewRingOK == NewRing \in Rings /\ RingOK(NewRing)
BY BufferAssumption DEF NewRing, Rings, RingOK

\* The cell a push fills holds no frame but the one the push evicts.
LEMMA OthersKeepTheirCell ==
  ASSUME NEW r \in Rings, RingOK(r),
         NEW pos \in r.read .. r.write - 1, r.write - pos < Capacity
  PROVE  Cell(pos, Capacity) # Cell(r.write, Capacity)
<1>1. pos \in Int /\ r.write \in Int /\ pos < r.write
  BY DEF Rings
<1> QED BY <1>1, CellsDistinct, BufferAssumption

\* What a push does to the cells between the positions.
LEMMA RingPushCells ==
  ASSUME NEW r \in Rings, RingOK(r), NEW f \in Frames
  PROVE  LET p == RingPush(r, f) IN
         /\ p \in Rings
         /\ p.write = r.write + 1
         /\ p.read = IF r.write - r.read = Capacity THEN r.read + 1 ELSE r.read
         /\ p.ring[Cell(r.write, Capacity)] = f
         /\ \A pos \in p.read .. r.write - 1 :
              p.ring[Cell(pos, Capacity)] = r.ring[Cell(pos, Capacity)]
<1> DEFINE p == RingPush(r, f)
<1>1. r.write \in Nat /\ r.read \in Nat /\ r.read <= r.write /\ r.write - r.read <= Capacity
  BY DEF Rings, RingOK
<1>2. Cell(r.write, Capacity) \in 0 .. Capacity - 1
  BY <1>1, CellInRange, BufferAssumption
<1>3. p.write = r.write + 1 /\ p.ring = [r.ring EXCEPT ![Cell(r.write, Capacity)] = f]
  BY DEF RingPush
<1>4. p.read = IF r.write - r.read = Capacity THEN r.read + 1 ELSE r.read
  BY <1>1, BufferAssumption DEF RingPush, Evict
<1>5. p \in Rings
  BY <1>1, <1>2, BufferAssumption DEF RingPush, Evict, Rings
<1>6. p.ring[Cell(r.write, Capacity)] = f
  BY <1>2, <1>3 DEF Rings
<1>7. ASSUME NEW pos \in p.read .. r.write - 1
      PROVE  p.ring[Cell(pos, Capacity)] = r.ring[Cell(pos, Capacity)]
  <2> HIDE DEF p
  <2>1. pos \in r.read .. r.write - 1 /\ r.write - pos < Capacity
    BY <1>1, <1>4, BufferAssumption
  <2>2. Cell(pos, Capacity) # Cell(r.write, Capacity)
    BY <2>1, OthersKeepTheirCell
  <2> QED BY <1>3, <2>2 DEF Rings
<1> QED BY <1>3, <1>4, <1>5, <1>6, <1>7

\* A push leaves a ring whose positions are at most a capacity apart and
\* whose cells between them hold frames.
LEMMA RingPushOK ==
  ASSUME NEW r \in Rings, RingOK(r), NEW f \in Frames
  PROVE  RingPush(r, f) \in Rings /\ RingOK(RingPush(r, f))
<1> DEFINE p == RingPush(r, f)
<1>1. r.write \in Nat /\ r.read \in Nat /\ r.read <= r.write /\ r.write - r.read <= Capacity
  BY DEF Rings, RingOK
<1>2. /\ p \in Rings
      /\ p.write = r.write + 1
      /\ p.read = IF r.write - r.read = Capacity THEN r.read + 1 ELSE r.read
      /\ p.ring[Cell(r.write, Capacity)] = f
      /\ \A pos \in p.read .. r.write - 1 :
           p.ring[Cell(pos, Capacity)] = r.ring[Cell(pos, Capacity)]
  BY RingPushCells
<1> HIDE DEF p
<1>3. p.read <= p.write /\ p.write - p.read <= Capacity
  BY <1>1, <1>2, BufferAssumption
<1>4. ASSUME NEW pos \in p.read .. p.write - 1
      PROVE  p.ring[Cell(pos, Capacity)] \in Frames
  <2>1. CASE pos = r.write
    BY <1>2, <2>1
  <2>2. CASE pos \in p.read .. r.write - 1
    <3>1. pos \in r.read .. r.write - 1
      BY <1>1, <1>2, <2>2
    <3> QED BY <1>2, <2>2, <3>1 DEF RingOK
  <2> QED BY <1>1, <1>2, <2>1, <2>2
<1>5. RingOK(p)
  BY <1>3, <1>4 DEF RingOK
<1> QED BY <1>2, <1>5 DEF p

LEMMA SlotForOK ==
  ASSUME IndInv, NEW k \in Keys
  PROVE  SlotFor(k) \in Rings /\ RingOK(SlotFor(k))
BY NewRingOK DEF IndInv, TypeOK, RingsOK, SlotFor, ActiveSlots
-----------------------------------------------------------------------------
(* IndInv is inductive                                                     *)

LEMMA InitIndInv == Init => IndInv
BY DEF Init, IndInv, TypeOK, RingsOK, ActiveSlots

\* Setting a key to a good ring or to none keeps the invariant.
LEMMA SetKeyIndInv ==
  ASSUME IndInv, NEW k \in Keys, NEW r,
         r = NoSlot \/ (r \in Rings /\ RingOK(r)),
         slots' = [slots EXCEPT ![k] = r]
  PROVE  IndInv'
<1>1. TypeOK'
  BY DEF IndInv, TypeOK
<1>2. ASSUME NEW j \in Keys, slots'[j] # NoSlot
      PROVE  RingOK(slots'[j])
  <2>1. CASE j = k
    BY <1>2, <2>1 DEF IndInv, TypeOK
  <2>2. CASE j # k
    BY <1>2, <2>2 DEF IndInv, TypeOK, RingsOK, ActiveSlots
  <2> QED BY <2>1, <2>2
<1> QED BY <1>1, <1>2 DEF IndInv, RingsOK, ActiveSlots

LEMMA NextIndInv ==
  ASSUME IndInv, [Next]_slots
  PROVE  IndInv'
<1>1. ASSUME NEW k \in Keys, NEW f \in Frames, Push(k, f)
      PROVE  IndInv'
  <2>1. RingPush(SlotFor(k), f) \in Rings /\ RingOK(RingPush(SlotFor(k), f))
    BY SlotForOK, RingPushOK
  <2> QED BY <1>1, <2>1, SetKeyIndInv DEF Push
<1>2. ASSUME NEW k \in Keys, CreateSlot(k)
      PROVE  IndInv'
  BY <1>2, NewRingOK, SetKeyIndInv DEF CreateSlot
<1>3. ASSUME NEW k \in Keys, RemoveSlot(k)
      PROVE  IndInv'
  BY <1>3, SetKeyIndInv DEF RemoveSlot
<1>4. ASSUME NEW k \in Keys, ClearSlot(k)
      PROVE  IndInv'
  BY <1>4, NewRingOK, SetKeyIndInv DEF ClearSlot, RingClear
<1>5. ASSUME NEW camera \in Cameras, RemoveAllSlots(camera)
      PROVE  IndInv'
  BY <1>5 DEF RemoveAllSlots, IndInv, TypeOK, RingsOK, ActiveSlots
<1>6. CASE Clear
  BY <1>6 DEF Clear, IndInv, TypeOK, RingsOK, ActiveSlots
<1>7. CASE UNCHANGED slots
  BY <1>7 DEF IndInv, TypeOK, RingsOK, ActiveSlots
<1> QED BY <1>1, <1>2, <1>3, <1>4, <1>5, <1>6, <1>7 DEF Next

\* The invariant below holds in every reachable state.
THEOREM IndInvHolds == Spec => []IndInv
BY InitIndInv, NextIndInv, PTL DEF Spec

\* No position of a ring ever wraps around.
THEOREM TypeCorrect == Spec => []TypeOK
BY IndInvHolds, PTL DEF IndInv

\* A ring never spans more than its capacity and holds only frames.
THEOREM RingsStayInBounds == Spec => []RingsOK
BY IndInvHolds, PTL DEF IndInv

\* Both readers count back from the write position; the abstract sequence counts
\* from the read position.  They meet in the same cells.
THEOREM ReadersCorrect == Spec => []ReadersSeeNewest
<1>1. ASSUME IndInv, NEW k \in ActiveSlots, NEW count \in 0 .. Capacity + 1
      PROVE  LET held == RecentOf(slots[k])
                 size == SlotSize(k)
                 n    == IF count <= size THEN count ELSE size
             IN  /\ GetLatest(k) = IF size = 0 THEN NoFrame ELSE held[size]
                 /\ GetLatestN(k, count) = [i \in 1 .. n |-> held[size - n + i]]
  <2> DEFINE r == slots[k]
             size == r.write - r.read
             n == IF count <= size THEN count ELSE size
             held == RecentOf(r)
  <2>1. r \in Rings /\ RingOK(r) /\ k \in Keys /\ r # NoSlot
    BY <1>1 DEF IndInv, TypeOK, RingsOK, ActiveSlots
  <2> HIDE DEF r
  <2>2. r.write \in Nat /\ r.read \in Nat /\ size \in Nat /\ count \in Nat /\ n \in 0 .. size
    BY <2>1, BufferAssumption DEF Rings, RingOK
  <2>3. ASSUME NEW i \in 1 .. size
        PROVE  held[i] = r.ring[Cell(r.read + i - 1, Capacity)]
    BY DEF RecentOf
  <2> HIDE DEF held, n
  <2>4. ASSUME size # 0
        PROVE  r.ring[Cell(r.write - 1, Capacity)] = held[size]
    <3>1. size \in 1 .. size /\ r.read + size - 1 = r.write - 1
      BY <2>2, <2>4
    <3> QED BY <2>3, <3>1
  <2>5. ASSUME NEW i \in 1 .. n
        PROVE  r.ring[Cell(r.write - (n + 1 - i), Capacity)] = held[size - n + i]
    <3>1. size - n + i \in 1 .. size
      BY <2>2
    <3>2. r.read + (size - n + i) - 1 = r.write - (n + 1 - i)
      BY <2>2
    <3> QED BY <2>3, <3>1, <3>2
  <2>6. SlotSize(k) = size
    BY <2>1 DEF SlotSize, RingSize, r
  <2>7. GetLatest(k) = IF size = 0 THEN NoFrame ELSE held[size]
    <3>1. r.write = r.read <=> size = 0
      BY <2>2
    <3>2. GetLatest(k) = IF r.write = r.read THEN NoFrame ELSE r.ring[Cell(r.write - 1, Capacity)]
      BY <2>1 DEF GetLatest, RingGetLatest, r
    <3> QED BY <2>4, <3>1, <3>2
  <2>8. GetLatestN(k, count) = [i \in 1 .. n |-> held[size - n + i]]
    <3>1. GetLatestN(k, count) = [i \in 1 .. n |-> r.ring[Cell(r.write - (n + 1 - i), Capacity)]]
      BY <2>1 DEF GetLatestN, RingGetLatestN, RingSize, n, r
    <3> QED BY <2>5, <3>1
  <2> QED BY <2>6, <2>7, <2>8 DEF held, n, r
<1>2. IndInv => ReadersSeeNewest
  <2> SUFFICES ASSUME IndInv PROVE ReadersSeeNewest
    OBVIOUS
  <2>1. 0 \in 0 .. Capacity + 1
    BY BufferAssumption
  <2> QED BY <1>1, <2>1 DEF ReadersSeeNewest
<1> QED BY <1>2, IndInvHolds, PTL
-----------------------------------------------------------------------------
(* Refinement                                                              *)

\* The frames of a good ring are a sequence, as long as the positions are apart.
LEMMA RecentShape ==
  ASSUME NEW r \in Rings, RingOK(r)
  PROVE  RecentOf(r) \in Seq(Frames) /\ Len(RecentOf(r)) = r.write - r.read
<1>1. r.write \in Nat /\ r.read \in Nat /\ r.write - r.read \in Nat
  BY DEF Rings, RingOK
<1>2. ASSUME NEW i \in 1 .. r.write - r.read
      PROVE  r.ring[Cell(r.read + i - 1, Capacity)] \in Frames
  <2>1. r.read + i - 1 \in r.read .. r.write - 1
    BY <1>1
  <2> QED BY <2>1 DEF RingOK
<1> QED BY <1>1, <1>2 DEF RecentOf

LEMMA NewRingIsEmpty == RecentOf(NewRing) = <<>>
<1>1. 1 .. NewRing.write - NewRing.read = {}
  BY DEF NewRing
<1> QED BY <1>1 DEF RecentOf

\* While there is room a push appends.
LEMMA PushAppends ==
  ASSUME NEW r \in Rings, RingOK(r), NEW f \in Frames, r.write - r.read < Capacity
  PROVE  RecentOf(RingPush(r, f)) = Append(RecentOf(r), f)
<1> DEFINE p == RingPush(r, f)
           s == RecentOf(r)
<1>1. r.write \in Nat /\ r.read \in Nat /\ r.read <= r.write
  BY DEF Rings, RingOK
<1>2. /\ p.write = r.write + 1
      /\ p.read = r.read
      /\ p.ring[Cell(r.write, Capacity)] = f
      /\ \A pos \in r.read .. r.write - 1 :
           p.ring[Cell(pos, Capacity)] = r.ring[Cell(pos, Capacity)]
  BY <1>1, RingPushCells, BufferAssumption
<1>3. s \in Seq(Frames) /\ Len(s) = r.write - r.read
  BY RecentShape
<1>4. RecentOf(p) = [i \in 1 .. r.write - r.read + 1 |-> p.ring[Cell(r.read + i - 1, Capacity)]]
  <2>1. p.write - p.read = r.write - r.read + 1
    BY <1>1, <1>2
  <2> HIDE DEF p
  <2> QED BY <1>2, <2>1 DEF RecentOf
<1>5. ASSUME NEW i \in 1 .. r.write - r.read
      PROVE  s[i] = r.ring[Cell(r.read + i - 1, Capacity)]
  BY DEF RecentOf
<1> HIDE DEF p, s
<1>6. Append(s, f) = [i \in 1 .. Len(s) + 1 |-> IF i <= Len(s) THEN s[i] ELSE f]
  BY <1>3, AppendShape
<1>7. ASSUME NEW i \in 1 .. r.write - r.read + 1
      PROVE  p.ring[Cell(r.read + i - 1, Capacity)] = IF i <= Len(s) THEN s[i] ELSE f
  <2>1. CASE i <= r.write - r.read
    <3>1. r.read + i - 1 \in r.read .. r.write - 1 /\ i \in 1 .. r.write - r.read
      BY <1>1, <2>1
    <3> QED BY <1>2, <1>3, <1>5, <2>1, <3>1
  <2>2. CASE i = r.write - r.read + 1
    <3>1. r.read + i - 1 = r.write /\ ~(i <= Len(s))
      BY <1>1, <1>3, <2>2
    <3> QED BY <1>2, <3>1
  <2> QED BY <1>1, <2>1, <2>2
<1>8. RecentOf(p) = Append(s, f)
  BY <1>3, <1>4, <1>6, <1>7
<1> QED BY <1>8 DEF p, s

\* A push to a full ring drops exactly its oldest frame.
LEMMA PushEvicts ==
  ASSUME NEW r \in Rings, RingOK(r), NEW f \in Frames, r.write - r.read = Capacity
  PROVE  RecentOf(RingPush(r, f)) = Append(Tail(RecentOf(r)), f)
<1> DEFINE p == RingPush(r, f)
           s == RecentOf(r)
           t == Tail(s)
<1>1. r.write \in Nat /\ r.read \in Nat /\ r.read <= r.write /\ Capacity \in Nat \ {0}
  BY BufferAssumption DEF Rings, RingOK
<1>2. /\ p.write = r.write + 1
      /\ p.read = r.read + 1
      /\ p.ring[Cell(r.write, Capacity)] = f
      /\ \A pos \in r.read + 1 .. r.write - 1 :
           p.ring[Cell(pos, Capacity)] = r.ring[Cell(pos, Capacity)]
  BY <1>1, RingPushCells
<1>3. s \in Seq(Frames) /\ Len(s) = Capacity
  BY RecentShape
<1>4. RecentOf(p) = [i \in 1 .. Capacity |-> p.ring[Cell(r.read + 1 + i - 1, Capacity)]]
  <2>1. p.write - p.read = Capacity
    BY <1>1, <1>2
  <2> HIDE DEF p
  <2> QED BY <1>2, <2>1 DEF RecentOf
<1>5. ASSUME NEW i \in 1 .. Capacity
      PROVE  s[i] = r.ring[Cell(r.read + i - 1, Capacity)]
  BY DEF RecentOf
<1> HIDE DEF p, s
<1>6. s # <<>>
  BY <1>1, <1>3
<1>7. t \in Seq(Frames) /\ Len(t) = Capacity - 1
  BY <1>1, <1>3, <1>6, HeadTailProperties
<1>8. ASSUME NEW i \in 1 .. Capacity - 1
      PROVE  t[i] = s[i + 1]
  BY <1>3, <1>6, TailShape
<1> HIDE DEF t
<1>9. Append(t, f) = [i \in 1 .. Len(t) + 1 |-> IF i <= Len(t) THEN t[i] ELSE f]
  BY <1>7, AppendShape
<1>10. ASSUME NEW i \in 1 .. Capacity
       PROVE  p.ring[Cell(r.read + 1 + i - 1, Capacity)] = IF i <= Len(t) THEN t[i] ELSE f
  <2>1. CASE i <= Capacity - 1
    <3>1. /\ i \in 1 .. Capacity - 1 /\ i + 1 \in 1 .. Capacity
          /\ r.read + 1 + i - 1 = r.read + (i + 1) - 1
          /\ r.read + 1 + i - 1 \in r.read + 1 .. r.write - 1
      BY <1>1, <2>1
    <3>2. t[i] = r.ring[Cell(r.read + 1 + i - 1, Capacity)]
      BY <1>5, <1>8, <3>1
    <3> QED BY <1>2, <1>7, <2>1, <3>1, <3>2
  <2>2. CASE i = Capacity
    <3>1. r.read + 1 + i - 1 = r.write /\ ~(i <= Len(t))
      BY <1>1, <1>7, <2>2
    <3> QED BY <1>2, <3>1
  <2> QED BY <1>1, <2>1, <2>2
<1>11. Len(t) + 1 = Capacity
  BY <1>1, <1>7
<1>12. RecentOf(p) = Append(t, f)
  BY <1>4, <1>9, <1>10, <1>11
<1> QED BY <1>12 DEF p, s, t

\* A slot's sequence is never mistaken for the absence of a slot.
LEMMA RecentIsHeld ==
  ASSUME IndInv, NEW k \in Keys
  PROVE  /\ Recent[k] = NoSlot <=> slots[k] = NoSlot
         /\ Abstract!Held(k) = RecentOf(SlotFor(k))
<1>1. CASE slots[k] = NoSlot
  BY <1>1, NewRingIsEmpty DEF Recent, Abstract!Held, SlotFor
<1>2. CASE slots[k] # NoSlot
  <2>1. slots[k] \in Rings /\ RingOK(slots[k])
    BY <1>2 DEF IndInv, TypeOK, RingsOK, ActiveSlots
  <2>2. RecentOf(slots[k]) # NoSlot
    BY <2>1, RecentShape, NoSlotAssumption
  <2> QED BY <1>2, <2>2 DEF Recent, Abstract!Held, SlotFor
<1> QED BY <1>1, <1>2

LEMMA SetKeyRecent ==
  ASSUME IndInv, NEW k \in Keys, NEW r, slots' = [slots EXCEPT ![k] = r]
  PROVE  Recent' = [Recent EXCEPT ![k] = IF r = NoSlot THEN NoSlot ELSE RecentOf(r)]
BY DEF Recent, IndInv, TypeOK

LEMMA PushRefines ==
  ASSUME IndInv, NEW k \in Keys, NEW f \in Frames, Push(k, f)
  PROVE  Abstract!Push(k, f)
<1> DEFINE r == SlotFor(k)
           p == RingPush(r, f)
<1>1. r \in Rings /\ RingOK(r) /\ p \in Rings
  BY SlotForOK, RingPushOK
<1>2. p # NoSlot
  BY <1>1, NoSlotAssumption
<1>3. Recent' = [Recent EXCEPT ![k] = RecentOf(p)]
  BY <1>2, SetKeyRecent DEF Push
<1>4. Abstract!Held(k) = RecentOf(r) /\ Len(RecentOf(r)) = r.write - r.read
  BY <1>1, RecentIsHeld, RecentShape
<1>5. r.write \in Nat /\ r.read \in Nat /\ r.write - r.read <= Capacity
  BY <1>1 DEF Rings, RingOK
<1>6. RecentOf(p) = IF Len(RecentOf(r)) = Capacity
                    THEN Append(Tail(RecentOf(r)), f) ELSE Append(RecentOf(r), f)
  <2> HIDE DEF r
  <2>1. CASE r.write - r.read = Capacity
    BY <1>1, <1>4, <2>1, PushEvicts
  <2>2. CASE r.write - r.read < Capacity
    BY <1>1, <1>4, <2>2, PushAppends, BufferAssumption
  <2> QED BY <1>5, <2>1, <2>2, BufferAssumption
<1> HIDE DEF r, p
<1> QED BY <1>3, <1>4, <1>6 DEF Abstract!Push

\* Creating, clearing and removing slots is resetting them in the abstraction.
LEMMA ResetRefines ==
  ASSUME IndInv, NEW S \in SUBSET Keys,
         slots' = [k \in Keys |-> IF k \in S THEN NoSlot ELSE slots[k]]
  PROVE  Abstract!Remove(S)
BY DEF Recent, Abstract!Remove, Abstract!Reset

LEMMA EmptyRefines ==
  ASSUME IndInv, NEW k \in Keys, slots' = [slots EXCEPT ![k] = NewRing]
  PROVE  Abstract!Reset({k}, <<>>)
<1>1. NewRing # NoSlot
  BY NewRingOK, NoSlotAssumption
<1>2. Recent' = [Recent EXCEPT ![k] = <<>>]
  BY <1>1, NewRingIsEmpty, SetKeyRecent
<1> QED BY <1>2 DEF Abstract!Reset, Recent

LEMMA StepRefines ==
  ASSUME IndInv, [Next]_slots
  PROVE  [Abstract!Next]_Recent
<1>1. ASSUME NEW k \in Keys, NEW f \in Frames, Push(k, f)
      PROVE  Abstract!Next
  BY <1>1, PushRefines DEF Abstract!Next
<1>2. ASSUME NEW k \in Keys, CreateSlot(k)
      PROVE  Abstract!Next
  BY <1>2, EmptyRefines, RecentIsHeld DEF CreateSlot, Abstract!Create, Abstract!Next
<1>3. ASSUME NEW k \in Keys, ClearSlot(k)
      PROVE  Abstract!Next
  BY <1>3, EmptyRefines, RecentIsHeld DEF ClearSlot, RingClear, Abstract!Clear, Abstract!Next
<1>4. ASSUME NEW k \in Keys, RemoveSlot(k)
      PROVE  Abstract!Next
  <2>1. slots' = [j \in Keys |-> IF j \in {k} THEN NoSlot ELSE slots[j]]
    BY <1>4 DEF RemoveSlot, IndInv, TypeOK
  <2> QED BY <2>1, ResetRefines DEF Abstract!Next
<1>5. ASSUME NEW camera \in Cameras, RemoveAllSlots(camera)
      PROVE  Abstract!Next
  <2> DEFINE S == {k \in Keys : k[1] = camera}
  <2>1. slots' = [j \in Keys |-> IF j \in S THEN NoSlot ELSE slots[j]]
    BY <1>5 DEF RemoveAllSlots
  <2> HIDE DEF S
  <2>2. S \in SUBSET Keys
    BY DEF S
  <2> QED BY <2>1, <2>2, ResetRefines DEF Abstract!Next
<1>6. CASE Clear
  <2>1. slots' = [j \in Keys |-> IF j \in Keys THEN NoSlot ELSE slots[j]]
    BY <1>6 DEF Clear
  <2> QED BY <2>1, ResetRefines DEF Abstract!Next
<1>7. CASE UNCHANGED slots
  BY <1>7 DEF Recent
<1> QED BY <1>1, <1>2, <1>3, <1>4, <1>5, <1>6, <1>7 DEF Next

\* For every capacity and any number of slots, the rings implement sequences
\* of the last Capacity frames: an overwritten cell is always the oldest one,
\* and no operation on one slot disturbs another.
THEOREM Refinement == Spec => ImplementsLatestFrames
<1>1. Init => Abstract!Init
  BY DEF Init, Abstract!Init, Recent
<1>2. IndInv /\ [Next]_slots => [Abstract!Next]_Recent
  BY StepRefines
<1> QED BY <1>1, <1>2, IndInvHolds, PTL DEF Spec, ImplementsLatestFrames, Abstract!Spec
==============================================================================
