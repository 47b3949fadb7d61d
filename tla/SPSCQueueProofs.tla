--------------------------- MODULE SPSCQueueProofs ---------------------------
(***************************************************************************)
(* The properties of SPSCQueue for every capacity, depth and set of items. *)
(* IndInv is inductive; from it follow the invariants the runs check, and  *)
(* that every step of the queue is a step of DropNewestQueue or stutters.  *)
(***************************************************************************)
EXTENDS SPSCQueue

LEMMA InitIndInv == Init => IndInv
BY QueueAssumption
   DEF Init, IndInv, TypeOK, DepthRespected, SizeInRange, PublishedCellsHoldFrames,
       ObservedWriteNotAhead, NotReading

\* The cell the producer fills is none of those that hold frames.
LEMMA WriteCellIsFree ==
  ASSUME IndInv, pusher # "idle", NEW pos \in readPos .. writePos - 1
  PROVE  Cell(pos, Capacity) # Cell(writePos, Capacity)
<1>1. writePos - readPos < Capacity /\ readPos \in Nat /\ writePos \in Nat
  BY QueueAssumption DEF IndInv, TypeOK, DepthRespected
<1>2. pos \in Int /\ pos < writePos /\ writePos - pos < Capacity
  BY <1>1, QueueAssumption
<1> QED BY <1>1, <1>2, CellsDistinct, QueueAssumption

\* The cell the consumer empties is none of those of the later frames.
LEMMA ReadCellIsOnlyFirst ==
  ASSUME IndInv, NEW pos \in readPos + 1 .. writePos - 1
  PROVE  Cell(pos, Capacity) # Cell(readPos, Capacity)
<1>1. writePos - readPos <= Capacity /\ readPos \in Nat /\ writePos \in Nat
  BY QueueAssumption DEF IndInv, TypeOK, DepthRespected
<1>2. pos \in Int /\ readPos < pos /\ pos - readPos < Capacity
  BY <1>1, QueueAssumption
<1> QED BY <1>1, <1>2, CellsDistinct, QueueAssumption

LEMMA CellsInBuffer ==
  ASSUME IndInv
  PROVE  /\ Cell(writePos, Capacity) \in 0 .. Capacity - 1
         /\ Cell(readPos, Capacity) \in 0 .. Capacity - 1
BY CellInRange, QueueAssumption DEF IndInv, TypeOK
-----------------------------------------------------------------------------
(* IndInv is inductive: one lemma per action                               *)

LEMMA PushLoadIndInv ==
  ASSUME IndInv, NEW v \in Items, PushLoad(v) PROVE IndInv'
<1> USE DEF IndInv, PushLoad, IsFull, consumerVars, observerVars
<1>1. TypeOK'
  BY DEF TypeOK
<1>2. DepthRespected' /\ SizeInRange'
  BY QueueAssumption DEF TypeOK, DepthRespected, SizeInRange
<1>3. PublishedCellsHoldFrames' /\ ObservedWriteNotAhead'
  BY DEF TypeOK, PublishedCellsHoldFrames, ObservedWriteNotAhead
<1> QED BY <1>1, <1>2, <1>3

LEMMA PushWriteIndInv ==
  ASSUME IndInv, PushWrite PROVE IndInv'
<1> USE DEF PushWrite, consumerVars, observerVars
<1>1. TypeOK'
  BY DEF IndInv, TypeOK, PublishedCellsHoldFrames
<1>2. DepthRespected' /\ SizeInRange' /\ ObservedWriteNotAhead'
  BY DEF IndInv, DepthRespected, SizeInRange, ObservedWriteNotAhead
<1>3. PublishedCellsHoldFrames'
  <2>1. buffer'[Cell(writePos, Capacity)] = item /\ item \in Items
    BY CellsInBuffer DEF IndInv, TypeOK, PublishedCellsHoldFrames
  <2>2. ASSUME NEW pos \in readPos .. writePos - 1
        PROVE  buffer'[Cell(pos, Capacity)] = buffer[Cell(pos, Capacity)]
    BY WriteCellIsFree DEF IndInv, TypeOK
  <2> QED BY <2>1, <2>2 DEF IndInv, PublishedCellsHoldFrames
<1> QED BY <1>1, <1>2, <1>3 DEF IndInv

LEMMA PushPublishIndInv ==
  ASSUME IndInv, PushPublish PROVE IndInv'
<1> USE DEF PushPublish, consumerVars, observerVars
<1>1. TypeOK'
  BY DEF IndInv, TypeOK
<1>2. DepthRespected' /\ SizeInRange' /\ ObservedWriteNotAhead'
  BY DEF IndInv, TypeOK, DepthRespected, SizeInRange, ObservedWriteNotAhead
<1>3. PublishedCellsHoldFrames'
  <2>1. readPos \in Nat /\ writePos \in Nat /\ readPos <= writePos
    BY DEF IndInv, TypeOK, DepthRespected
  <2>2. ASSUME NEW pos \in readPos .. writePos
        PROVE  \/ pos = readPos /\ popper = "advance"
               \/ buffer[Cell(pos, Capacity)] \in Items
    BY <2>1 DEF IndInv, PublishedCellsHoldFrames
  <2> QED BY <2>1, <2>2 DEF IndInv, PublishedCellsHoldFrames
<1> QED BY <1>1, <1>2, <1>3 DEF IndInv

LEMMA PopLoadIndInv ==
  ASSUME IndInv, PopLoad PROVE IndInv'
BY DEF IndInv, PopLoad, NothingToRead, producerVars, observerVars, TypeOK, DepthRespected,
       SizeInRange, PublishedCellsHoldFrames, ObservedWriteNotAhead

LEMMA PopTakeIndInv ==
  ASSUME IndInv, PopTake PROVE IndInv'
<1> USE DEF PopTake, producerVars, observerVars
<1>1. TypeOK'
  BY CellsInBuffer DEF IndInv, TypeOK
<1>2. DepthRespected' /\ SizeInRange' /\ ObservedWriteNotAhead'
  BY DEF IndInv, DepthRespected, SizeInRange, ObservedWriteNotAhead
<1>3. PublishedCellsHoldFrames'
  <2>1. readPos \in Nat /\ writePos \in Nat /\ readPos < writePos
    BY DEF IndInv, TypeOK, PublishedCellsHoldFrames
  <2>2. out' \in Items
    BY <2>1 DEF IndInv, PublishedCellsHoldFrames
  <2>3. ASSUME NEW pos \in readPos + 1 .. writePos - 1
        PROVE  buffer'[Cell(pos, Capacity)] = buffer[Cell(pos, Capacity)]
    BY ReadCellIsOnlyFirst DEF IndInv, TypeOK
  <2>4. ASSUME pusher = "publish"
        PROVE  buffer'[Cell(writePos, Capacity)] = item
    <3>1. Cell(readPos, Capacity) # Cell(writePos, Capacity)
      BY <2>1, <2>4, WriteCellIsFree
    <3> QED BY <3>1, <2>4 DEF IndInv, TypeOK, PublishedCellsHoldFrames
  <2>5. ASSUME NEW pos \in readPos .. writePos - 1, pos # readPos
        PROVE  buffer'[Cell(pos, Capacity)] \in Items
    BY <2>1, <2>3, <2>5 DEF IndInv, PublishedCellsHoldFrames
  <2> QED BY <2>1, <2>2, <2>4, <2>5 DEF IndInv, PublishedCellsHoldFrames
<1> QED BY <1>1, <1>2, <1>3 DEF IndInv

LEMMA PopAdvanceIndInv ==
  ASSUME IndInv, PopAdvance PROVE IndInv'
<1> USE DEF PopAdvance, producerVars, observerVars
<1>1. TypeOK'
  BY DEF IndInv, TypeOK
<1>2. DepthRespected' /\ SizeInRange' /\ ObservedWriteNotAhead'
  BY QueueAssumption
     DEF IndInv, TypeOK, DepthRespected, SizeInRange, ObservedWriteNotAhead, PublishedCellsHoldFrames
<1>3. PublishedCellsHoldFrames'
  BY DEF IndInv, TypeOK, PublishedCellsHoldFrames
<1> QED BY <1>1, <1>2, <1>3 DEF IndInv

LEMMA SizeIndInv ==
  ASSUME IndInv, SizeLoad \/ SizeReturn PROVE IndInv'
<1>1. CASE SizeLoad
  BY <1>1, QueueAssumption
     DEF SizeLoad, IndInv, TypeOK, DepthRespected, SizeInRange, PublishedCellsHoldFrames,
         ObservedWriteNotAhead, NotReading, producerVars, consumerVars
<1>2. CASE SizeReturn
  BY <1>2, QueueAssumption
     DEF SizeReturn, IndInv, TypeOK, DepthRespected, SizeInRange, PublishedCellsHoldFrames,
         ObservedWriteNotAhead, NotReading, producerVars, consumerVars
<1> QED BY <1>1, <1>2

THEOREM IndInvHolds == Spec => []IndInv
<1>1. Init => IndInv
  BY InitIndInv
<1>2. IndInv /\ [Next]_vars => IndInv'
  <2> SUFFICES ASSUME IndInv, [Next]_vars PROVE IndInv'
    OBVIOUS
  <2>1. ASSUME NEW v \in Items, PushLoad(v) PROVE IndInv'
    BY <2>1, PushLoadIndInv
  <2>2. CASE PushWrite
    BY <2>2, PushWriteIndInv
  <2>3. CASE PushPublish
    BY <2>3, PushPublishIndInv
  <2>4. CASE PopLoad
    BY <2>4, PopLoadIndInv
  <2>5. CASE PopTake
    BY <2>5, PopTakeIndInv
  <2>6. CASE PopAdvance
    BY <2>6, PopAdvanceIndInv
  <2>7. CASE SizeLoad \/ SizeReturn
    BY <2>7, SizeIndInv
  <2>8. CASE UNCHANGED vars
    BY <2>8 DEF vars, producerVars, consumerVars, observerVars, IndInv, TypeOK, DepthRespected,
                SizeInRange, PublishedCellsHoldFrames, ObservedWriteNotAhead
  <2> QED BY <2>1, <2>2, <2>3, <2>4, <2>5, <2>6, <2>7, <2>8 DEF Next
<1> QED BY <1>1, <1>2, PTL DEF Spec
-----------------------------------------------------------------------------
(* The invariants                                                          *)

THEOREM TypeCorrect == Spec => []TypeOK
BY IndInvHolds, PTL DEF IndInv

\* max_depth_ is respected at every moment, for every capacity and depth.
THEOREM NeverOverfull == Spec => []DepthRespected
BY IndInvHolds, PTL DEF IndInv

\* Without a lock, the two sides never access one cell at the same time.
THEOREM RaceFree == Spec => []NoDataRace
<1>1. IndInv => NoDataRace
  <2> SUFFICES ASSUME IndInv, pusher = "write", popper = "take"
               PROVE  Cell(writePos, Capacity) # Cell(readPos, Capacity)
    BY DEF NoDataRace
  <2>1. readPos \in readPos .. writePos - 1
    BY DEF IndInv, TypeOK, PublishedCellsHoldFrames
  <2> QED BY <2>1, WriteCellIsFree
<1> QED BY <1>1, IndInvHolds, PTL

\* size() never wraps around and never exceeds max_depth_.
THEOREM SizeCorrect == Spec => []SizeInRange
BY IndInvHolds, PTL DEF IndInv
-----------------------------------------------------------------------------
(* Refinement                                                              *)

\* The abstract queue is as long as the positions are apart.
LEMMA QueueShape ==
  ASSUME IndInv
  PROVE  /\ Queue \in Seq(Items)
         /\ Len(Queue) = writePos - readPos
<1>1. readPos \in Nat /\ writePos \in Nat /\ writePos - readPos \in Nat
  BY DEF IndInv, TypeOK, DepthRespected
<1>2. ASSUME NEW i \in 1 .. writePos - readPos
      PROVE  (IF i = 1 /\ popper = "advance" THEN out ELSE buffer[Cell(readPos + i - 1, Capacity)])
               \in Items
  <2>1. readPos + i - 1 \in readPos .. writePos - 1
    BY <1>1
  <2>2. readPos + i - 1 = readPos <=> i = 1
    BY <1>1
  <2> QED BY <2>1, <2>2 DEF IndInv, PublishedCellsHoldFrames
<1> QED BY <1>1, <1>2 DEF Queue

\* Steps that leave the positions alone leave the abstract queue alone.
LEMMA QueueUnchanged ==
  ASSUME IndInv, UNCHANGED <<writePos, readPos>>,
         \A pos \in readPos .. writePos - 1 :
           (IF pos = readPos /\ popper' = "advance" THEN out' ELSE buffer'[Cell(pos, Capacity)])
             = (IF pos = readPos /\ popper = "advance" THEN out ELSE buffer[Cell(pos, Capacity)])
  PROVE  Queue' = Queue
<1>1. readPos \in Nat /\ writePos \in Nat
  BY DEF IndInv, TypeOK
<1>2. ASSUME NEW i \in 1 .. writePos - readPos
      PROVE  (IF i = 1 /\ popper' = "advance" THEN out' ELSE buffer'[Cell(readPos + i - 1, Capacity)])
               = (IF i = 1 /\ popper = "advance" THEN out ELSE buffer[Cell(readPos + i - 1, Capacity)])
  <2>1. readPos + i - 1 \in readPos .. writePos - 1
    BY <1>1
  <2>2. readPos + i - 1 = readPos <=> i = 1
    BY <1>1
  <2> QED BY <2>1, <2>2
<1> QED BY <1>2 DEF Queue

LEMMA PushLoadRefines ==
  ASSUME IndInv, NEW v \in Items, PushLoad(v)
  PROVE  Abstract!Drop \/ UNCHANGED <<Queue, pushed, popped>>
<1>1. Queue' = Queue
  BY QueueUnchanged DEF PushLoad, consumerVars
<1>2. CASE IsFull /\ pushed' = "dropped"
  <2>1. Len(Queue) = MaxDepth
    BY <1>2, QueueShape, QueueAssumption DEF IsFull, IndInv, TypeOK, DepthRespected, PushLoad
  <2> QED BY <1>1, <1>2, <2>1 DEF Abstract!Drop, PushLoad, consumerVars
<1>3. CASE UNCHANGED pushed
  BY <1>1, <1>3 DEF PushLoad, consumerVars
<1> QED BY <1>2, <1>3 DEF PushLoad

LEMMA PushWriteRefines ==
  ASSUME IndInv, PushWrite
  PROVE  UNCHANGED <<Queue, pushed, popped>>
<1>1. ASSUME NEW pos \in readPos .. writePos - 1
      PROVE  buffer'[Cell(pos, Capacity)] = buffer[Cell(pos, Capacity)]
  BY WriteCellIsFree DEF IndInv, TypeOK, PushWrite
<1>2. Queue' = Queue
  BY <1>1, QueueUnchanged DEF PushWrite, consumerVars
<1> QED BY <1>2 DEF PushWrite, consumerVars

LEMMA PushPublishRefines ==
  ASSUME IndInv, PushPublish
  PROVE  \E v \in Items : Abstract!Push(v)
<1>1. readPos \in Nat /\ writePos \in Nat /\ readPos <= writePos /\ writePos - readPos < MaxDepth
  BY QueueAssumption DEF IndInv, TypeOK, DepthRespected, PushPublish
<1>2. item \in Items /\ buffer[Cell(writePos, Capacity)] = item
  BY DEF IndInv, PublishedCellsHoldFrames, PushPublish
<1>3. Queue \in Seq(Items) /\ Len(Queue) = writePos - readPos
  BY QueueShape
<1>4. Queue' = Append(Queue, item)
  <2>1. Queue' = [i \in 1 .. writePos - readPos + 1 |->
                    IF i = 1 /\ popper = "advance" THEN out ELSE buffer[Cell(readPos + i - 1, Capacity)]]
    BY <1>1 DEF Queue, PushPublish, consumerVars
  <2>2. Append(Queue, item) = [i \in 1 .. Len(Queue) + 1 |-> IF i <= Len(Queue) THEN Queue[i] ELSE item]
    BY <1>2, <1>3, AppendShape
  <2>3. ASSUME NEW i \in 1 .. writePos - readPos
        PROVE  Queue[i] = IF i = 1 /\ popper = "advance" THEN out ELSE buffer[Cell(readPos + i - 1, Capacity)]
    BY DEF Queue
  <2>4. ASSUME popper = "advance" PROVE readPos < writePos
    BY <2>4 DEF IndInv, PublishedCellsHoldFrames
  <2>5. readPos + (writePos - readPos + 1) - 1 = writePos
    BY <1>1
  <2>6. ASSUME NEW i \in 1 .. writePos - readPos + 1
        PROVE  (IF i = 1 /\ popper = "advance" THEN out ELSE buffer[Cell(readPos + i - 1, Capacity)])
                 = IF i <= Len(Queue) THEN Queue[i] ELSE item
    <3>1. CASE i <= writePos - readPos
      BY <1>1, <1>3, <2>3, <3>1
    <3>2. CASE i = writePos - readPos + 1
      BY <1>1, <1>2, <1>3, <2>4, <2>5, <3>2
    <3> QED BY <1>1, <3>1, <3>2
  <2> QED BY <1>3, <2>1, <2>2, <2>6
<1>5. Len(Queue) < MaxDepth
  BY <1>1, <1>3
<1> QED BY <1>2, <1>4, <1>5 DEF Abstract!Push, PushPublish, consumerVars

LEMMA PopTakeRefines ==
  ASSUME IndInv, PopTake
  PROVE  UNCHANGED <<Queue, pushed, popped>>
<1>1. readPos \in Nat /\ writePos \in Nat
  BY DEF IndInv, TypeOK
<1>2. ASSUME NEW pos \in readPos + 1 .. writePos - 1
      PROVE  buffer'[Cell(pos, Capacity)] = buffer[Cell(pos, Capacity)]
  BY ReadCellIsOnlyFirst DEF IndInv, TypeOK, PopTake
<1>3. Queue' = Queue
  <2>1. ASSUME NEW pos \in readPos .. writePos - 1
        PROVE  pos = readPos \/ pos \in readPos + 1 .. writePos - 1
    BY <1>1
  <2> QED BY <1>2, <2>1, QueueUnchanged DEF PopTake
<1> QED BY <1>3 DEF PopTake, producerVars

LEMMA PopAdvanceRefines ==
  ASSUME IndInv, PopAdvance
  PROVE  Abstract!Pop
<1>1. readPos \in Nat /\ writePos \in Nat /\ readPos < writePos
  BY DEF IndInv, TypeOK, PublishedCellsHoldFrames, PopAdvance
<1>2. Queue \in Seq(Items) /\ Len(Queue) = writePos - readPos
  BY QueueShape
<1>3. Queue # <<>> /\ Head(Queue) = out
  BY <1>1, <1>2 DEF Queue, PopAdvance
<1>4. Queue' = Tail(Queue)
  <2>1. Queue' = [i \in 1 .. writePos - (readPos + 1) |-> buffer[Cell(readPos + 1 + i - 1, Capacity)]]
    BY DEF Queue, PopAdvance
  <2>2. Tail(Queue) = [i \in 1 .. Len(Queue) - 1 |-> Queue[i + 1]]
    BY <1>2, <1>3, TailShape
  <2>3. ASSUME NEW i \in 1 .. writePos - (readPos + 1)
        PROVE  Queue[i + 1] = buffer[Cell(readPos + 1 + i - 1, Capacity)]
    <3>1. i + 1 \in 1 .. writePos - readPos /\ i + 1 # 1
      BY <1>1
    <3>2. readPos + (i + 1) - 1 = readPos + 1 + i - 1
      BY <1>1
    <3> QED BY <3>1, <3>2 DEF Queue
  <2>4. 1 .. writePos - (readPos + 1) = 1 .. Len(Queue) - 1
    BY <1>1, <1>2
  <2> QED BY <2>1, <2>2, <2>3, <2>4
<1> QED BY <1>3, <1>4 DEF Abstract!Pop, PopAdvance, producerVars

LEMMA InitRefines == Init => Abstract!Init
<1> SUFFICES ASSUME Init PROVE Queue = <<>>
  BY DEF Init, Abstract!Init
<1>1. 1 .. writePos - readPos = {}
  BY DEF Init
<1> QED BY <1>1 DEF Queue

LEMMA StepRefines ==
  ASSUME IndInv, [Next]_vars
  PROVE  [Abstract!Next]_<<Queue, pushed, popped>>
<1>1. ASSUME NEW v \in Items, PushLoad(v)
      PROVE  [Abstract!Next]_<<Queue, pushed, popped>>
  BY <1>1, PushLoadRefines DEF Abstract!Next
<1>2. CASE PushWrite
  BY <1>2, PushWriteRefines
<1>3. CASE PushPublish
  BY <1>3, PushPublishRefines DEF Abstract!Next
<1>4. CASE PopTake
  BY <1>4, PopTakeRefines
<1>5. CASE PopAdvance
  BY <1>5, PopAdvanceRefines DEF Abstract!Next
<1>6. CASE PopLoad
  <2>1. Queue' = Queue
    BY <1>6, QueueUnchanged DEF PopLoad
  <2> QED BY <1>6, <2>1 DEF PopLoad, producerVars
<1>7. CASE SizeLoad \/ SizeReturn \/ UNCHANGED vars
  <2>1. Queue' = Queue
    BY <1>7, QueueUnchanged DEF SizeLoad, SizeReturn, vars, consumerVars
  <2> QED BY <1>7, <2>1 DEF SizeLoad, SizeReturn, vars, producerVars, consumerVars
<1> QED BY <1>1, <1>2, <1>3, <1>4, <1>5, <1>6, <1>7 DEF Next

\* SPSCQueue implements the bounded drop-newest FIFO queue, whatever its
\* capacity and depth and however the accesses of the two sides interleave.
THEOREM Refinement == Spec => ImplementsDropNewest
<1>1. Init => Abstract!Init
  BY InitRefines
<1>2. IndInv /\ [Next]_vars => [Abstract!Next]_<<Queue, pushed, popped>>
  BY StepRefines
<1> QED BY <1>1, <1>2, IndInvHolds, PTL
        DEF Spec, ImplementsDropNewest, Abstract!Spec, Abstract!queueVars
=============================================================================
