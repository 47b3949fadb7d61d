------------------------------ MODULE SPSCQueue ------------------------------
(***************************************************************************)
(* SPSCQueue<T, Capacity>: one producer calls try_push, one consumer calls *)
(* pop, any other thread may call size.  An action is one access to shared *)
(* memory; the acquire/release pairs on the positions make the accesses    *)
(* appear in this order.  A position is owned by one side, so a side reads *)
(* its own and loads the other's in one step.                              *)
(***************************************************************************)
EXTENDS RingIndex

CONSTANTS
  Capacity,   \* cells of buffer_, a power of two
  MaxDepth,   \* max_depth_, set before the threads start
  Items,      \* frames
  NoItem,     \* a moved-from or never written cell
  MaxPushes   \* bound on write_pos_, for TLC

ASSUME QueueAssumption ==
  /\ Capacity \in Nat \ {0}
  /\ MaxDepth \in 0 .. Capacity
  /\ MaxPushes \in Nat
  /\ NoItem \notin Items

VARIABLES
  buffer,     \* buffer_
  writePos,   \* write_pos_, stored by the producer only
  readPos,    \* read_pos_, stored by the consumer only
  pusher,     \* where the producer is in try_push
  item,       \* the producer's argument
  pushed,     \* what the last try_push returned
  popper,     \* where the consumer is in pop
  out,        \* the consumer's out parameter
  popped,     \* what the last successful pop delivered
  sizeWp,     \* the write position an observer has loaded in size()
  sizeSeen    \* what the last size() returned

producerVars == <<pusher, item, pushed>>
consumerVars == <<popper, out, popped>>
observerVars == <<sizeWp, sizeSeen>>
vars == <<buffer, writePos, readPos, producerVars, consumerVars, observerVars>>

NotReading == -1

Init ==
  /\ buffer   = [i \in 0 .. Capacity - 1 |-> NoItem]
  /\ writePos = 0 /\ readPos = 0
  /\ pusher   = "idle" /\ item = NoItem /\ pushed = "none"
  /\ popper   = "idle" /\ out = NoItem /\ popped = NoItem
  /\ sizeWp   = NotReading /\ sizeSeen = 0
-----------------------------------------------------------------------------
(* try_push                                                                *)

IsFullOffByOne == writePos - readPos > MaxDepth  \* mutant

IsFull == writePos - readPos >= MaxDepth

PushLoad(v) ==
  /\ pusher = "idle"
  /\ writePos < MaxPushes
  /\ item' = v
  /\ \/ IsFull  /\ pushed' = "dropped" /\ UNCHANGED pusher
     \/ ~IsFull /\ pusher' = "write"   /\ UNCHANGED pushed
  /\ UNCHANGED <<buffer, writePos, readPos, consumerVars, observerVars>>

PushWrite ==
  /\ pusher = "write"
  /\ pusher' = "publish"
  /\ buffer' = [buffer EXCEPT ![Cell(writePos, Capacity)] = item]
  /\ UNCHANGED <<writePos, readPos, item, pushed, consumerVars, observerVars>>

PushPublish ==
  /\ pusher = "publish"
  /\ pusher' = "idle"
  /\ writePos' = writePos + 1
  /\ pushed' = "pushed"
  /\ UNCHANGED <<buffer, readPos, item, consumerVars, observerVars>>
-----------------------------------------------------------------------------
(* pop                                                                     *)

NothingToReadOffByOne == readPos > writePos  \* mutant

NothingToRead == readPos >= writePos

PopLoad ==
  /\ popper = "idle"
  /\ ~NothingToRead
  /\ popper' = "take"
  /\ UNCHANGED <<buffer, writePos, readPos, producerVars, out, popped, observerVars>>

\* The frame is moved out of its cell.
PopTake ==
  /\ popper = "take"
  /\ popper' = "advance"
  /\ out' = buffer[Cell(readPos, Capacity)]
  /\ buffer' = [buffer EXCEPT ![Cell(readPos, Capacity)] = NoItem]
  /\ UNCHANGED <<writePos, readPos, producerVars, popped, observerVars>>

PopAdvance ==
  /\ popper = "advance"
  /\ popper' = "idle"
  /\ readPos' = readPos + 1
  /\ popped' = out
  /\ UNCHANGED <<buffer, writePos, producerVars, out, observerVars>>
-----------------------------------------------------------------------------
(* size, called by the thread that answers check_status                    *)

SizeLoad ==
  /\ sizeWp = NotReading
  /\ sizeWp' = writePos
  /\ UNCHANGED <<buffer, writePos, readPos, producerVars, consumerVars, sizeSeen>>

SizeReturnUnguarded ==  \* mutant
  /\ sizeWp # NotReading
  /\ sizeSeen' = sizeWp - readPos
  /\ sizeWp' = NotReading
  /\ UNCHANGED <<buffer, writePos, readPos, producerVars, consumerVars>>

\* Pops between the two loads may leave the write position behind.
SizeReturn ==
  /\ sizeWp # NotReading
  /\ sizeSeen' = IF sizeWp >= readPos THEN sizeWp - readPos ELSE 0
  /\ sizeWp' = NotReading
  /\ UNCHANGED <<buffer, writePos, readPos, producerVars, consumerVars>>

Next ==
  \/ \E v \in Items : PushLoad(v)
  \/ PushWrite \/ PushPublish
  \/ PopLoad \/ PopTake \/ PopAdvance
  \/ SizeLoad \/ SizeReturn

Spec == Init /\ [][Next]_vars
-----------------------------------------------------------------------------
(* Properties                                                              *)

\* The types; positions and sizes are naturals: the unsigned differences that
\* compute them never wrap around.
TypeOK ==
  /\ buffer   \in [0 .. Capacity - 1 -> Items \union {NoItem}]
  /\ writePos \in Nat
  /\ readPos  \in Nat
  /\ pusher   \in {"idle", "write", "publish"}
  /\ item     \in Items \union {NoItem}
  /\ pushed   \in {"none", "pushed", "dropped"}
  /\ popper   \in {"idle", "take", "advance"}
  /\ out      \in Items \union {NoItem}
  /\ popped   \in Items \union {NoItem}
  /\ sizeWp   \in Nat \union {NotReading}
  /\ sizeSeen \in Nat

\* The producer never writes the cell the consumer is moving a frame out of,
\* although neither side takes a lock and each decides on a position of the
\* other that may be old by the time it uses it.
NoDataRace ==
  ~ (pusher = "write" /\ popper = "take" /\ Cell(writePos, Capacity) = Cell(readPos, Capacity))

\* The queue never holds more than max_depth_ frames, with a push in flight too.
DepthRespected ==
  /\ readPos <= writePos
  /\ (IF pusher = "idle" THEN writePos ELSE writePos + 1) - readPos <= MaxDepth

\* size() answers a length the queue may have: pushes and pops between its two
\* loads never make the unsigned difference wrap around.
SizeInRange == sizeSeen \in 0 .. MaxDepth

\* Together with the above, what every access preserves: a cell between the two
\* positions holds a frame, except the one the consumer has just moved out.
PublishedCellsHoldFrames ==
  /\ pusher # "idle" => item \in Items
  /\ pusher = "publish" => buffer[Cell(writePos, Capacity)] = item
  /\ popper # "idle" => readPos < writePos
  /\ popper = "advance" => out \in Items
  /\ \A pos \in readPos .. writePos - 1 :
       \/ pos = readPos /\ popper = "advance"
       \/ buffer[Cell(pos, Capacity)] \in Items

ObservedWriteNotAhead == sizeWp # NotReading => sizeWp <= readPos + MaxDepth

IndInv ==
  TypeOK /\ DepthRespected /\ SizeInRange /\ PublishedCellsHoldFrames /\ ObservedWriteNotAhead

\* The frames held, oldest first.  The frame being popped still counts: its
\* place is given back by the store of read_pos_.
Queue ==
  [i \in 1 .. writePos - readPos |->
     IF i = 1 /\ popper = "advance" THEN out ELSE buffer[Cell(readPos + i - 1, Capacity)]]

Abstract == INSTANCE DropNewestQueue
  WITH queue <- Queue, lastPush <- pushed, lastPop <- popped, Depth <- MaxDepth

\* The lock-free queue behaves as a bounded FIFO queue that rejects the newest
\* item: a push takes effect when write_pos_ is stored or, rejected, when the
\* positions are compared; a pop when read_pos_ is stored.
ImplementsDropNewest == Abstract!Spec
=============================================================================
