--------------------------- MODULE DropNewestQueue ---------------------------
(***************************************************************************)
(* What SPSCQueue promises: a bounded FIFO queue that rejects the incoming *)
(* item when it is full and never touches the items it holds.              *)
(***************************************************************************)
EXTENDS Naturals, Sequences

CONSTANTS Items, NoItem, Depth

VARIABLES
  queue,     \* the items accepted and not popped, oldest first
  lastPush,  \* what the last try_push returned
  lastPop    \* what the last successful pop delivered

queueVars == <<queue, lastPush, lastPop>>

Init == queue = <<>> /\ lastPush = "none" /\ lastPop = NoItem

Push(v) ==
  /\ Len(queue) < Depth
  /\ queue' = Append(queue, v)
  /\ lastPush' = "pushed"
  /\ UNCHANGED lastPop

Drop ==
  /\ Len(queue) = Depth
  /\ lastPush' = "dropped"
  /\ UNCHANGED <<queue, lastPop>>

Pop ==
  /\ queue # <<>>
  /\ queue' = Tail(queue)
  /\ lastPop' = Head(queue)
  /\ UNCHANGED lastPush

Next == (\E v \in Items : Push(v)) \/ Drop \/ Pop

Spec == Init /\ [][Next]_queueVars
==============================================================================
