----------------------------- MODULE LatestFrames -----------------------------
(***************************************************************************)
(* What DataBuffer promises: for every (camera, type) slot that exists, the *)
(* last Depth frames pushed since it was created or cleared, oldest first. *)
(***************************************************************************)
EXTENDS Naturals, Sequences

CONSTANTS Keys, Frames, Depth, NoSlot

VARIABLE recent

Init == recent = [k \in Keys |-> NoSlot]

\* A push to a slot that does not exist creates it.
Held(k) == IF recent[k] = NoSlot THEN <<>> ELSE recent[k]

Push(k, f) ==
  recent' = [recent EXCEPT ![k] =
               IF Len(Held(k)) = Depth THEN Append(Tail(Held(k)), f) ELSE Append(Held(k), f)]

Reset(S, value) == recent' = [k \in Keys |-> IF k \in S THEN value ELSE recent[k]]

Create(k) == recent[k] = NoSlot /\ Reset({k}, <<>>)
Clear(k)  == recent[k] # NoSlot /\ Reset({k}, <<>>)
Remove(S) == Reset(S, NoSlot)

Next ==
  \/ \E k \in Keys, f \in Frames : Push(k, f)
  \/ \E k \in Keys : Create(k) \/ Clear(k)
  \/ \E S \in SUBSET Keys : Remove(S)

Spec == Init /\ [][Next]_recent
===============================================================================
