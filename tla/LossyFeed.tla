------------------------------ MODULE LossyFeed ------------------------------
(***************************************************************************)
(* What every stage between the dealer and a client promises of the frames *)
(* of a stream: some are lost, but what arrives was produced, arrives once *)
(* and in the order of production.  One thread hands on the frames of all  *)
(* streams, one at a time.                                                 *)
(***************************************************************************)
EXTENDS Naturals

CONSTANT Streams

VARIABLES
  produced,  \* per stream: how many frames were produced, numbered from 1
  hand,      \* the frame that is being handed on, or none
  delivered  \* per stream: the number of the last frame that arrived, or 0

feedVars == <<produced, hand, delivered>>

NoneYet == [s \in Streams |-> 0]

Init == produced = NoneYet /\ hand = {} /\ delivered = NoneYet

Produce(s) ==
  /\ produced' = [produced EXCEPT ![s] = @ + 1]
  /\ UNCHANGED <<hand, delivered>>

\* Frames between the last one and the one taken are lost.
Take(s) ==
  /\ hand = {}
  /\ \E n \in delivered[s] + 1 .. produced[s] : hand' = {[stream |-> s, number |-> n]}
  /\ UNCHANGED <<produced, delivered>>

Deliver(f) ==
  /\ hand = {f}
  /\ hand' = {}
  /\ delivered' = [delivered EXCEPT ![f.stream] = f.number]
  /\ UNCHANGED produced

Lose ==
  /\ hand' = {}
  /\ UNCHANGED <<produced, delivered>>

\* A receiver that takes the place of another one has got nothing yet.
NewReceiver ==
  /\ hand = {}
  /\ delivered' = NoneYet
  /\ UNCHANGED <<produced, hand>>

Next ==
  \/ \E s \in Streams : Produce(s) \/ Take(s)
  \/ \E f \in hand : Deliver(f)
  \/ Lose

\* One receiver, and one after the other.
Spec        == Init /\ [][Next]_feedVars
SessionSpec == Init /\ [][Next \/ NewReceiver]_feedVars
==============================================================================
