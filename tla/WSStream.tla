------------------------------- MODULE WSStream -------------------------------
(***************************************************************************)
(* What WSServer sends: the publisher's callback stores every bundle in    *)
(* DataBuffer #2 and queues the images for encode_loop; the client_loop of *)
(* a connection looks for new bundles of the types its peer subscribed to  *)
(* and queues them for its send_loop.  Module WSServer has the threads'    *)
(* life; here one connection after the other is served.                    *)
(*                                                                         *)
(* Whether a bundle is new is decided by its address, so the model has     *)
(* addresses, named after the first bundle that lay there: an allocation   *)
(* takes a fresh one, or one that some pointer still remembers and no      *)
(* reference holds.  Frames without an image, which encode_loop only       *)
(* discards, are left out of its queues.  The service has one camera, so a *)
(* slot is a type.                                                         *)
(***************************************************************************)
EXTENDS Naturals, Sequences, FiniteSets, SequencesExt

CONSTANTS
  Types,        \* data types
  StereoImage,  \* the type that is encoded
  Capacity,     \* bundles a ring of DataBuffer #2 holds
  QueueDepth,   \* max_depth_ of the encode queue
  Topics,       \* what peers subscribe to: types, or "all"
  MaxFrames     \* MaxFrames[t]: bound on the frames of type t

ASSUME StreamAssumption ==
  /\ IsFiniteSet(Types) /\ StereoImage \in Types
  /\ Capacity \in Nat \ {0} /\ QueueDepth \in Nat \ {0} /\ MaxFrames \in [Types -> Nat]
  /\ Topics \subseteq Types \union {"all"}

VARIABLES
  produced,       \* how many frames of each type were fed
  ring,           \* DataBuffer #2: the last bundles of each slot
  encodeQueue,    \* encode_queue_2d_
  encoding,       \* the bundle encode_loop works on
  lastEncoded,    \* last_encoded_ptr_
  encoded,        \* encoded_stereo_
  client,         \* where client_loop is: no connection, or a step of its loop
  subscriptions,  \* session->subscriptions
  toVisit,        \* slots the round of client_loop has not looked at yet
  lastSent,       \* session->last_sent: an address for each slot (history: of which frame)
  sendQueue,      \* session->send_queue
  waiting,        \* send_loop has passed its condition and waits for an item
  sending,        \* what send_loop has taken from it
  wire            \* the number of the last frame of each type the peer got

sourceVars  == <<produced, ring>>
encodeVars  == <<encodeQueue, encoding, lastEncoded, encoded>>
clientVars  == <<client, subscriptions, toVisit, lastSent>>
sendVars    == <<sendQueue, waiting, sending, wire>>
vars        == <<sourceVars, encodeVars, clientVars, sendVars>>

NoAddress == <<>>
Numbers   == UNION {1 .. MaxFrames[t] : t \in Types}
Addresses == (Types \union {"jpeg"}) \X Numbers
Bundles   == [n : Numbers, addr : Addresses]
Items     == [type : Types, bundle : Bundles]
Nothing   == [n |-> 0, addr |-> NoAddress]
NoItem    == [type |-> StereoImage, bundle |-> Nothing]

\* The bundles somebody holds a reference to.
Held ==
  (UNION {ToSet(ring[t]) : t \in Types}) \union ToSet(encodeQueue) \union {encoding, encoded}
    \union {i.bundle : i \in ToSet(sendQueue) \union {sending}}

Remembered == {lastEncoded} \union {lastSent[t].addr : t \in Types}

\* Where the n-th bundle of a kind may be allocated.
Allocated(kind, n) ==
  {<<kind, n>>} \union (Remembered \ ({b.addr : b \in Held} \union {NoAddress}))

Latest(t) == IF ring[t] = <<>> THEN Nothing ELSE Last(ring[t])

Closed == {"none", "closed"}

\* A new session: nothing subscribed, nothing sent.
NewSession ==
  /\ subscriptions' = {}
  /\ toVisit'       = {}
  /\ lastSent'      = [t \in Types |-> Nothing]
  /\ sendQueue'     = <<>>
  /\ wire'          = [t \in Types |-> 0]

Init ==
  /\ produced      = [t \in Types |-> 0]
  /\ ring          = [t \in Types |-> <<>>]
  /\ encodeQueue   = <<>>
  /\ encoding      = Nothing
  /\ lastEncoded   = NoAddress
  /\ encoded       = Nothing
  /\ client        = "none"
  /\ subscriptions = {}
  /\ toVisit       = {}
  /\ lastSent      = [t \in Types |-> Nothing]
  /\ sendQueue     = <<>>
  /\ waiting       = FALSE
  /\ sending       = NoItem
  /\ wire          = [t \in Types |-> 0]
-----------------------------------------------------------------------------
(* The publisher's callback                                                *)

RingPush(r, b) == IF Len(r) = Capacity THEN Append(Tail(r), b) ELSE Append(r, b)

\* A full queue drops the new frame.  Frames of the same group without an image
\* take room as well, so it may be full however few images are in it.
PushEncode(t, b) ==
  \/ t = StereoImage /\ Len(encodeQueue) < QueueDepth /\ encodeQueue' = Append(encodeQueue, b)
  \/ UNCHANGED encodeQueue

Feed(t) ==
  /\ produced[t] < MaxFrames[t]
  /\ \E a \in Allocated(t, produced[t] + 1) :
       LET b == [n |-> produced[t] + 1, addr |-> a] IN
       /\ ring' = [ring EXCEPT ![t] = RingPush(@, b)]
       /\ PushEncode(t, b)
  /\ produced' = [produced EXCEPT ![t] = @ + 1]
  /\ UNCHANGED <<encoding, lastEncoded, encoded, clientVars, sendVars>>
-----------------------------------------------------------------------------
(* encode_loop                                                             *)

\* A bundle at the address of the one encoded last is skipped.
EncodePop ==
  /\ encoding = Nothing
  /\ encodeQueue # <<>>
  /\ encodeQueue' = Tail(encodeQueue)
  /\ IF Head(encodeQueue).addr = lastEncoded
     THEN UNCHANGED <<encoding, lastEncoded>>
     ELSE /\ encoding'    = Head(encodeQueue)
          /\ lastEncoded' = Head(encodeQueue).addr
  /\ UNCHANGED <<sourceVars, encoded, clientVars, sendVars>>

\* The JPEG bundle is a new allocation; it replaces the one before.
EncodeDone ==
  /\ encoding # Nothing
  /\ \E a \in Allocated("jpeg", encoding.n) : encoded' = [n |-> encoding.n, addr |-> a]
  /\ encoding' = Nothing
  /\ UNCHANGED <<sourceVars, encodeQueue, lastEncoded, clientVars, sendVars>>

\* An image of an unknown size, or that the library refuses.
EncodeFails ==
  /\ encoding # Nothing
  /\ encoding' = Nothing
  /\ UNCHANGED <<sourceVars, encodeQueue, lastEncoded, encoded, clientVars, sendVars>>

EncodeLoop == EncodePop \/ EncodeDone \/ EncodeFails
-----------------------------------------------------------------------------
(* client_loop                                                             *)

\* The encoded image outlives the slot; it is shown while the slot exists.
Shown(t) == IF t = StereoImage /\ ring[t] # <<>> THEN encoded ELSE Latest(t)

Subscribed(t) == {t, "all"} \cap subscriptions # {}

\* At most one message is read a round.  One that is no JSON subscribes to
\* everything; a close frame or an error ends the loop.
Read ==
  /\ client = "read"
  /\ subscriptions' \in {subscriptions, subscriptions \union {"all"}}
       \union {subscriptions \union {t} : t \in Topics} \union {subscriptions \ {t} : t \in Topics}
  /\ IF subscriptions' = {}
     THEN UNCHANGED <<client, toVisit>>
     ELSE /\ client'  = "visit"
          /\ toVisit' = {t \in Types : ring[t] # <<>>}
  /\ UNCHANGED <<sourceVars, encodeVars, lastSent, sendVars>>

EnqueueAll(t, b) ==  \* mutant
  sendQueue' = Append(sendQueue, [type |-> t, bundle |-> b])

EnqueueIfNoneWaits(t, b) ==  \* mutant
  sendQueue' = IF \E i \in ToSet(sendQueue) : i.type = t THEN sendQueue
               ELSE Append(sendQueue, [type |-> t, bundle |-> b])

\* The items of a queue that are not of a type; kept[i] are those of the first i.
Others(q, t) ==
  LET kept[i \in 0 .. Len(q)] ==
        IF i = 0 THEN <<>>
        ELSE IF q[i].type = t THEN kept[i - 1] ELSE Append(kept[i - 1], q[i])
  IN  kept[Len(q)]

\* At most one bundle of a type waits: a newer one takes its place at the end.
Enqueue(t, b) == sendQueue' = Append(Others(sendQueue, t), [type |-> t, bundle |-> b])

VisitWithoutDedup(t) ==  \* mutant
  /\ client = "visit" /\ t \in toVisit
  /\ toVisit' = toVisit \ {t}
  /\ IF Subscribed(t) /\ Shown(t) # Nothing
     THEN /\ lastSent' = [lastSent EXCEPT ![t] = Shown(t)]
          /\ Enqueue(t, Shown(t))
     ELSE UNCHANGED <<lastSent, sendQueue>>
  /\ UNCHANGED <<sourceVars, encodeVars, client, subscriptions, waiting, sending, wire>>

Visit(t) ==
  /\ client = "visit" /\ t \in toVisit
  /\ toVisit' = toVisit \ {t}
  /\ IF Subscribed(t) /\ Shown(t) # Nothing /\ Shown(t).addr # lastSent[t].addr
     THEN /\ lastSent' = [lastSent EXCEPT ![t] = Shown(t)]
          /\ Enqueue(t, Shown(t))
     ELSE UNCHANGED <<lastSent, sendQueue>>
  /\ UNCHANGED <<sourceVars, encodeVars, client, subscriptions, waiting, sending, wire>>

RoundDone ==
  /\ client = "visit" /\ toVisit = {}
  /\ client' = "read"
  /\ UNCHANGED <<sourceVars, encodeVars, subscriptions, toVisit, lastSent, sendVars>>

Leave ==
  /\ client = "read"
  /\ client' = "closed"
  /\ UNCHANGED <<sourceVars, encodeVars, subscriptions, toVisit, lastSent, sendVars>>

ClientLoop == Read \/ (\E t \in Types : Visit(t)) \/ RoundDone \/ Leave
-----------------------------------------------------------------------------
(* send_loop                                                               *)

\* The condition of the loop is looked at before the wait only: an item may
\* still be taken when the session has been closed meanwhile.
SendHead ==
  /\ client \notin Closed
  /\ ~waiting /\ sending = NoItem
  /\ waiting' = TRUE
  /\ UNCHANGED <<sourceVars, encodeVars, clientVars, sendQueue, sending, wire>>

SendTimeout ==
  /\ waiting /\ sendQueue = <<>>
  /\ waiting' = FALSE
  /\ UNCHANGED <<sourceVars, encodeVars, clientVars, sendQueue, sending, wire>>

SendPop ==
  /\ waiting /\ sendQueue # <<>>
  /\ waiting'   = FALSE
  /\ sending'   = Head(sendQueue)
  /\ sendQueue' = Tail(sendQueue)
  /\ UNCHANGED <<sourceVars, encodeVars, clientVars, wire>>

\* A failed write clears active, which ends both loops.
Send ==
  /\ sending # NoItem
  /\ \/ wire' = [wire EXCEPT ![sending.type] = sending.bundle.n] /\ UNCHANGED client
     \/ client' = "closed" /\ UNCHANGED wire
  /\ sending' = NoItem
  /\ UNCHANGED <<sourceVars, encodeVars, subscriptions, toVisit, lastSent, sendQueue, waiting>>

SendLoop == SendHead \/ SendTimeout \/ SendPop \/ Send
-----------------------------------------------------------------------------
(* accept_loop                                                             *)

Connect ==
  /\ client = "none"
  /\ client' = "read"
  /\ NewSession
  /\ UNCHANGED <<sourceVars, encodeVars, waiting, sending>>

\* Both loops were joined.  When no other client is left the callback clears
\* the buffer; encoded_stereo_ and the encode queue stay.
Erase ==
  /\ client = "closed" /\ ~waiting /\ sending = NoItem
  /\ client' = "none"
  /\ NewSession
  /\ ring' \in {ring, [t \in Types |-> <<>>]}
  /\ UNCHANGED <<produced, encodeVars, waiting, sending>>
-----------------------------------------------------------------------------
Next ==
  \/ \E t \in Types : Feed(t)
  \/ EncodeLoop
  \/ ClientLoop
  \/ SendLoop
  \/ Connect
  \/ Erase

\* The threads are scheduled and the peer reads.
Fairness == WF_vars(EncodeLoop) /\ WF_vars(ClientLoop) /\ WF_vars(SendLoop)

Spec == Init /\ [][Next]_vars /\ Fairness
-----------------------------------------------------------------------------
(* Properties                                                              *)

\* The types.
TypeOK ==
  /\ produced      \in [Types -> Nat] /\ \A t \in Types : produced[t] <= MaxFrames[t]
  /\ ring          \in [Types -> Seq(Bundles)] /\ \A t \in Types : Len(ring[t]) <= Capacity
  /\ encodeQueue   \in Seq(Bundles) /\ Len(encodeQueue) <= QueueDepth
  /\ encoding      \in Bundles \union {Nothing}
  /\ encoded       \in Bundles \union {Nothing}
  /\ lastEncoded   \in Addresses \union {NoAddress}
  /\ client        \in {"none", "read", "visit", "closed"}
  /\ subscriptions \subseteq Types \union {"all"}
  /\ toVisit       \subseteq Types
  /\ lastSent      \in [Types -> Bundles \union {Nothing}]
  /\ sendQueue     \in Seq(Items) /\ Len(sendQueue) <= Cardinality(Types)
  /\ waiting       \in BOOLEAN
  /\ sending       \in Items \union {NoItem}
  /\ wire          \in [Types -> Numbers \union {0}]

OnePerType(q) == \A i, j \in DOMAIN q : q[i].type = q[j].type => i = j

\* On its way to the peer are, for each type, at most the bundle being sent
\* and one that waits, each newer than the one before: no frame is sent twice
\* or out of order, although frames are told apart by reused addresses.
FramesInOrder ==
  /\ OnePerType(sendQueue)
  /\ sending # NoItem => wire[sending.type] < sending.bundle.n
  /\ \A i \in DOMAIN sendQueue :
       LET next == sendQueue[i]
       IN  /\ wire[next.type] < next.bundle.n
           /\ sending # NoItem /\ sending.type = next.type => sending.bundle.n < next.bundle.n

Open(t) == client \notin Closed /\ Subscribed(t)

\* The shown bundle is another one than was sent last, at the same address.
Aliased(t) == Shown(t).addr = lastSent[t].addr /\ Shown(t).n # lastSent[t].n

\* A subscribed peer gets the bundle shown for a type or a newer one, unless
\* it lies at the address of the last one sent, and then nothing newer comes:
\* the frame is taken for sent.
NewestDelivered ==
  \A t \in Types, k \in Numbers :
    (Open(t) /\ Shown(t).n = k) ~> (wire[t] >= k \/ ~Open(t) \/ Aliased(t))
-----------------------------------------------------------------------------
(* Refinement                                                              *)

InHand == IF sending = NoItem THEN {}
          ELSE {[stream |-> sending.type, number |-> sending.bundle.n]}

Abstract == INSTANCE LossyFeed
            WITH Streams <- Types, hand <- InHand, delivered <- wire

\* From the callback to the peer frames are lost, in the rings, the encoder and
\* the send queue, but never reordered, repeated or made up; the next peer
\* starts anew.
ImplementsLossyFeed == Abstract!SessionSpec
-----------------------------------------------------------------------------
(* What every step preserves, for the proofs                                *)

\* Images reach encode_loop, and leave it, in the order of their numbers.
EncodeOrder ==
  /\ \A i \in DOMAIN encodeQueue :
       /\ encoding.n < encodeQueue[i].n /\ encoded.n < encodeQueue[i].n
       /\ encodeQueue[i].n <= produced[StereoImage]
  /\ \A i, j \in DOMAIN encodeQueue : i < j => encodeQueue[i].n < encodeQueue[j].n
  /\ encoding # Nothing => encoded.n < encoding.n
  /\ encoding.n <= produced[StereoImage] /\ encoded.n <= produced[StereoImage]

\* What Shown shows of a type while its slot exists.
Newest(t) == IF t = StereoImage THEN encoded ELSE Latest(t)

\* The last bundle sent is the newest one, or an older one.
SentOrder ==
  \A t \in Types :
    /\ Latest(t).n <= produced[t]
    /\ lastSent[t].n <= Newest(t).n
    /\ lastSent[t].n = Newest(t).n => lastSent[t] = Newest(t)

\* Nothing on the way to the peer, or there, is newer than the last one sent.
PathOrder ==
  /\ \A t \in Types : wire[t] <= lastSent[t].n
  /\ sending # NoItem => sending.bundle.n <= lastSent[sending.type].n
  /\ \A i \in DOMAIN sendQueue : sendQueue[i].bundle.n <= lastSent[sendQueue[i].type].n

SendLoopOnly ==
  /\ waiting => sending = NoItem
  /\ client = "none" => sending = NoItem /\ ~waiting

IndInv == TypeOK /\ EncodeOrder /\ SentOrder /\ PathOrder /\ SendLoopOnly /\ FramesInOrder
===============================================================================
