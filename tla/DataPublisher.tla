---------------------------- MODULE DataPublisher ----------------------------
(***************************************************************************)
(* The dealer puts frames on the queues of the DataPipeline; pub_loop takes *)
(* them off, publishes each on the ZMQ PUB socket of its channel and hands  *)
(* it to a callback that feeds the WebSocket side; main starts the          *)
(* publisher, sets the callback, announces the shutdown and stops it.       *)
(*                                                                          *)
(* A queue is the sequence of its frames: SPSCQueue implements              *)
(* DropNewestQueue.  Frames are numbered per channel, in the order the      *)
(* dealer receives them.  sockets_mutex_ is held exactly while pub_loop is  *)
(* in Draining, or within one step of main; only pub_loop takes cv_mutex.   *)
(***************************************************************************)
EXTENDS Naturals, Sequences, SequencesExt, Functions, FiniteSets

CONSTANTS
  DrainOrder,  \* the channels, in the order pub_loop drains them
  Depth,       \* max_depth_ of the queues
  MaxFrames    \* bound on the frames the dealer receives, for TLC

Channels == ToSet(DrainOrder)

ASSUME PublisherAssumption ==
  /\ DrainOrder \in Seq(Channels) /\ DrainOrder # <<>> /\ IsInjective(DrainOrder)
  /\ Depth \in Nat
  /\ MaxFrames \in Nat

VARIABLES
  queue,      \* per channel: the frames in its queue, oldest first
  received,   \* per channel: how many frames the dealer has received
  totals,     \* total_pushed and total_dropped
  dealer,     \* where the dealer is
  running,    \* DataPublisher::running_
  sockets,    \* zmq_sockets_: the channels whose socket is bound and open
  callback,   \* pub_callback_: "empty", "assigning" or "set"
  main,       \* where main is
  pub,        \* where pub_loop is
  at,         \* the position in DrainOrder it drains
  taken,      \* per channel: the frames popped so far (history)
  wire,       \* per channel: the parts sent on its socket (history)
  fed,        \* per channel: the frames handed to the callback (history)
  before      \* per channel: how many were taken before the callback was set

dealerVars == <<received, totals, dealer>>
mainVars   == <<running, sockets, callback, before, main>>
pubVars    == <<at, taken, wire, fed>>
vars       == <<queue, dealerVars, mainVars, pub, pubVars>>

\* A message is a topic and a header, then the payloads; the last part ends it.
Header(n)  == [part |-> "header", frame |-> n]
Payload(n) == [part |-> "payload", frame |-> n]
Notice     == [part |-> "notice", frame |-> 0]
Parts      == [part : {"header", "payload", "notice"}, frame : Nat]

Current  == DrainOrder[at]
Draining == {"drain", "header", "payload", "feed"}

Init ==
  /\ queue    = [c \in Channels |-> <<>>]
  /\ received = [c \in Channels |-> 0]
  /\ totals   = [pushed |-> 0, dropped |-> 0]
  /\ dealer   = "idle"
  /\ running  = FALSE /\ sockets = {} /\ callback = "empty" /\ main = "start"
  /\ pub      = "none" /\ at = 1
  /\ taken    = [c \in Channels |-> <<>>]
  /\ wire     = [c \in Channels |-> <<>>]
  /\ fed      = [c \in Channels |-> <<>>]
  /\ before   = [c \in Channels |-> 0]
-----------------------------------------------------------------------------
(* The dealer                                                              *)

EnqueueOffByOne(c, n) ==  \* mutant
  \/ /\ Len(queue[c]) <= Depth
     /\ queue' = [queue EXCEPT ![c] = Append(@, n)]
     /\ dealer' = "count_pushed"
  \/ /\ Len(queue[c]) > Depth
     /\ dealer' = "count_dropped"
     /\ UNCHANGED queue

\* try_push: a full queue rejects the new frame.
Enqueue(c, n) ==
  \/ /\ Len(queue[c]) < Depth
     /\ queue' = [queue EXCEPT ![c] = Append(@, n)]
     /\ dealer' = "count_pushed"
  \/ /\ Len(queue[c]) >= Depth
     /\ dealer' = "count_dropped"
     /\ UNCHANGED queue

DealerEnqueue(c) ==
  /\ dealer = "idle"
  /\ SumFunction(received) < MaxFrames
  /\ received' = [received EXCEPT ![c] = @ + 1]
  /\ Enqueue(c, received[c] + 1)
  /\ UNCHANGED <<totals, mainVars, pub, pubVars>>

DealerCount ==
  /\ \/ dealer = "count_pushed"  /\ totals' = [totals EXCEPT !.pushed = @ + 1]
     \/ dealer = "count_dropped" /\ totals' = [totals EXCEPT !.dropped = @ + 1]
  /\ dealer' = "notify"
  /\ UNCHANGED <<queue, received, mainVars, pub, pubVars>>

\* notify_one wakes pub_loop only if it is already blocked: cv_mutex is not
\* taken, so a notification between its test and its block is lost.
NotifyPub == pub' = IF pub = "blocked" THEN "test" ELSE pub

DealerNotify ==
  /\ dealer = "notify"
  /\ dealer' = "idle"
  /\ NotifyPub
  /\ UNCHANGED <<queue, received, totals, mainVars, pubVars>>

Dealer == (\E c \in Channels : DealerEnqueue(c)) \/ DealerCount \/ DealerNotify
-----------------------------------------------------------------------------
(* pub_loop                                                                *)

HasData == \E c \in Channels : queue[c] # <<>>

PubGoto(from, to) ==
  /\ pub = from
  /\ pub' = to
  /\ UNCHANGED <<queue, dealerVars, mainVars, pubVars>>

PubLoopHead == PubGoto("loop", IF running THEN "test" ELSE "exited")

\* The predicate of wait_for; cv_mutex is held, but nobody else takes it.
PubTest == PubGoto("test", IF ~running \/ HasData THEN "woken" ELSE "blocking")

PubBlock == PubGoto("blocking", "blocked")

PubNoTimeout == PubGoto("blocked", "blocked")  \* mutant

\* publish_cv_timeout_ms_ has passed; pub_loop ignores what wait_for returns.
\* (A spurious wakeup tests again, which adds nothing to the earlier of both.)
PubTimeout == PubGoto("blocked", "woken")

PubWoken == PubGoto("woken", IF running THEN "lock" ELSE "exited")

\* Takes sockets_mutex_, which main never holds between two of its steps.
PubLock ==
  /\ pub = "lock"
  /\ pub' = "drain"
  /\ at' = 1
  /\ UNCHANGED <<queue, dealerVars, mainVars, taken, wire, fed>>

AfterPopSocketOnly ==  \* mutant
  IF Current \in sockets THEN "header" ELSE "drain"

\* A channel whose bind failed has no socket, and its frames skip publish_group.
AfterPop == IF Current \in sockets THEN "header" ELSE "feed"

PubPeek ==  \* mutant
  /\ pub = "drain"
  /\ queue[Current] # <<>>
  /\ taken' = [taken EXCEPT ![Current] = Append(@, Head(queue[Current]))]
  /\ pub' = AfterPop
  /\ UNCHANGED <<queue, dealerVars, mainVars, at, wire, fed>>

PubPop ==
  /\ pub = "drain"
  /\ queue[Current] # <<>>
  /\ queue' = [queue EXCEPT ![Current] = Tail(@)]
  /\ taken' = [taken EXCEPT ![Current] = Append(@, Head(queue[Current]))]
  /\ pub' = AfterPop
  /\ UNCHANGED <<dealerVars, mainVars, at, wire, fed>>

\* The last empty queue releases sockets_mutex_.
PubNextQueue ==
  /\ pub = "drain"
  /\ queue[Current] = <<>>
  /\ IF at < Len(DrainOrder)
     THEN at' = at + 1 /\ UNCHANGED pub
     ELSE pub' = "loop" /\ UNCHANGED at
  /\ UNCHANGED <<queue, dealerVars, mainVars, taken, wire, fed>>

InHand == Last(taken[Current])

Send(part) == [wire EXCEPT ![Current] = Append(@, part)]

\* publish_group: the parts of a message are sent one by one, SNDMORE first.
PubSendHeader ==
  /\ pub = "header"
  /\ pub' = "payload"
  /\ wire' = Send(Header(InHand))
  /\ UNCHANGED <<queue, dealerVars, mainVars, at, taken, fed>>

PubSendPayload ==
  /\ pub = "payload"
  /\ pub' = "feed"
  /\ wire' = Send(Payload(InHand))
  /\ UNCHANGED <<queue, dealerVars, mainVars, at, taken, fed>>

\* main assigns pub_callback_ without synchronisation.  A std::function is
\* swapped word by word, so during the assignment it tests as empty, or as set
\* with no function to call yet, which ends the process.
PubFeed ==
  /\ pub = "feed"
  /\ \/ /\ callback = "set"
        /\ fed' = [fed EXCEPT ![Current] = Append(@, InHand)]
        /\ pub' = "drain"
     \/ /\ callback \in {"empty", "assigning"}
        /\ pub' = "drain"
        /\ UNCHANGED fed
     \/ /\ callback = "assigning"
        /\ pub' = "crashed"
        /\ UNCHANGED fed
  /\ UNCHANGED <<queue, dealerVars, mainVars, at, taken, wire>>

PubLoop ==
  \/ PubLoopHead \/ PubTest \/ PubBlock \/ PubTimeout \/ PubWoken \/ PubLock
  \/ PubPop \/ PubNextQueue \/ PubSendHeader \/ PubSendPayload \/ PubFeed
-----------------------------------------------------------------------------
(* main                                                                    *)

\* start: each socket is bound or, after an error, left out.
StartPublisher ==
  /\ main = "start"
  /\ main' = "set_callback"
  /\ sockets' \in SUBSET Channels
  /\ running' = TRUE
  /\ pub' = "loop"
  /\ UNCHANGED <<queue, dealerVars, callback, before, pubVars>>

\* set_pub_callback, after the thread has been started.
SetCallback ==
  /\ \/ /\ main = "set_callback" /\ main' = "assign"
        /\ callback' = "assigning"
        /\ UNCHANGED before
     \/ /\ main = "assign" /\ main' = "serve"
        /\ callback' = "set"
        /\ before' = [c \in Channels |-> Len(taken[c])]
  /\ UNCHANGED <<queue, dealerVars, running, sockets, pub, pubVars>>

Notices == [c \in Channels |-> IF c \in sockets THEN Append(wire[c], Notice) ELSE wire[c]]

PublishShutdownUnlocked ==  \* mutant
  /\ main = "serve"
  /\ main' = "stop"
  /\ wire' = Notices
  /\ UNCHANGED <<queue, dealerVars, running, sockets, callback, before, pub, at, taken, fed>>

\* publish_shutdown, under sockets_mutex_.
PublishShutdown ==
  /\ main = "serve"
  /\ pub \notin Draining
  /\ main' = "stop"
  /\ wire' = Notices
  /\ UNCHANGED <<queue, dealerVars, running, sockets, callback, before, pub, at, taken, fed>>

StopNotifyOnly ==  \* mutant
  /\ main = "stop"
  /\ main' = "notify"
  /\ UNCHANGED <<queue, dealerVars, running, sockets, callback, before, pub, pubVars>>

StopClearRunning ==
  /\ main = "stop"
  /\ main' = "notify"
  /\ running' = FALSE
  /\ UNCHANGED <<queue, dealerVars, sockets, callback, before, pub, pubVars>>

StopNotify ==
  /\ main = "notify"
  /\ main' = "join"
  /\ NotifyPub
  /\ UNCHANGED <<queue, dealerVars, running, sockets, callback, before, pubVars>>

\* The join, and the sockets closed under sockets_mutex_.
StopJoinAndClose ==
  /\ main = "join"
  /\ pub = "exited"
  /\ main' = "stopped"
  /\ sockets' = {}
  /\ UNCHANGED <<queue, dealerVars, running, callback, before, pub, pubVars>>

Startup == StartPublisher \/ SetCallback
Stop    == StopClearRunning \/ StopNotify \/ StopJoinAndClose

\* Nothing happens after a crash.
Next == pub # "crashed" /\ (Dealer \/ PubLoop \/ Startup \/ PublishShutdown \/ Stop)

Spec == Init /\ [][Next]_vars

Alive(A) == pub # "crashed" /\ A

\* Each thread is scheduled and timeouts expire.  No frame needs to arrive,
\* no shutdown is requested, and the dealer need not get to its notification.
FairSpec == Spec /\ WF_vars(Alive(PubLoop)) /\ WF_vars(Alive(Startup)) /\ WF_vars(Alive(Stop))
-----------------------------------------------------------------------------
(* Properties                                                              *)

\* The types, among them that queues never exceed their depth.
TypeOK ==
  /\ queue \in [Channels -> Seq(Nat)] /\ \A c \in Channels : Len(queue[c]) <= Depth
  /\ taken \in [Channels -> Seq(Nat)] /\ fed \in [Channels -> Seq(Nat)]
  /\ wire  \in [Channels -> Seq(Parts)]
  /\ received \in [Channels -> Nat] /\ before \in [Channels -> Nat]
  /\ totals   \in [pushed : Nat, dropped : Nat]
  /\ dealer   \in {"idle", "count_pushed", "count_dropped", "notify"}
  /\ running  \in BOOLEAN
  /\ sockets  \subseteq Channels
  /\ callback \in {"empty", "assigning", "set"}
  /\ main     \in {"start", "set_callback", "assign", "serve", "stop", "notify", "join", "stopped"}
  /\ pub      \in {"none", "loop", "test", "blocking", "blocked", "woken", "lock",
                   "exited", "crashed"} \union Draining
  /\ at       \in 1 .. Len(DrainOrder)

FramesUpTo(count) == UNION {{c} \X (1 .. count[c]) : c \in Channels}
Kept == [c \in Channels |-> Len(taken[c]) + Len(queue[c])]

\* check_status adds up: every frame received is counted once, and what is
\* counted as pushed is what the queues hold and what pub_loop has taken.
CountersBalance ==
  LET uncounted(step) == IF dealer = step THEN 1 ELSE 0
      kept == Cardinality(FramesUpTo(Kept))
  IN  /\ kept = totals.pushed + uncounted("count_pushed")
      /\ Cardinality(FramesUpTo(received)) = kept + totals.dropped + uncounted("count_dropped")

Increasing(s) == \A i, j \in DOMAIN s : i < j => s[i] < s[j]

OrderKept == \A c \in Channels : Increasing(taken[c] \o queue[c])

\* No frame is lost between the dealer and the publisher without a trace, and
\* drops leave gaps but never reorder or duplicate the frames of a channel.
FramesInOrder == CountersBalance /\ OrderKept

Holding(c) == pub \in {"header", "payload", "feed"} /\ Current = c

\* The parts among the first i of a socket, notices aside.
Carried(parts, i) == {j \in 1 .. i : parts[j] # Notice}

\* The k-th part of the messages of the frames ns.
MessagePart(ns, k) == IF k % 2 = 1 THEN Header(ns[(k + 1) \div 2]) ELSE Payload(ns[k \div 2])

\* Notices aside, the parts are the messages of the frames ns, each one once and
\* whole, but for the last ones that are due.
Carries(parts, ns, due) ==
  LET all == Carried(parts, Len(parts))
  IN  /\ Cardinality(all) + due = 2 * Len(ns)
      /\ \A i \in all : parts[i] = MessagePart(ns, Cardinality(Carried(parts, i)))

\* The parts of the frame in hand that pub_loop has yet to send.
Due(c) == CASE Holding(c) /\ pub = "header"  -> 2
            [] Holding(c) /\ pub = "payload" -> 1
            [] OTHER -> 0

\* A socket carries the frames taken from the queue of its own channel.
SocketCarriesItsChannel == \A c \in sockets : Carries(wire[c], taken[c], Due(c))

NoticesBetween ==
  \A c \in Channels : \A i \in DOMAIN wire[c] :
    wire[c][i] = Notice => i = 1 \/ wire[c][i - 1].part = "payload"

\* No part is sent on a socket that stop has closed.
SocketOpenWhileSending == pub \in {"header", "payload"} => Current \in sockets

\* Every socket carries whole messages of its own channel, while it is open,
\* and the shutdown notice, sent by main, never lands inside one that pub_loop
\* is sending.
MessagesWhole == NoticesBetween /\ SocketCarriesItsChannel /\ SocketOpenWhileSending

Done(c) == IF Holding(c) THEN Front(taken[c]) ELSE taken[c]

\* The WebSocket side is fed every frame taken since the callback was set, in
\* order, whether or not its channel has a ZMQ socket; and perhaps the one that
\* pub_loop had in hand at that moment.
FedFromThenOn ==
  \A c \in Channels :
    /\ IsSuffix(fed[c], Done(c))
    /\ callback = "set" => Len(fed[c]) >= Len(Done(c)) - before[c]

-----------------------------------------------------------------------------
(* Refinement                                                              *)

FrameInHand == IF pub \in {"header", "payload", "feed"}
               THEN {[stream |-> Current, number |-> InHand]} ELSE {}

LastFed == [c \in Channels |-> IF fed[c] = <<>> THEN 0 ELSE Last(fed[c])]

Abstract == INSTANCE LossyFeed
            WITH Streams <- Channels, produced <- received, hand <- FrameInHand, delivered <- LastFed

\* From the dealer to the callback, which feeds the WebSocket side, frames are
\* lost in full queues and before the callback is set, but never reordered,
\* repeated or made up.
ImplementsLossyFeed == Abstract!Spec
-----------------------------------------------------------------------------
(* What every step preserves, for the proofs                                *)

\* pub_loop is started by start, and has taken the frame it publishes.
PubStarted == main = "start" <=> pub = "none"
InHandTaken == pub \in {"header", "payload", "feed"} => taken[Current] # <<>>
PubInv == TypeOK /\ PubStarted /\ InHandTaken

\* The frames on their way were numbered by the dealer before the next one.
Numbered ==
  \A c \in Channels : \A i \in DOMAIN (taken[c] \o queue[c]) :
    (taken[c] \o queue[c])[i] \in 1 .. received[c]
OrderInv == OrderKept /\ Numbered

CountInv ==
  /\ IsFiniteSet(FramesUpTo(Kept)) /\ IsFiniteSet(FramesUpTo(received))
  /\ CountersBalance

\* A header that ends what a socket has carried is that of the frame in hand.
HeaderOpen ==
  \A c \in Channels :
    wire[c] # <<>> /\ wire[c][Len(wire[c])].part = "header" => pub = "payload" /\ Current = c
NoticeAfterServe ==
  \A c \in Channels : \A i \in DOMAIN wire[c] :
    wire[c][i].part = "notice" => main \in {"stop", "notify", "join", "stopped"}
WireInv == HeaderOpen /\ NoticeAfterServe /\ NoticesBetween /\ SocketOpenWhileSending

\* Nothing is taken or sent before start has opened the sockets.
NothingBeforeStart ==
  main = "start" => sockets = {} /\ \A c \in Channels : taken[c] = <<>> /\ wire[c] = <<>>
CarryInv == NothingBeforeStart /\ SocketCarriesItsChannel

FedLater ==
  /\ main \in {"start", "set_callback", "assign"} => callback # "set"
  /\ callback # "set" => \A c \in Channels : fed[c] = <<>>
FedInv   == FedLater /\ FedFromThenOn

IndInv == PubInv /\ OrderInv /\ CountInv /\ WireInv /\ CarryInv /\ FedInv
-----------------------------------------------------------------------------
(* Liveness                                                                 *)

Stopping == main \in {"stop", "notify", "join", "stopped"}

\* A frame that was accepted is published, although its notification may be
\* lost: unless the service is stopped first or has crashed at its start.
AcceptedFramesPublished ==
  \A c \in Channels : \A n \in 1 .. MaxFrames :
    Contains(queue[c], n) ~> (Contains(taken[c], n) \/ Stopping \/ pub = "crashed")

\* stop returns, although its notification may be lost too.
StopReturns == main = "stop" ~> main = "stopped"
==============================================================================
