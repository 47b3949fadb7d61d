--------------------------- MODULE SDKSlotManager ---------------------------
(***************************************************************************)
(* SDKSlotManager owns one slot per camera: how many subscribers it has,   *)
(* which data types and channels are active, and the handle of the dealer  *)
(* thread that receives the camera's frames.  The API worker threads call  *)
(* start_capture and stop_capture, the main thread calls stop_all at       *)
(* shutdown, and every dealer runs dealer_loop.                            *)
(*                                                                         *)
(* The bodies of start_capture and stop_capture run under mutex_, HTTP     *)
(* request included, so each is one step.  What runs outside the mutex is  *)
(* a step of its own: joining a dealer, the running_ flag of stop_all, and *)
(* the two conditions of the dealer's loop.                                *)
(***************************************************************************)
EXTENDS Naturals, FiniteSets

CONSTANTS
  Cameras,         \* the configured slots
  Types,           \* data types
  Channel,         \* Channel[t]: the ZMQ channel (data group) of type t
  Callers,         \* threads that call the manager's operations
  Main,            \* the main thread
  Dealers,         \* identities for dealer threads; bounds how many exist
  NoDealer,        \* an empty dealer_thread handle
  MaxSubscribers,  \* bound on subscriber_count
  SdkOutcomes      \* whether a request to the camera SDK may take effect or fail

ASSUME CamerasAssumption == IsFiniteSet(Cameras)
ASSUME ThreadsAssumption == Main \notin Callers
ASSUME DealersAssumption == NoDealer \notin Dealers
ASSUME ChannelAssumption == Channel = [t \in Types |-> Channel[t]]
ASSUME BoundAssumption   == MaxSubscribers \in Nat
ASSUME OutcomeAssumption == SdkOutcomes \subseteq BOOLEAN

VARIABLES
  running,          \* running_
  capturing,        \* slot.capturing
  subscriberCount,  \* slot.subscriber_count
  activeTypes,      \* slot.active_types (a vector without duplicates)
  activeChannels,   \* slot.active_channels
  dealerThread,     \* slot.dealer_thread
  bufferSlots,      \* keys of DataBuffer #1
  sdkStreaming,     \* external: the types the camera SDK is streaming
  dealerPc,         \* where each dealer thread is in dealer_loop
  dealerCam,        \* the camera a dealer was started for
  dealerReady,      \* channels its last zmq_poll reported and it has not read yet
  joining,          \* the thread handles a caller has taken and will join
  mainPc            \* where the main thread is in stop_all

slotVars   == <<capturing, subscriberCount, activeTypes, activeChannels, dealerThread>>
dealerVars == <<dealerPc, dealerCam, dealerReady>>
vars == <<running, slotVars, bufferSlots, sdkStreaming, dealerVars, joining, mainPc>>

managerVars == vars  \* their name in the modules that extend this one

Threads  == Callers \union {Main}
Channels == {Channel[t] : t \in Types}

TypesToChannels(T) == {Channel[t] : t \in T}

\* "none": no such thread; "done": dealer_loop has returned, not joined yet.
DealerPcs == {"none", "setup", "running", "capturing", "poll", "receive", "push", "done"}
MainPcs   == {"run", "mark", "join", "stopped"}

Init ==
  /\ running         = TRUE
  /\ capturing       = [c \in Cameras |-> FALSE]
  /\ subscriberCount = [c \in Cameras |-> 0]
  /\ activeTypes     = [c \in Cameras |-> {}]
  /\ activeChannels  = [c \in Cameras |-> {}]
  /\ dealerThread    = [c \in Cameras |-> NoDealer]
  /\ bufferSlots     = {}
  /\ sdkStreaming    = [c \in Cameras |-> {}]
  /\ dealerPc        = [d \in Dealers |-> "none"]
  /\ dealerCam       \in [Dealers -> Cameras]
  /\ dealerReady     = [d \in Dealers |-> {}]
  /\ joining         = [t \in Threads |-> {}]
  /\ mainPc          = "run"
-----------------------------------------------------------------------------
(* start_capture                                                           *)

\* Slots are created for every requested type, active already or not.
CreateSlots(c, T) == bufferSlots' = bufferSlots \union ({c} \X T)

\* The request names every requested type; its failure is only logged.
RequestStartFirstOnly(c, T) ==  \* mutant
  \E ok \in SdkOutcomes :
    sdkStreaming' = [sdkStreaming EXCEPT ![c] = IF ok /\ ~capturing[c] THEN @ \union T ELSE @]

RequestStart(c, T) ==
  \E ok \in SdkOutcomes :
    sdkStreaming' = [sdkStreaming EXCEPT ![c] = IF ok THEN @ \union T ELSE @]

StartDealer(c, d) ==
  /\ dealerPc[d] = "none"
  /\ dealerThread' = [dealerThread EXCEPT ![c] = d]
  /\ dealerPc'     = [dealerPc EXCEPT ![d] = "setup"]
  /\ dealerCam'    = [dealerCam EXCEPT ![d] = c]
  /\ UNCHANGED dealerReady

FirstSubscriberUnguarded(c) ==  \* mutant
  /\ capturing' = [capturing EXCEPT ![c] = TRUE]
  /\ running'   = TRUE
  /\ \E d \in Dealers : StartDealer(c, d)

FirstSubscriber(c) ==
  /\ ~capturing[c]
  /\ capturing' = [capturing EXCEPT ![c] = TRUE]
  /\ running'   = TRUE
  /\ \E d \in Dealers : StartDealer(c, d)

AdditionalSubscriber(c) ==
  /\ capturing[c]
  /\ UNCHANGED <<capturing, running, dealerThread, dealerVars>>

StartCapture(w, c, T) ==
  /\ joining[w] = {}
  /\ subscriberCount[c] < MaxSubscribers
  /\ subscriberCount' = [subscriberCount EXCEPT ![c] = @ + 1]
  /\ activeTypes'     = [activeTypes EXCEPT ![c] = @ \union T]
  /\ activeChannels'  = [activeChannels EXCEPT ![c] = @ \union TypesToChannels(T)]
  /\ CreateSlots(c, T)
  /\ RequestStart(c, T)
  /\ FirstSubscriber(c) \/ AdditionalSubscriber(c)
  /\ UNCHANGED <<joining, mainPc>>
-----------------------------------------------------------------------------
(* stop_capture                                                            *)

DecrementUnguarded(n) == n - 1  \* mutant

\* A stop without a start finds 0 and leaves it.
Decrement(n) == IF n > 0 THEN n - 1 ELSE n

ChannelsOfStoppedTypes(c, T) == TypesToChannels(T)  \* mutant

ChannelsToDeactivate(c, T) ==
  TypesToChannels(T) \ TypesToChannels(activeTypes[c] \ T)

SubscribersWereGone(c) == subscriberCount[c] = 0 /\ capturing[c]  \* mutant

\* The condition under which the dealer is stopped and its handle taken.
NoSubscribersLeft(c) == Decrement(subscriberCount[c]) = 0 /\ capturing[c]

RequestStopAfterRelease(c, T) ==  \* mutant
  IF capturing[c] /\ ~NoSubscribersLeft(c)
  THEN /\ \E ok \in SdkOutcomes :
            sdkStreaming' = [sdkStreaming EXCEPT ![c] = IF ok THEN @ \ T ELSE @]
       /\ activeChannels' = [activeChannels EXCEPT ![c] = @ \ ChannelsToDeactivate(c, T)]
  ELSE UNCHANGED <<sdkStreaming, activeChannels>>

\* The SDK is told, and channels are dropped, only while the slot is capturing.
RequestStop(c, T) ==
  IF capturing[c]
  THEN /\ \E ok \in SdkOutcomes :
            sdkStreaming' = [sdkStreaming EXCEPT ![c] = IF ok THEN @ \ T ELSE @]
       /\ activeChannels' = [activeChannels EXCEPT ![c] = @ \ ChannelsToDeactivate(c, T)]
  ELSE UNCHANGED <<sdkStreaming, activeChannels>>

ReleaseDealerOnly(w, c) ==  \* mutant
  /\ dealerThread' = [dealerThread EXCEPT ![c] = NoDealer]
  /\ joining'      = [joining EXCEPT ![w] = {dealerThread[c]}]
  /\ UNCHANGED capturing

DropDealer(w, c) ==  \* mutant
  /\ capturing'    = [capturing EXCEPT ![c] = FALSE]
  /\ dealerThread' = [dealerThread EXCEPT ![c] = NoDealer]
  /\ UNCHANGED joining

ReleaseDealer(w, c) ==
  /\ capturing'    = [capturing EXCEPT ![c] = FALSE]
  /\ dealerThread' = [dealerThread EXCEPT ![c] = NoDealer]
  /\ joining'      = [joining EXCEPT ![w] = {dealerThread[c]}]

StopCapture(w, c, T) ==
  /\ joining[w] = {}
  /\ subscriberCount' = [subscriberCount EXCEPT ![c] = Decrement(@)]
  /\ activeTypes'     = [activeTypes EXCEPT ![c] = @ \ T]
  /\ bufferSlots'     = bufferSlots \ ({c} \X T)
  /\ RequestStop(c, T)
  /\ \/ NoSubscribersLeft(c) /\ ReleaseDealer(w, c)
     \/ ~NoSubscribersLeft(c) /\ UNCHANGED <<capturing, dealerThread, joining>>
  /\ UNCHANGED <<running, dealerVars, mainPc>>

\* thread_to_join->join(), outside the mutex: it returns once dealer_loop has.
JoinDealer(w, d) ==
  /\ d \in joining[w]
  /\ dealerPc[d] = "done"
  /\ joining'  = [joining EXCEPT ![w] = @ \ {d}]
  /\ dealerPc' = [dealerPc EXCEPT ![d] = "none"]
  /\ UNCHANGED <<running, slotVars, bufferSlots, sdkStreaming, dealerCam, dealerReady, mainPc>>
-----------------------------------------------------------------------------
(* force_stop_all_captures and stop_all                                    *)

CapturingSlots == {c \in Cameras : capturing[c]}

\* Only slots that are capturing are touched.
ForceStopAllCaptures(w) ==
  LET stopped == CapturingSlots IN
  /\ joining[w] = {}
  /\ capturing'       = [c \in Cameras |-> FALSE]
  /\ subscriberCount' = [c \in Cameras |-> IF c \in stopped THEN 0 ELSE subscriberCount[c]]
  /\ activeTypes'     = [c \in Cameras |-> IF c \in stopped THEN {} ELSE activeTypes[c]]
  /\ activeChannels'  = [c \in Cameras |-> IF c \in stopped THEN {} ELSE activeChannels[c]]
  /\ bufferSlots'     = {k \in bufferSlots : k[1] \notin stopped \/ k[2] \notin activeTypes[k[1]]}
  /\ \E ok \in [Cameras -> SdkOutcomes] :
       sdkStreaming' = [c \in Cameras |-> IF c \in stopped /\ ok[c]
                                          THEN sdkStreaming[c] \ activeTypes[c]
                                          ELSE sdkStreaming[c]]
  /\ dealerThread'    = [c \in Cameras |-> IF c \in stopped THEN NoDealer ELSE dealerThread[c]]
  /\ joining'         = [joining EXCEPT ![w] = {dealerThread[c] : c \in stopped}]
  /\ UNCHANGED <<running, dealerVars, mainPc>>

\* running_ is cleared before the mutex is taken.
StopAllClearRunning ==
  /\ mainPc = "run"
  /\ running' = FALSE
  /\ mainPc'  = "mark"
  /\ UNCHANGED <<slotVars, bufferSlots, sdkStreaming, dealerVars, joining>>

\* active_types and active_channels are left as they are.
StopAllMark ==
  /\ mainPc = "mark"
  /\ capturing'       = [c \in Cameras |-> FALSE]
  /\ subscriberCount' = [c \in Cameras |-> 0]
  /\ dealerThread'    = [c \in Cameras |-> NoDealer]
  /\ joining'         = [joining EXCEPT ![Main] = {dealerThread[c] : c \in Cameras} \ {NoDealer}]
  /\ mainPc'          = "join"
  /\ UNCHANGED <<running, activeTypes, activeChannels, bufferSlots, sdkStreaming, dealerVars>>

\* disconnect() and dispose() of every client, after the joins.
StopAllDispose ==
  /\ mainPc = "join"
  /\ joining[Main] = {}
  /\ mainPc' = "stopped"
  /\ \E ok \in [Cameras -> SdkOutcomes] :
       sdkStreaming' = [c \in Cameras |-> IF ok[c] THEN {} ELSE sdkStreaming[c]]
  /\ UNCHANGED <<running, slotVars, bufferSlots, dealerVars, joining>>
-----------------------------------------------------------------------------
(* dealer_loop                                                             *)

DealerStep(d, from, to) ==
  /\ dealerPc[d] = from
  /\ dealerPc' = [dealerPc EXCEPT ![d] = to]
  /\ UNCHANGED <<running, slotVars, sdkStreaming, dealerCam, joining, mainPc>>

\* With no endpoint connected the loop is never entered.
DealerSetup(d) ==
  /\ \E to \in {"running", "done"} : DealerStep(d, "setup", to)
  /\ UNCHANGED <<bufferSlots, dealerReady>>

DealerCheckRunning(d) ==
  /\ DealerStep(d, "running", IF running THEN "capturing" ELSE "done")
  /\ UNCHANGED <<bufferSlots, dealerReady>>

\* capturing_active() takes the mutex: it waits for a start or stop to finish.
CapturingActive(c) == capturing[c]

DealerCheckCapturing(d) ==
  /\ DealerStep(d, "capturing", IF CapturingActive(dealerCam[d]) THEN "poll" ELSE "done")
  /\ UNCHANGED <<bufferSlots, dealerReady>>

\* zmq_poll returns within 100 ms, with the readable sockets or none of them.
DealerPoll(d) ==
  \E ready \in SUBSET Channels :
    /\ DealerStep(d, "poll", "receive")
    /\ dealerReady' = [dealerReady EXCEPT ![d] = ready]
    /\ UNCHANGED bufferSlots

\* One message of a readable socket.  T are the types of its parts: none for
\* an inactive header or a parse error, and otherwise any types, for ids are
\* not checked against the channel (an unknown one is read as StereoImage) nor
\* against active_types.  The bundles pushed create their slots.  A header
\* that turns out malformed after some parts gives no frame.
DealerReceive(d) ==
  \E ch \in dealerReady[d], T \in SUBSET Types :
    /\ \E to \in IF T = {} THEN {"receive"} ELSE {"receive", "push"} : DealerStep(d, "receive", to)
    /\ dealerReady' = [dealerReady EXCEPT ![d] = @ \ {ch}]
    /\ bufferSlots' = bufferSlots \union ({dealerCam[d]} \X T)

\* try_push of the frame, the counters and notify().
DealerPush(d) ==
  /\ DealerStep(d, "push", "receive")
  /\ UNCHANGED <<bufferSlots, dealerReady>>

DealerRoundDone(d) ==
  /\ dealerReady[d] = {}
  /\ DealerStep(d, "receive", "running")
  /\ UNCHANGED <<bufferSlots, dealerReady>>

Dealer(d) ==
  \/ DealerSetup(d)
  \/ DealerCheckRunning(d)
  \/ DealerCheckCapturing(d)
  \/ DealerPoll(d)
  \/ DealerReceive(d)
  \/ DealerPush(d)
  \/ DealerRoundDone(d)
-----------------------------------------------------------------------------
StopAll == StopAllClearRunning \/ StopAllMark \/ StopAllDispose

Next ==
  \/ \E w \in Callers, c \in Cameras, T \in (SUBSET Types) \ {{}} :
       StartCapture(w, c, T) \/ StopCapture(w, c, T)
  \/ \E w \in Callers : ForceStopAllCaptures(w)
  \/ \E w \in Threads, d \in Dealers : JoinDealer(w, d)
  \/ StopAll
  \/ \E d \in Dealers : Dealer(d)

\* The operating system keeps scheduling the dealers, a thread whose join
\* can return, and the main thread once it has entered stop_all.  No caller
\* is obliged to call anything.
Fairness ==
  /\ \A d \in Dealers : WF_vars(Dealer(d))
  /\ \A w \in Threads, d \in Dealers : WF_vars(JoinDealer(w, d))
  /\ WF_vars(StopAllMark)
  /\ WF_vars(StopAllDispose)

Spec     == Init /\ [][Next]_vars
FairSpec == Spec /\ Fairness
-----------------------------------------------------------------------------
(* Properties                                                              *)

\* The types; a subscriber_count, an int, is never negative.
TypeOK ==
  /\ running         \in BOOLEAN
  /\ capturing       \in [Cameras -> BOOLEAN]
  /\ subscriberCount \in [Cameras -> Nat]
  /\ activeTypes     \in [Cameras -> SUBSET Types]
  /\ activeChannels  \in [Cameras -> SUBSET Channels]
  /\ dealerThread    \in [Cameras -> Dealers \union {NoDealer}]
  /\ bufferSlots     \subseteq Cameras \X Types
  /\ sdkStreaming    \in [Cameras -> SUBSET Types]
  /\ dealerPc        \in [Dealers -> DealerPcs]
  /\ dealerCam       \in [Dealers -> Cameras]
  /\ dealerReady     \in [Dealers -> SUBSET Channels]
  /\ joining         \in [Threads -> SUBSET Dealers]
  /\ mainPc          \in MainPcs

\* A slot captures exactly while somebody is counted as subscribed: no
\* sequence of starts, stops, unmatched stops and shutdown leaves a camera
\* captured for nobody or a subscriber without a capture.
CapturingIffSubscribed == \A c \in Cameras : capturing[c] <=> subscriberCount[c] > 0

\* The slot holds a dealer handle exactly while it captures.  start_capture
\* therefore never overwrites a joinable std::thread, which would terminate
\* the process.
HandleIffCapturing == \A c \in Cameras : capturing[c] <=> dealerThread[c] # NoDealer

\* A handle is in one place: in one slot, or with one caller that will join it.
OwnersDistinct ==
  /\ \A b, c \in Cameras : dealerThread[b] = dealerThread[c] /\ dealerThread[b] # NoDealer => b = c
  /\ \A c \in Cameras, w \in Threads : dealerThread[c] \notin joining[w]
  /\ \A u, w \in Threads : \A d \in joining[u] : d \in joining[w] => u = w

\* The dealer threads that exist are those whose handle is somewhere.
OwnedIffCreated ==
  \A d \in Dealers :
    dealerPc[d] # "none" <=> \/ \E c \in Cameras : dealerThread[c] = d
                            \/ \E w \in Threads : d \in joining[w]

\* Every dealer thread that was created and not joined has exactly one owner,
\* across restarts, concurrent stops and shutdown: no thread is leaked, none
\* is joined twice, and none is destroyed while it can still be joined.
EveryDealerHasOneOwner == OwnersDistinct /\ OwnedIffCreated

\* Whatever is left active after any interleaving of starts and stops still
\* has its channel and its buffer slot: stopping one type of a channel does
\* not close the channel for the others.
ActiveTypesServed ==
  \A c \in Cameras :
    /\ TypesToChannels(activeTypes[c]) \subseteq activeChannels[c]
    /\ {c} \X activeTypes[c] \subseteq bufferSlots

\* The dealer follows the reference count: a first subscriber gets a new
\* thread, later subscribers and partial stops leave it alone, and the last
\* one to leave takes the handle away to join it.
FollowsCount(c) ==
  /\ subscriberCount[c] = 0 /\ subscriberCount'[c] > 0 =>
       /\ dealerThread[c] = NoDealer
       /\ dealerThread'[c] \in Dealers
       /\ dealerPc[dealerThread'[c]] = "none"
  /\ subscriberCount[c] > 0 /\ subscriberCount'[c] > 0 =>
       dealerThread'[c] = dealerThread[c]
  /\ subscriberCount[c] > 0 /\ subscriberCount'[c] = 0 =>
       \E w \in Threads : dealerThread[c] \in joining'[w]

DealerFollowsCount == [][\A c \in Cameras : FollowsCount(c)]_vars

\* What every step preserves.  Main joins only what it took in stop_all.
MainJoinsAfterMark == mainPc \in {"run", "mark"} => joining[Main] = {}

IndInv ==
  /\ TypeOK
  /\ CapturingIffSubscribed
  /\ HandleIffCapturing
  /\ EveryDealerHasOneOwner
  /\ MainJoinsAfterMark

\* The last subscriber's stop stops the dealer, whatever follows.  It does
\* not: a start_capture before the dealer looks at capturing again revives the
\* released dealer, which then never returns.
ReleasedDealerStops ==
  \A w \in Threads, d \in Dealers : (d \in joining[w]) ~> (d \notin joining[w])
=============================================================================
