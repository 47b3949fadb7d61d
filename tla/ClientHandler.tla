---------------------------- MODULE ClientHandler ----------------------------
(***************************************************************************)
(* ClientHandler keeps a session per client and turns requests into calls  *)
(* of the SDKSlotManager.  A request is handled by one worker thread, and  *)
(* sessions_mutex_ is released between the steps of a handler: the session *)
(* is updated first, the slot manager is called afterwards.  Requests of   *)
(* several clients, and of one client on two connections, interleave.      *)
(*                                                                         *)
(* Discipline says how clients behave.  "any": every request at any time.  *)
(* "paired": a client sends one request at a time, starts its own types    *)
(* only when it has none started, and stops all of them.                   *)
(***************************************************************************)
EXTENDS SDKSlotManager

CONSTANTS
  Clients,       \* client ids
  Wants,         \* Wants[k]: the types client k asks for when "paired"
  FirstCamera,   \* get_camera_ids()[0], the only camera handlers use
  NoCamera,      \* an empty camera_id
  DefaultTypes,  \* what an empty type list stands for
  Discipline     \* "any" or "paired"

ASSUME SessionAssumption ==
  /\ IsFiniteSet(Clients)
  /\ FirstCamera \in Cameras
  /\ NoCamera \notin Cameras
  /\ DefaultTypes \subseteq Types /\ DefaultTypes # {}
  /\ Wants \in [Clients -> (SUBSET Types) \ {{}}]
  /\ Discipline \in {"any", "paired"}

VARIABLES
  session,  \* sessions_: connected, active_types and camera_id of each client
  request   \* the request each worker is handling, and the step it is at

handlerVars == <<session, request>>
allVars     == <<vars, handlerVars>>

\* A client without an entry in sessions_ behaves as a disconnected one.
NoSession == [connected |-> FALSE, types |-> {}, camera |-> NoCamera]

Idle == [step |-> "idle"]

Pending(step, k, T) == [step |-> step, client |-> k, types |-> T]

Free(w) == request[w] = Idle /\ joining[w] = {}

HandlerInit ==
  /\ Init
  /\ session = [k \in Clients |-> NoSession]
  /\ request = [w \in Callers |-> Idle]
-----------------------------------------------------------------------------
(* What clients send (external)                                            *)

RequestsOf(k) == {w \in Callers : request[w] # Idle /\ request[w].client = k}

MaySend(k) == Discipline = "any" \/ RequestsOf(k) = {}

\* An empty list stands for the default types.
Spellings(T) == IF T = DefaultTypes THEN {T, {}} ELSE {T}

TypeLists(k) == IF Discipline = "paired" THEN Spellings(Wants[k]) ELSE SUBSET Types

MayStart(k) == MaySend(k) /\ (Discipline = "any" \/ session[k].types = {})

MayStop(k) == MaySend(k) /\ (Discipline = "any" \/ session[k].types # {})
-----------------------------------------------------------------------------
(* Handlers                                                                *)

CaptureTypesAsIs(T) == T  \* mutant

CaptureTypes(T) == IF T = {} THEN DefaultTypes ELSE T

HandleConnect(w, k) ==
  /\ Free(w) /\ MaySend(k)
  /\ ~session[k].connected
  /\ session' = [session EXCEPT ![k].connected = TRUE]
  /\ UNCHANGED <<managerVars, request>>

EndSessionKeepingTypes(k) ==  \* mutant
  session' = [session EXCEPT ![k].connected = FALSE]

\* The session is ended first; what it had started is stopped in a later step.
EndSession(k) ==
  session' = [session EXCEPT ![k].connected = FALSE, ![k].types = {}]

CleanupAfterClear(k) == Idle  \* mutant

\* What is left to do once the session has ended, from the types it had.
Cleanup(k) ==
  IF session[k].types # {} /\ session[k].camera # NoCamera
  THEN Pending("sdk_stop", k, session[k].types)
  ELSE Idle

HandleDisconnect(w, k) ==
  /\ Free(w) /\ MaySend(k)
  /\ session[k].connected
  /\ EndSession(k)
  /\ request' = [request EXCEPT ![w] = Cleanup(k)]
  /\ UNCHANGED managerVars

HandleStartCapture(w, k) ==
  /\ Free(w) /\ MayStart(k)
  /\ session[k].connected
  /\ \E T \in TypeLists(k) :
       /\ session' = [session EXCEPT ![k].types = @ \union CaptureTypes(T)]
       /\ request' = [request EXCEPT ![w] = Pending("set_camera", k, CaptureTypes(T))]
  /\ UNCHANGED managerVars

HandleStopCapture(w, k) ==
  /\ Free(w) /\ MayStop(k)
  /\ session[k].connected
  /\ \E T \in TypeLists(k) :
       /\ session' = [session EXCEPT ![k].types = @ \ CaptureTypes(T)]
       /\ request' = [request EXCEPT ![w] = Pending("sdk_stop", k, CaptureTypes(T))]
  /\ UNCHANGED managerVars

\* The second critical section of handle_start_capture: it does not look at
\* whether the session is still connected.
SetCamera(w) ==
  /\ request[w].step = "set_camera"
  /\ session' = [session EXCEPT ![request[w].client].camera = FirstCamera]
  /\ request' = [request EXCEPT ![w].step = "sdk_start"]
  /\ UNCHANGED managerVars

SdkStart(w) ==
  /\ request[w].step = "sdk_start"
  /\ StartCapture(w, FirstCamera, request[w].types)
  /\ request' = [request EXCEPT ![w] = Idle]
  /\ UNCHANGED session

SdkStop(w) ==
  /\ request[w].step = "sdk_stop"
  /\ StopCapture(w, FirstCamera, request[w].types)
  /\ request' = [request EXCEPT ![w].step = "returning"]
  /\ UNCHANGED session

\* stop_capture returns, and the client gets its response, after the join.
Respond(w) ==
  /\ request[w].step = "returning"
  /\ joining[w] = {}
  /\ request' = [request EXCEPT ![w] = Idle]
  /\ UNCHANGED <<managerVars, session>>

Handle(w) == SetCamera(w) \/ SdkStart(w) \/ SdkStop(w) \/ Respond(w)

HandlerNext ==
  \/ \E w \in Callers, k \in Clients :
       \/ HandleConnect(w, k)
       \/ HandleDisconnect(w, k)
       \/ HandleStartCapture(w, k)
       \/ HandleStopCapture(w, k)
  \/ \E w \in Callers : Handle(w)
  \/ /\ \/ \E w \in Callers, d \in Dealers : JoinDealer(w, d)
        \/ \E d \in Dealers : Dealer(d)
     /\ UNCHANGED handlerVars

HandlerSpec == HandlerInit /\ [][HandlerNext]_allVars
-----------------------------------------------------------------------------
(* Properties                                                              *)

Sessions == [connected : BOOLEAN, types : SUBSET Types, camera : Cameras \union {NoCamera}]

Requests == [step : {"set_camera", "sdk_start", "sdk_stop", "returning"}, client : Clients,
             types : (SUBSET Types) \ {{}}]

\* The types; no request is passed on with an empty type list.
SessionTypeOK ==
  /\ session \in [Clients -> Sessions]
  /\ request \in [Callers -> {Idle} \union Requests]

\* Only a connected session has active types, whatever clients send and
\* however the handlers interleave: a disconnect never leaves types behind
\* that a later session of that client would inherit.
TypesOnlyWhileConnected ==
  \A k \in Clients : session[k].types # {} => session[k].connected

StepsOf(k) == {request[w].step : w \in RequestsOf(k)}

\* The clients whose start has reached the slot manager and whose stop has not.
Subscribed ==
  {k \in Clients : \/ session[k].types # {} /\ StepsOf(k) \cap {"set_camera", "sdk_start"} = {}
                   \/ "sdk_stop" \in StepsOf(k)}

\* With clients that pair their starts and stops, subscriber_count is the
\* number of clients that are subscribed.
CountIsSubscribers == subscriberCount[FirstCamera] = Cardinality(Subscribed)

\* What every step preserves when clients pair their starts and stops: a
\* client has one request at a time, its session shows what that will do, both
\* name all of the client's types or none, and the session names a camera once
\* a start has got as far.
OneRequest ==
  \A v, w \in Callers :
    request[v] # Idle /\ request[w] # Idle /\ request[v].client = request[w].client => v = w

SessionsAhead ==
  \A w \in Callers : request[w] # Idle =>
    (session[request[w].client].types # {} <=> request[w].step \in {"set_camera", "sdk_start"})

OwnTypes ==
  /\ \A k \in Clients : session[k].types \in {{}, Wants[k]}
  /\ \A w \in Callers : request[w] # Idle => request[w].types = Wants[request[w].client]

CameraKnown ==
  \A k \in Clients :
    session[k].types # {} /\ "set_camera" \notin StepsOf(k) => session[k].camera # NoCamera

PairedInv ==
  /\ IndInv /\ SessionTypeOK
  /\ OneRequest /\ SessionsAhead /\ OwnTypes /\ CameraKnown
  /\ CountIsSubscribers

\* What is active and streaming is what the subscribed clients asked for: no
\* more than that, and all of it if they share no type.
Wanted == UNION {Wants[k] : k \in Subscribed}

NothingUnwanted ==
  /\ activeTypes[FirstCamera] \subseteq Wanted
  /\ activeChannels[FirstCamera] \subseteq TypesToChannels(activeTypes[FirstCamera])
  /\ sdkStreaming[FirstCamera] \subseteq Wanted

AllWanted == Wanted \subseteq activeTypes[FirstCamera] \cap sdkStreaming[FirstCamera]

NoTypeShared == \A j, k \in Clients : j # k => Wants[j] \cap Wants[k] = {}

\* ... every type a subscribed client asked for is active and streaming ...
SubscribedTypesStream ==
  \A k \in Subscribed :
    session[k].types \subseteq activeTypes[FirstCamera] \cap sdkStreaming[FirstCamera]

\* ... and when nobody is connected any more nothing is left: no capture, no
\* active type or channel, and the SDK streams nothing.
NoOrphanedCapture ==
  (\A k \in Clients : ~session[k].connected) /\ (\A w \in Callers : Free(w)) =>
    /\ subscriberCount[FirstCamera] = 0
    /\ ~capturing[FirstCamera]
    /\ activeTypes[FirstCamera] = {}
    /\ activeChannels[FirstCamera] = {}
    /\ sdkStreaming[FirstCamera] = {}

\* Several clients may request the same type at a time, and each gets it until
\* it stops itself.  It does not: active_types is a set, so the stop of one
\* client ends the type for all.
SharedTypesKeepStreaming ==
  \A k \in Subscribed :
    session[k].types \subseteq activeTypes[FirstCamera]
==============================================================================
