---------------------------- MODULE ServiceProofs ----------------------------
(***************************************************************************)
(* Safety of the slot manager and of its two users, which carry over its   *)
(* invariant.                                                              *)
(*                                                                         *)
(* The slots of SDKSlotManager, for any number of cameras, types, callers  *)
(* and dealer threads, whatever the camera SDK answers.                    *)
(*                                                                         *)
(* The sessions of ClientHandler, for any number of clients, workers and   *)
(* cameras: their types, whatever clients send, and, for clients that pair *)
(* their starts and stops, that the slot manager counts exactly those that *)
(* are subscribed.                                                         *)
(*                                                                         *)
(* The shutdown, for any number of servers, workers, connections, cameras  *)
(* and dealers: connections have one owner, and nothing is left when main  *)
(* has returned.                                                           *)
(***************************************************************************)
EXTENDS ClientHandler, Shutdown, FiniteSetTheorems, TLAPS

(***************************************************************************)
(*                              SDKSlotManager                             *)
(***************************************************************************)

LEMMA ChannelOfType == \A T \in SUBSET Types : TypesToChannels(T) \in SUBSET Channels
BY DEF TypesToChannels, Channels

LEMMA InitIndInv == Init => IndInv
BY DealersAssumption
   DEF Init, IndInv, TypeOK, CapturingIffSubscribed, HandleIffCapturing, EveryDealerHasOneOwner,
       OwnersDistinct, OwnedIffCreated, MainJoinsAfterMark, DealerPcs, MainPcs, Threads
-----------------------------------------------------------------------------
(* start_capture and stop_capture                                          *)

LEMMA StartCaptureIndInv ==
  ASSUME IndInv, NEW w \in Callers, NEW c \in Cameras, NEW T \in SUBSET Types,
         StartCapture(w, c, T)
  PROVE  IndInv'
<1> USE DEF StartCapture, CreateSlots, RequestStart, slotVars, dealerVars
<1>1. TypesToChannels(T) \in SUBSET Channels
  BY ChannelOfType
<1>2. /\ activeTypes' \in [Cameras -> SUBSET Types]
      /\ activeChannels' \in [Cameras -> SUBSET Channels]
      /\ subscriberCount' \in [Cameras -> Nat]
      /\ bufferSlots' \subseteq Cameras \X Types
      /\ sdkStreaming' \in [Cameras -> SUBSET Types]
      /\ subscriberCount'[c] > 0
      /\ \A b \in Cameras : b # c => subscriberCount'[b] = subscriberCount[b]
  BY <1>1 DEF IndInv, TypeOK
<1>3. CASE AdditionalSubscriber(c)
  <2>1. TypeOK'
    BY <1>2, <1>3 DEF AdditionalSubscriber, IndInv, TypeOK
  <2>2. CapturingIffSubscribed'
    BY <1>2, <1>3 DEF AdditionalSubscriber, IndInv, TypeOK, CapturingIffSubscribed
  <2>3. HandleIffCapturing' /\ EveryDealerHasOneOwner' /\ MainJoinsAfterMark'
    BY <1>3 DEF AdditionalSubscriber, IndInv, HandleIffCapturing, EveryDealerHasOneOwner,
                OwnersDistinct, OwnedIffCreated, MainJoinsAfterMark
  <2> QED BY <2>1, <2>2, <2>3 DEF IndInv
<1>4. CASE FirstSubscriber(c)
  <2>1. PICK d \in Dealers : StartDealer(c, d)
    BY <1>4 DEF FirstSubscriber
  <2> USE DEF StartDealer, FirstSubscriber
  <2>2. TypeOK'
    BY <1>2, <1>4, <2>1 DEF IndInv, TypeOK, DealerPcs
  <2>3. CapturingIffSubscribed'
    BY <1>2, <1>4 DEF IndInv, TypeOK, CapturingIffSubscribed
  <2>4. HandleIffCapturing'
    BY <1>4, <2>1, DealersAssumption DEF IndInv, TypeOK, HandleIffCapturing
  <2>5. dealerThread[c] = NoDealer
    BY <1>4 DEF IndInv, HandleIffCapturing
  <2>6. /\ \A b \in Cameras : dealerThread[b] # d
        /\ \A u \in Threads : d \notin joining[u]
    BY <2>1 DEF IndInv, EveryDealerHasOneOwner, OwnedIffCreated
  <2>7. OwnersDistinct'
    BY <2>1, <2>6 DEF IndInv, TypeOK, EveryDealerHasOneOwner, OwnersDistinct
  <2>8. OwnedIffCreated'
    BY <2>1, <2>5, DealersAssumption DEF IndInv, TypeOK, EveryDealerHasOneOwner, OwnedIffCreated
  <2>9. MainJoinsAfterMark'
    BY DEF IndInv, MainJoinsAfterMark
  <2> QED BY <2>2, <2>3, <2>4, <2>7, <2>8, <2>9 DEF IndInv, EveryDealerHasOneOwner
<1> QED BY <1>3, <1>4

LEMMA StopCaptureIndInv ==
  ASSUME IndInv, NEW w \in Callers, NEW c \in Cameras, NEW T \in SUBSET Types,
         StopCapture(w, c, T)
  PROVE  IndInv'
<1> USE DEF StopCapture, dealerVars
<1>1. /\ activeTypes' \in [Cameras -> SUBSET Types]
      /\ activeChannels' \in [Cameras -> SUBSET Channels]
      /\ subscriberCount' \in [Cameras -> Nat]
      /\ subscriberCount'[c] = Decrement(subscriberCount[c])
      /\ bufferSlots' \subseteq Cameras \X Types
      /\ sdkStreaming' \in [Cameras -> SUBSET Types]
      /\ \A b \in Cameras : b # c => subscriberCount'[b] = subscriberCount[b]
  BY DEF IndInv, TypeOK, Decrement, RequestStop
<1>2. CASE ~NoSubscribersLeft(c) /\ UNCHANGED <<capturing, dealerThread, joining>>
  <2>1. TypeOK'
    BY <1>1, <1>2 DEF IndInv, TypeOK
  <2>2. CapturingIffSubscribed'
    BY <1>1, <1>2 DEF IndInv, TypeOK, CapturingIffSubscribed, NoSubscribersLeft, Decrement
  <2>3. HandleIffCapturing' /\ EveryDealerHasOneOwner' /\ MainJoinsAfterMark'
    BY <1>2 DEF IndInv, HandleIffCapturing, EveryDealerHasOneOwner, OwnersDistinct,
                OwnedIffCreated, MainJoinsAfterMark
  <2> QED BY <2>1, <2>2, <2>3 DEF IndInv
<1>3. CASE NoSubscribersLeft(c) /\ ReleaseDealer(w, c)
  <2> USE DEF ReleaseDealer, NoSubscribersLeft
  <2>1. dealerThread[c] \in Dealers /\ w \in Threads
    BY <1>3, DealersAssumption DEF IndInv, TypeOK, HandleIffCapturing, Threads
  <2>2. TypeOK'
    BY <1>1, <1>3, <2>1 DEF IndInv, TypeOK
  <2>3. CapturingIffSubscribed'
    BY <1>1, <1>3 DEF IndInv, TypeOK, CapturingIffSubscribed
  <2>4. HandleIffCapturing'
    BY <1>3 DEF IndInv, TypeOK, HandleIffCapturing
  <2>5. OwnersDistinct'
    BY <1>3, <2>1, DealersAssumption
       DEF IndInv, TypeOK, EveryDealerHasOneOwner, OwnersDistinct
  <2>6. OwnedIffCreated'
    <3>1. ASSUME NEW d \in Dealers, d # dealerThread[c]
          PROVE  /\ \A b \in Cameras : dealerThread'[b] = d <=> dealerThread[b] = d
                 /\ \A u \in Threads : d \in joining'[u] <=> d \in joining[u]
      BY <1>3, <2>1, <3>1, DealersAssumption DEF IndInv, TypeOK
    <3>2. dealerThread[c] \in joining'[w] /\ dealerPc'[dealerThread[c]] # "none"
      BY <1>3, <2>1 DEF IndInv, TypeOK, EveryDealerHasOneOwner, OwnedIffCreated
    <3> QED BY <2>1, <3>1, <3>2 DEF IndInv, EveryDealerHasOneOwner, OwnedIffCreated
  <2>7. MainJoinsAfterMark'
    BY <1>3, ThreadsAssumption DEF IndInv, TypeOK, MainJoinsAfterMark, Threads
  <2> QED BY <2>2, <2>3, <2>4, <2>5, <2>6, <2>7 DEF IndInv, EveryDealerHasOneOwner
<1> QED BY <1>2, <1>3

LEMMA JoinDealerIndInv ==
  ASSUME IndInv, NEW w \in Threads, NEW d \in Dealers, JoinDealer(w, d)
  PROVE  IndInv'
<1> USE DEF JoinDealer, slotVars
<1>1. TypeOK' /\ CapturingIffSubscribed' /\ HandleIffCapturing' /\ MainJoinsAfterMark'
  BY DEF IndInv, TypeOK, CapturingIffSubscribed, HandleIffCapturing, MainJoinsAfterMark, DealerPcs
<1>2. OwnersDistinct'
  BY DEF IndInv, TypeOK, EveryDealerHasOneOwner, OwnersDistinct
<1>3. OwnedIffCreated'
  <2>1. dealerPc'[d] = "none" /\ \A u \in Threads : d \notin joining'[u]
    BY DEF IndInv, TypeOK, EveryDealerHasOneOwner, OwnersDistinct
  <2>2. \A c \in Cameras : dealerThread[c] # d
    BY DEF IndInv, EveryDealerHasOneOwner, OwnersDistinct
  <2>3. ASSUME NEW e \in Dealers, e # d
        PROVE  /\ dealerPc'[e] = dealerPc[e]
               /\ \A u \in Threads : e \in joining'[u] <=> e \in joining[u]
    BY <2>3 DEF IndInv, TypeOK
  <2> QED BY <2>1, <2>2, <2>3 DEF IndInv, EveryDealerHasOneOwner, OwnedIffCreated
<1> QED BY <1>1, <1>2, <1>3 DEF IndInv, EveryDealerHasOneOwner
-----------------------------------------------------------------------------
(* force_stop_all_captures and stop_all                                    *)

\* Both operations empty every handle that is held and put it in joining[w].
LEMMA HandlesMove ==
  ASSUME IndInv, NEW w \in Threads, joining[w] = {},
         dealerThread' = [c \in Cameras |-> NoDealer],
         joining' = [joining EXCEPT ![w] = {dealerThread[c] : c \in Cameras} \ {NoDealer}],
         UNCHANGED dealerPc
  PROVE  EveryDealerHasOneOwner' /\ joining' \in [Threads -> SUBSET Dealers]
<1>1. joining' \in [Threads -> SUBSET Dealers]
  BY DEF IndInv, TypeOK
<1>2. OwnersDistinct'
  <2>1. NoDealer \notin UNION {joining'[u] : u \in Threads}
    BY <1>1, DealersAssumption
  <2>2. ASSUME NEW u \in Threads, NEW v \in Threads, NEW d \in joining'[u], d \in joining'[v]
        PROVE  u = v
    BY <2>2 DEF IndInv, TypeOK, EveryDealerHasOneOwner, OwnersDistinct
  <2> QED BY <2>1, <2>2 DEF OwnersDistinct
<1>3. OwnedIffCreated'
  <2>1. ASSUME NEW d \in Dealers
        PROVE  d \in joining'[w] <=> \E c \in Cameras : dealerThread[c] = d
    BY DealersAssumption DEF IndInv, TypeOK
  <2>2. \A u \in Threads : u # w => joining'[u] = joining[u]
    BY DEF IndInv, TypeOK
  <2>3. \A d \in Dealers, c \in Cameras : dealerThread'[c] # d
    BY DealersAssumption
  <2> QED BY <2>1, <2>2, <2>3 DEF IndInv, EveryDealerHasOneOwner, OwnedIffCreated
<1> QED BY <1>1, <1>2, <1>3 DEF EveryDealerHasOneOwner

LEMMA ForceStopIndInv ==
  ASSUME IndInv, NEW w \in Callers, ForceStopAllCaptures(w)
  PROVE  IndInv'
<1> USE DEF ForceStopAllCaptures, CapturingSlots, dealerVars
<1>1. w \in Threads /\ joining[w] = {}
  BY DEF Threads
<1>2. dealerThread' = [c \in Cameras |-> NoDealer]
  BY DEF IndInv, HandleIffCapturing
<1>3. {dealerThread[c] : c \in CapturingSlots} = {dealerThread[c] : c \in Cameras} \ {NoDealer}
  BY DEF IndInv, HandleIffCapturing
<1>4. EveryDealerHasOneOwner' /\ joining' \in [Threads -> SUBSET Dealers]
  BY <1>1, <1>2, <1>3, HandlesMove
<1>5. TypeOK'
  <2>1. /\ capturing' \in [Cameras -> BOOLEAN]
        /\ subscriberCount' \in [Cameras -> Nat]
        /\ activeTypes' \in [Cameras -> SUBSET Types]
        /\ activeChannels' \in [Cameras -> SUBSET Channels]
        /\ bufferSlots' \subseteq Cameras \X Types
    BY DEF IndInv, TypeOK
  <2>2. sdkStreaming' \in [Cameras -> SUBSET Types]
    BY DEF IndInv, TypeOK
  <2> QED BY <1>2, <1>4, <2>1, <2>2 DEF IndInv, TypeOK
<1>6. CapturingIffSubscribed' /\ HandleIffCapturing'
  BY <1>2 DEF IndInv, TypeOK, CapturingIffSubscribed, HandleIffCapturing
<1>7. MainJoinsAfterMark'
  BY ThreadsAssumption DEF IndInv, TypeOK, MainJoinsAfterMark, Threads
<1> QED BY <1>4, <1>5, <1>6, <1>7 DEF IndInv

LEMMA StopAllIndInv ==
  ASSUME IndInv, StopAll
  PROVE  IndInv'
<1>1. CASE StopAllClearRunning
  BY <1>1 DEF StopAllClearRunning, slotVars, dealerVars, IndInv, TypeOK, MainPcs, CapturingIffSubscribed,
              HandleIffCapturing, EveryDealerHasOneOwner, OwnersDistinct, OwnedIffCreated,
              MainJoinsAfterMark
<1>2. CASE StopAllMark
  <2> USE DEF StopAllMark, dealerVars
  <2>1. Main \in Threads /\ joining[Main] = {}
    BY <1>2 DEF Threads, IndInv, MainJoinsAfterMark
  <2>2. EveryDealerHasOneOwner' /\ joining' \in [Threads -> SUBSET Dealers]
    BY <1>2, <2>1, HandlesMove
  <2>3. TypeOK'
    BY <1>2, <2>2 DEF IndInv, TypeOK, MainPcs
  <2>4. CapturingIffSubscribed' /\ HandleIffCapturing' /\ MainJoinsAfterMark'
    BY <1>2 DEF CapturingIffSubscribed, HandleIffCapturing, MainJoinsAfterMark
  <2> QED BY <2>2, <2>3, <2>4 DEF IndInv
<1>3. CASE StopAllDispose
  <2>1. TypeOK'
    BY <1>3 DEF StopAllDispose, slotVars, dealerVars, IndInv, TypeOK, MainPcs
  <2>2. /\ CapturingIffSubscribed' /\ HandleIffCapturing'
        /\ EveryDealerHasOneOwner' /\ MainJoinsAfterMark'
    BY <1>3 DEF StopAllDispose, slotVars, dealerVars, IndInv, CapturingIffSubscribed, HandleIffCapturing,
                EveryDealerHasOneOwner, OwnersDistinct, OwnedIffCreated, MainJoinsAfterMark
  <2> QED BY <2>1, <2>2 DEF IndInv
<1> QED BY <1>1, <1>2, <1>3 DEF StopAll
-----------------------------------------------------------------------------
(* dealer_loop                                                             *)

\* A dealer moves through its loop without touching a slot or a handle.
LEMMA DealerIndInv ==
  ASSUME IndInv, NEW d \in Dealers, Dealer(d)
  PROVE  IndInv'
<1>1. PICK from \in DealerPcs \ {"none"}, to \in DealerPcs \ {"none"} : DealerStep(d, from, to)
  BY DEF Dealer, DealerSetup, DealerCheckRunning, DealerCheckCapturing, DealerPoll, DealerReceive,
         DealerPush, DealerRoundDone, DealerPcs
<1>2. bufferSlots' \subseteq Cameras \X Types
  BY DEF Dealer, DealerSetup, DealerCheckRunning, DealerCheckCapturing, DealerPoll, DealerReceive,
         DealerPush, DealerRoundDone, IndInv, TypeOK
<1>3. dealerReady' \in [Dealers -> SUBSET Channels]
  BY DEF Dealer, DealerSetup, DealerCheckRunning, DealerCheckCapturing, DealerPoll, DealerReceive,
         DealerPush, DealerRoundDone, IndInv, TypeOK
<1>4. TypeOK'
  BY <1>1, <1>2, <1>3 DEF DealerStep, slotVars, IndInv, TypeOK
<1>5. \A e \in Dealers : dealerPc'[e] # "none" <=> dealerPc[e] # "none"
  BY <1>1 DEF DealerStep, IndInv, TypeOK
<1>6. /\ CapturingIffSubscribed' /\ HandleIffCapturing'
      /\ EveryDealerHasOneOwner' /\ MainJoinsAfterMark'
  BY <1>1, <1>5 DEF DealerStep, slotVars, IndInv, CapturingIffSubscribed, HandleIffCapturing,
                    EveryDealerHasOneOwner, OwnersDistinct, OwnedIffCreated, MainJoinsAfterMark
<1> QED BY <1>4, <1>6 DEF IndInv
-----------------------------------------------------------------------------
LEMMA StutterIndInv == IndInv /\ UNCHANGED vars => IndInv'
<1> SUFFICES ASSUME IndInv, UNCHANGED vars PROVE IndInv'
  OBVIOUS
<1>1. TypeOK'
  BY DEF vars, slotVars, dealerVars, IndInv, TypeOK
<1>2. /\ CapturingIffSubscribed' /\ HandleIffCapturing'
      /\ EveryDealerHasOneOwner' /\ MainJoinsAfterMark'
  BY DEF vars, slotVars, dealerVars, IndInv, CapturingIffSubscribed, HandleIffCapturing,
         EveryDealerHasOneOwner, OwnersDistinct, OwnedIffCreated, MainJoinsAfterMark
<1> QED BY <1>1, <1>2 DEF IndInv

LEMMA NextIndInv == IndInv /\ [Next]_vars => IndInv'
<1> SUFFICES ASSUME IndInv, [Next]_vars PROVE IndInv'
  OBVIOUS
<1>1. ASSUME NEW w \in Callers, NEW c \in Cameras, NEW T \in (SUBSET Types) \ {{}},
             StartCapture(w, c, T)
      PROVE  IndInv'
  BY <1>1, StartCaptureIndInv
<1>2. ASSUME NEW w \in Callers, NEW c \in Cameras, NEW T \in (SUBSET Types) \ {{}},
             StopCapture(w, c, T)
      PROVE  IndInv'
  BY <1>2, StopCaptureIndInv
<1>3. ASSUME NEW w \in Callers, ForceStopAllCaptures(w) PROVE IndInv'
  BY <1>3, ForceStopIndInv
<1>4. ASSUME NEW w \in Threads, NEW d \in Dealers, JoinDealer(w, d) PROVE IndInv'
  BY <1>4, JoinDealerIndInv
<1>5. CASE StopAll
  BY <1>5, StopAllIndInv
<1>6. ASSUME NEW d \in Dealers, Dealer(d) PROVE IndInv'
  BY <1>6, DealerIndInv
<1>7. CASE UNCHANGED vars
  BY <1>7, StutterIndInv
<1> QED BY <1>1, <1>2, <1>3, <1>4, <1>5, <1>6, <1>7 DEF Next

THEOREM IndInvHolds == Spec => []IndInv
BY InitIndInv, NextIndInv, PTL DEF Spec

THEOREM TypeCorrect == Spec => []TypeOK
BY IndInvHolds, PTL DEF IndInv

\* A camera is captured exactly while somebody is counted for it.
THEOREM CaptureFollowsCount == Spec => []CapturingIffSubscribed
BY IndInvHolds, PTL DEF IndInv

\* No start_capture overwrites a handle that can still be joined.
THEOREM HandleFollowsCapture == Spec => []HandleIffCapturing
BY IndInvHolds, PTL DEF IndInv

\* No dealer thread is leaked and none has two owners.
THEOREM DealersAreOwned == Spec => []EveryDealerHasOneOwner
BY IndInvHolds, PTL DEF IndInv
-----------------------------------------------------------------------------
LEMMA StartFollowsCount ==
  ASSUME IndInv, NEW w \in Callers, NEW c \in Cameras, NEW T \in SUBSET Types,
         StartCapture(w, c, T), NEW b \in Cameras
  PROVE  FollowsCount(b)
<1> USE DEF StartCapture, slotVars, dealerVars, FollowsCount
<1>1. CASE AdditionalSubscriber(c)
  BY <1>1 DEF AdditionalSubscriber, IndInv, TypeOK, CapturingIffSubscribed
<1>2. CASE FirstSubscriber(c)
  <2>1. ~capturing[c] /\ dealerThread[c] = NoDealer /\ ~(subscriberCount[c] > 0)
    BY <1>2 DEF FirstSubscriber, IndInv, HandleIffCapturing, CapturingIffSubscribed
  <2>2. PICK d \in Dealers : StartDealer(c, d)
    BY <1>2 DEF FirstSubscriber
  <2>3. CASE b = c
    BY <2>1, <2>2, <2>3 DEF StartDealer, IndInv, TypeOK
  <2>4. CASE b # c
    BY <2>2, <2>4 DEF StartDealer, IndInv, TypeOK
  <2> QED BY <2>3, <2>4
<1> QED BY <1>1, <1>2

LEMMA StopFollowsCount ==
  ASSUME IndInv, NEW w \in Callers, NEW c \in Cameras, NEW T \in SUBSET Types,
         StopCapture(w, c, T), NEW b \in Cameras
  PROVE  FollowsCount(b)
<1> USE DEF StopCapture, FollowsCount, Decrement, NoSubscribersLeft
<1>1. CASE ~NoSubscribersLeft(c) /\ UNCHANGED <<capturing, dealerThread, joining>>
  BY <1>1 DEF IndInv, TypeOK, CapturingIffSubscribed
<1>2. CASE NoSubscribersLeft(c) /\ ReleaseDealer(w, c)
  <2>1. CASE b = c
    BY <1>2, <2>1 DEF ReleaseDealer, IndInv, TypeOK, CapturingIffSubscribed, Threads
  <2>2. CASE b # c
    BY <1>2, <2>2 DEF ReleaseDealer, IndInv, TypeOK
  <2> QED BY <2>1, <2>2
<1> QED BY <1>1, <1>2

\* The dealer follows the reference count in every step of every caller.
THEOREM DealerLifecycle == Spec => DealerFollowsCount
<1>1. IndInv /\ [Next]_vars => [\A c \in Cameras : FollowsCount(c)]_vars
  <2> SUFFICES ASSUME IndInv, Next, NEW b \in Cameras PROVE FollowsCount(b)
    OBVIOUS
  <2>1. ASSUME NEW w \in Callers, NEW c \in Cameras, NEW T \in (SUBSET Types) \ {{}},
               StartCapture(w, c, T)
        PROVE  FollowsCount(b)
    BY <2>1, StartFollowsCount
  <2>2. ASSUME NEW w \in Callers, NEW c \in Cameras, NEW T \in (SUBSET Types) \ {{}},
               StopCapture(w, c, T)
        PROVE  FollowsCount(b)
    BY <2>2, StopFollowsCount
  <2>3. ASSUME NEW w \in Callers, ForceStopAllCaptures(w) PROVE FollowsCount(b)
    <3>1. subscriberCount[b] > 0 => b \in CapturingSlots
      BY DEF IndInv, CapturingIffSubscribed, CapturingSlots
    <3>2. subscriberCount'[b] = IF b \in CapturingSlots THEN 0 ELSE subscriberCount[b]
      BY <2>3 DEF ForceStopAllCaptures
    <3>3. subscriberCount[b] > 0 => dealerThread[b] \in joining'[w] /\ w \in Threads
      BY <2>3, <3>1 DEF ForceStopAllCaptures, IndInv, TypeOK, Threads
    <3> QED BY <3>1, <3>2, <3>3 DEF FollowsCount, IndInv, TypeOK
  <2>4. ASSUME NEW w \in Threads, NEW d \in Dealers, JoinDealer(w, d) PROVE FollowsCount(b)
    BY <2>4 DEF JoinDealer, slotVars, FollowsCount, IndInv, TypeOK
  <2>5. CASE StopAll
    <3>1. CASE StopAllMark
      <4>1. subscriberCount[b] > 0 => dealerThread[b] # NoDealer
        BY DEF IndInv, CapturingIffSubscribed, HandleIffCapturing
      <4>2. subscriberCount[b] > 0 => dealerThread[b] \in joining'[Main] /\ Main \in Threads
        BY <3>1, <4>1 DEF StopAllMark, IndInv, TypeOK, Threads
      <4>3. subscriberCount'[b] = 0
        BY <3>1 DEF StopAllMark
      <4> QED BY <4>2, <4>3 DEF FollowsCount
    <3>2. CASE StopAllClearRunning \/ StopAllDispose
      BY <3>2 DEF StopAllClearRunning, StopAllDispose, slotVars, FollowsCount, IndInv, TypeOK
    <3> QED BY <2>5, <3>1, <3>2 DEF StopAll
  <2>6. ASSUME NEW d \in Dealers, Dealer(d) PROVE FollowsCount(b)
    <3>1. UNCHANGED slotVars
      BY <2>6 DEF Dealer, DealerSetup, DealerCheckRunning, DealerCheckCapturing, DealerPoll,
                  DealerReceive, DealerPush, DealerRoundDone, DealerStep
    <3> QED BY <3>1 DEF slotVars, FollowsCount, IndInv, TypeOK
  <2> QED BY <2>1, <2>2, <2>3, <2>4, <2>5, <2>6 DEF Next
<1> QED BY <1>1, IndInvHolds, PTL DEF Spec, DealerFollowsCount
-----------------------------------------------------------------------------
LEMMA StopServed ==
  ASSUME TypeOK, ActiveTypesServed, NEW w \in Callers, NEW c \in Cameras, NEW T \in SUBSET Types,
         StopCapture(w, c, T)
  PROVE  ActiveTypesServed'
<1> SUFFICES ASSUME NEW b \in Cameras
             PROVE  /\ TypesToChannels(activeTypes'[b]) \subseteq activeChannels'[b]
                    /\ {b} \X activeTypes'[b] \subseteq bufferSlots'
  BY DEF ActiveTypesServed, TypesToChannels
<1>1. activeTypes'[b] = IF b = c THEN activeTypes[c] \ T ELSE activeTypes[b]
  BY DEF StopCapture, TypeOK
<1>2. \/ activeChannels'[b] = activeChannels[b]
      \/ b = c /\ activeChannels'[b] = activeChannels[c] \ ChannelsToDeactivate(c, T)
  BY DEF StopCapture, RequestStop, TypeOK
<1>3. TypesToChannels(activeTypes[c] \ T) \subseteq TypesToChannels(activeTypes[c])
  BY DEF TypesToChannels
<1>4. TypesToChannels(activeTypes'[b]) \subseteq activeChannels'[b]
  BY <1>1, <1>2, <1>3 DEF ActiveTypesServed, ChannelsToDeactivate
<1>5. {b} \X activeTypes'[b] \subseteq bufferSlots'
  BY <1>1 DEF StopCapture, ActiveTypesServed
<1> QED BY <1>4, <1>5

LEMMA NextServed == IndInv /\ ActiveTypesServed /\ [Next]_vars => ActiveTypesServed'
<1> SUFFICES ASSUME TypeOK, ActiveTypesServed, [Next]_vars PROVE ActiveTypesServed'
  BY DEF IndInv
<1>1. ASSUME NEW w \in Callers, NEW c \in Cameras, NEW T \in SUBSET Types, StartCapture(w, c, T)
      PROVE  ActiveTypesServed'
  <2> SUFFICES ASSUME NEW b \in Cameras
               PROVE  /\ TypesToChannels(activeTypes'[b]) \subseteq activeChannels'[b]
                      /\ {b} \X activeTypes'[b] \subseteq bufferSlots'
    BY DEF ActiveTypesServed, TypesToChannels
  <2>1. /\ activeTypes'[b] = IF b = c THEN activeTypes[c] \union T ELSE activeTypes[b]
        /\ activeChannels'[b] = IF b = c THEN activeChannels[c] \union TypesToChannels(T)
                                         ELSE activeChannels[b]
        /\ bufferSlots' = bufferSlots \union ({c} \X T)
    BY <1>1 DEF StartCapture, CreateSlots, TypeOK
  <2>2. TypesToChannels(activeTypes[c] \union T)
          = TypesToChannels(activeTypes[c]) \union TypesToChannels(T)
    BY DEF TypesToChannels
  <2> QED BY <2>1, <2>2 DEF ActiveTypesServed
<1>2. ASSUME NEW w \in Callers, ForceStopAllCaptures(w)
      PROVE  ActiveTypesServed'
  <2> SUFFICES ASSUME NEW b \in Cameras
               PROVE  /\ TypesToChannels(activeTypes'[b]) \subseteq activeChannels'[b]
                      /\ {b} \X activeTypes'[b] \subseteq bufferSlots'
    BY DEF ActiveTypesServed, TypesToChannels
  <2>1. CASE b \in CapturingSlots
    BY <1>2, <2>1 DEF ForceStopAllCaptures, TypesToChannels
  <2>2. CASE b \notin CapturingSlots
    BY <1>2, <2>2 DEF ForceStopAllCaptures, ActiveTypesServed
  <2> QED BY <2>1, <2>2
<1>3. ASSUME NEW d \in Dealers, Dealer(d)
      PROVE  ActiveTypesServed'
  <2>1. UNCHANGED <<activeTypes, activeChannels>>
    BY <1>3 DEF Dealer, DealerSetup, DealerCheckRunning, DealerCheckCapturing, DealerPoll,
                DealerReceive, DealerPush, DealerRoundDone, DealerStep, slotVars
  <2>2. bufferSlots \subseteq bufferSlots'
    BY <1>3 DEF Dealer, DealerSetup, DealerCheckRunning, DealerCheckCapturing, DealerPoll,
                DealerReceive, DealerPush, DealerRoundDone, DealerStep, slotVars
  <2> QED BY <2>1, <2>2 DEF ActiveTypesServed, TypesToChannels
<1>4. CASE UNCHANGED <<activeTypes, activeChannels, bufferSlots>>
  BY <1>4 DEF ActiveTypesServed, TypesToChannels
<1>5. StopAll \/ UNCHANGED vars \/ (\E w \in Threads, d \in Dealers : JoinDealer(w, d))
      => UNCHANGED <<activeTypes, activeChannels, bufferSlots>>
  BY DEF StopAll, StopAllClearRunning, StopAllMark, StopAllDispose, JoinDealer, vars, slotVars
<1> QED BY <1>1, <1>2, <1>3, <1>4, <1>5, StopServed DEF Next

\* Whatever is active has its channel and its buffer slot.
THEOREM ActiveIsServed == Spec => []ActiveTypesServed
<1>1. Init => ActiveTypesServed
  BY DEF Init, ActiveTypesServed, TypesToChannels
<1> QED BY <1>1, NextServed, IndInvHolds, PTL DEF Spec

(***************************************************************************)
(*                              ClientHandler                              *)
(***************************************************************************)

SessionInv == SessionTypeOK /\ TypesOnlyWhileConnected

LEMMA CaptureTypesOK == \A T \in SUBSET Types : CaptureTypes(T) \in (SUBSET Types) \ {{}}
BY SessionAssumption DEF CaptureTypes

LEMMA ListsOfTypes == \A k \in Clients : TypeLists(k) \subseteq SUBSET Types
BY SessionAssumption DEF TypeLists, Spellings

\* A free worker has no request, and a pending one is a record of its fields.
LEMMA IdleHasNoOtherStep ==
  /\ Idle.step = "idle"
  /\ \A r \in Requests : r # Idle
BY DEF Idle, Requests

LEMMA InitSessionInv == HandlerInit => SessionInv
BY SessionAssumption
   DEF HandlerInit, SessionInv, SessionTypeOK, TypesOnlyWhileConnected, NoSession, Sessions

LEMMA ConnectSessionInv ==
  ASSUME SessionInv, NEW w \in Callers, NEW k \in Clients, HandleConnect(w, k)
  PROVE  SessionInv'
BY DEF HandleConnect, SessionInv, SessionTypeOK, TypesOnlyWhileConnected, Sessions

LEMMA DisconnectSessionInv ==
  ASSUME SessionInv, NEW w \in Callers, NEW k \in Clients, HandleDisconnect(w, k)
  PROVE  SessionInv'
<1>1. Cleanup(k) \in {Idle} \union Requests
  BY DEF Cleanup, Pending, Requests, SessionInv, SessionTypeOK, Sessions
<1>2. session' \in [Clients -> Sessions]
  BY DEF HandleDisconnect, EndSession, SessionInv, SessionTypeOK, Sessions
<1>3. \A j \in Clients : session'[j].types # {} => session'[j].connected
  BY DEF HandleDisconnect, EndSession, SessionInv, SessionTypeOK, TypesOnlyWhileConnected, Sessions
<1>4. request' \in [Callers -> {Idle} \union Requests]
  BY <1>1 DEF HandleDisconnect, SessionInv, SessionTypeOK
<1> QED BY <1>2, <1>3, <1>4 DEF SessionInv, SessionTypeOK, TypesOnlyWhileConnected

LEMMA StartSessionInv ==
  ASSUME SessionInv, NEW w \in Callers, NEW k \in Clients, HandleStartCapture(w, k)
  PROVE  SessionInv'
<1>1. PICK T \in TypeLists(k) :
        /\ session' = [session EXCEPT ![k].types = @ \union CaptureTypes(T)]
        /\ request' = [request EXCEPT ![w] = Pending("set_camera", k, CaptureTypes(T))]
  BY DEF HandleStartCapture
<1>2. CaptureTypes(T) \in (SUBSET Types) \ {{}}
  BY CaptureTypesOK, ListsOfTypes
<1>3. session' \in [Clients -> Sessions] /\ TypesOnlyWhileConnected'
  BY <1>1, <1>2 DEF HandleStartCapture, SessionInv, SessionTypeOK, TypesOnlyWhileConnected, Sessions
<1>4. request' \in [Callers -> {Idle} \union Requests]
  BY <1>1, <1>2 DEF SessionInv, SessionTypeOK, Pending, Requests
<1> QED BY <1>3, <1>4 DEF SessionInv, SessionTypeOK

LEMMA StopSessionInv ==
  ASSUME SessionInv, NEW w \in Callers, NEW k \in Clients, HandleStopCapture(w, k)
  PROVE  SessionInv'
<1>1. PICK T \in TypeLists(k) :
        /\ session' = [session EXCEPT ![k].types = @ \ CaptureTypes(T)]
        /\ request' = [request EXCEPT ![w] = Pending("sdk_stop", k, CaptureTypes(T))]
  BY DEF HandleStopCapture
<1>2. CaptureTypes(T) \in (SUBSET Types) \ {{}}
  BY CaptureTypesOK, ListsOfTypes
<1>3. session' \in [Clients -> Sessions] /\ TypesOnlyWhileConnected'
  BY <1>1, <1>2 DEF HandleStopCapture, SessionInv, SessionTypeOK, TypesOnlyWhileConnected, Sessions
<1>4. request' \in [Callers -> {Idle} \union Requests]
  BY <1>1, <1>2 DEF SessionInv, SessionTypeOK, Pending, Requests
<1> QED BY <1>3, <1>4 DEF SessionInv, SessionTypeOK

LEMMA HandleSessionInv ==
  ASSUME SessionInv, NEW w \in Callers, Handle(w)
  PROVE  SessionInv'
<1>1. request[w] \in Requests
  BY IdleHasNoOtherStep DEF Handle, SetCamera, SdkStart, SdkStop, Respond, SessionInv, SessionTypeOK
<1>2. session' \in [Clients -> Sessions] /\ TypesOnlyWhileConnected'
  <2>1. CASE SetCamera(w)
    <3> DEFINE k == request[w].client
    <3>1. k \in Clients
      BY <1>1 DEF Requests
    <3>2. session' = [session EXCEPT ![k].camera = FirstCamera]
      BY <2>1 DEF SetCamera
    <3> HIDE DEF k
    <3> QED BY <3>1, <3>2, SessionAssumption
            DEF SessionInv, SessionTypeOK, TypesOnlyWhileConnected, Sessions
  <2>2. CASE session' = session
    BY <2>2 DEF SessionInv, SessionTypeOK, TypesOnlyWhileConnected
  <2> QED BY <2>1, <2>2 DEF Handle, SdkStart, SdkStop, Respond
<1>3. request' \in [Callers -> {Idle} \union Requests]
  BY <1>1 DEF Handle, SetCamera, SdkStart, SdkStop, Respond, SessionInv, SessionTypeOK, Requests
<1> QED BY <1>2, <1>3 DEF SessionInv, SessionTypeOK

LEMMA NextSessionInv == SessionInv /\ [HandlerNext]_allVars => SessionInv'
<1> SUFFICES ASSUME SessionInv, [HandlerNext]_allVars PROVE SessionInv'
  OBVIOUS
<1>1. CASE UNCHANGED handlerVars
  BY <1>1 DEF handlerVars, SessionInv, SessionTypeOK, TypesOnlyWhileConnected
<1>2. CASE UNCHANGED allVars
  BY <1>1, <1>2 DEF allVars
<1>3. CASE \E w \in Callers, k \in Clients :
             \/ HandleConnect(w, k) \/ HandleDisconnect(w, k)
             \/ HandleStartCapture(w, k) \/ HandleStopCapture(w, k)
  BY <1>3, ConnectSessionInv, DisconnectSessionInv, StartSessionInv, StopSessionInv
<1>4. CASE \E w \in Callers : Handle(w)
  BY <1>4, HandleSessionInv
<1> QED BY <1>1, <1>2, <1>3, <1>4 DEF HandlerNext

\* Sessions and requests have their types, also when clients send anything.
THEOREM SessionTypeCorrect == HandlerSpec => []SessionTypeOK
<1>1. SessionInv => SessionTypeOK
  BY DEF SessionInv
<1> QED BY <1>1, InitSessionInv, NextSessionInv, PTL DEF HandlerSpec

\* No disconnect leaves types behind, also when clients send anything.
THEOREM DisconnectedHaveNoTypes == HandlerSpec => []TypesOnlyWhileConnected
<1>1. SessionInv => TypesOnlyWhileConnected
  BY DEF SessionInv
<1> QED BY <1>1, InitSessionInv, NextSessionInv, PTL DEF HandlerSpec
-----------------------------------------------------------------------------
(* Clients that pair their starts and stops.                               *)

PairedParts == SessionTypeOK /\ OneRequest /\ SessionsAhead /\ OwnTypes /\ CameraKnown

\* Whether client k is subscribed, when r is its request or Idle: its session
\* says it when no request is on its way, and a pending stop does.
LEMMA WhoIsSubscribed ==
  ASSUME SessionTypeOK, SessionsAhead, NEW w \in Callers, NEW k \in Clients,
         RequestsOf(k) \subseteq {w}, request[w] = Idle \/ request[w].client = k
  PROVE  /\ StepsOf(k) = IF request[w] = Idle THEN {} ELSE {request[w].step}
         /\ k \in Subscribed <=> IF request[w] = Idle THEN session[k].types # {}
                                                      ELSE request[w].step = "sdk_stop"
<1>1. CASE request[w] = Idle
  <2>1. RequestsOf(k) = {}
    BY <1>1 DEF RequestsOf
  <2> QED BY <1>1, <2>1 DEF StepsOf, Subscribed
<1>2. CASE request[w] # Idle
  <2>1. RequestsOf(k) = {w}
    BY <1>2 DEF RequestsOf
  <2>2. StepsOf(k) = {request[w].step}
    BY <2>1 DEF StepsOf
  <2>3. session[k].types # {} <=> request[w].step \in {"set_camera", "sdk_start"}
    BY <1>2 DEF SessionsAhead
  <2> QED BY <1>2, <2>2, <2>3 DEF Subscribed
<1> QED BY <1>1, <1>2

\* One worker handles one step of one client's request: r is the request it
\* then has and s the client's session.
LEMMA StepOfOneClient ==
  ASSUME PairedParts, NEW w \in Callers, NEW k \in Clients,
         RequestsOf(k) \subseteq {w}, request[w] = Idle \/ request[w].client = k,
         NEW r \in {Idle} \union Requests, r = Idle \/ r.client = k,
         NEW s \in Sessions, s.types \in {{}, Wants[k]},
         r # Idle => /\ r.types = Wants[k]
                     /\ s.types # {} <=> r.step \in {"set_camera", "sdk_start"},
         s.types # {} /\ (r = Idle \/ r.step # "set_camera") => s.camera # NoCamera,
         request' = [request EXCEPT ![w] = r], session' = [session EXCEPT ![k] = s]
  PROVE  /\ PairedParts'
         /\ Subscribed' = IF (IF r = Idle THEN s.types # {} ELSE r.step = "sdk_stop")
                          THEN Subscribed \union {k} ELSE Subscribed \ {k}
<1> USE DEF PairedParts
<1>1. SessionTypeOK'
  BY DEF SessionTypeOK
<1>2. /\ session'[k] = s /\ request'[w] = r
      /\ \A j \in Clients \ {k} : session'[j] = session[j]
      /\ \A v \in Callers \ {w} : request'[v] = request[v]
  BY DEF SessionTypeOK
<1>3. RequestsOf(k)' \subseteq {w}
  BY <1>2 DEF RequestsOf
<1>4. ASSUME NEW j \in Clients \ {k}
      PROVE  RequestsOf(j)' = RequestsOf(j) /\ StepsOf(j)' = StepsOf(j)
  <2>1. RequestsOf(j)' = RequestsOf(j)
    BY <1>2 DEF RequestsOf
  <2>2. w \notin RequestsOf(j)
    BY DEF RequestsOf
  <2>3. \A v \in RequestsOf(j) : request'[v] = request[v]
    BY <1>2, <2>2 DEF RequestsOf
  <2> QED BY <2>1, <2>3 DEF StepsOf
<1>5. OneRequest'
  BY <1>2, <1>3 DEF OneRequest, RequestsOf
<1>6. SessionsAhead'
  <2> SUFFICES ASSUME NEW v \in Callers, request'[v] # Idle
               PROVE  session'[request'[v].client].types # {}
                        <=> request'[v].step \in {"set_camera", "sdk_start"}
    BY DEF SessionsAhead
  <2>1. CASE v = w
    BY <2>1, <1>2
  <2>2. CASE v # w
    <3>1. request'[v] = request[v] /\ request[v] # Idle
      BY <2>2, <1>2
    <3>2. request[v].client \in Clients /\ request[v].client # k
      BY <2>2, <3>1 DEF RequestsOf, SessionTypeOK, Requests
    <3> QED BY <3>1, <3>2, <1>2 DEF SessionsAhead
  <2> QED BY <2>1, <2>2
<1>7. OwnTypes'
  <2>1. \A j \in Clients : session'[j].types \in {{}, Wants[j]}
    BY <1>2 DEF OwnTypes
  <2>2. \A v \in Callers : request'[v] # Idle => request'[v].types = Wants[request'[v].client]
    BY <1>2 DEF OwnTypes
  <2> QED BY <2>1, <2>2 DEF OwnTypes
<1>8. /\ StepsOf(k)' = IF r = Idle THEN {} ELSE {r.step}
      /\ k \in Subscribed' <=> IF r = Idle THEN s.types # {} ELSE r.step = "sdk_stop"
  <2>1. CASE r = Idle
    <3>1. RequestsOf(k)' = {}
      BY <2>1, <1>2, <1>3 DEF RequestsOf
    <3> QED BY <2>1, <3>1, <1>2 DEF StepsOf, Subscribed
  <2>2. CASE r # Idle
    <3>1. RequestsOf(k)' = {w}
      BY <2>2, <1>2, <1>3 DEF RequestsOf
    <3>2. StepsOf(k)' = {r.step}
      BY <3>1, <1>2 DEF StepsOf
    <3> QED BY <2>2, <3>2, <1>2 DEF Subscribed
  <2> QED BY <2>1, <2>2
<1>9. CameraKnown'
  <2> SUFFICES ASSUME NEW j \in Clients, session'[j].types # {}, "set_camera" \notin StepsOf(j)'
               PROVE  session'[j].camera # NoCamera
    BY DEF CameraKnown
  <2>1. CASE j = k
    BY <2>1, <1>2, <1>8
  <2>2. CASE j # k
    BY <2>2, <1>2, <1>4 DEF CameraKnown
  <2> QED BY <2>1, <2>2
<1>10. \A j \in Clients \ {k} : j \in Subscribed' <=> j \in Subscribed
  BY <1>2, <1>4 DEF Subscribed
<1>11. Subscribed \subseteq Clients /\ Subscribed' \subseteq Clients
  BY DEF Subscribed
<1> QED BY <1>1, <1>5, <1>6, <1>7, <1>8, <1>9, <1>10, <1>11

LEMMA SubscribedIsFinite == IsFiniteSet(Subscribed) /\ Cardinality(Subscribed) \in Nat
<1>1. Subscribed \subseteq Clients
  BY DEF Subscribed
<1> QED BY <1>1, SessionAssumption, FS_Subset, FS_CardinalityType

LEMMA InitPairedInv == HandlerInit => PairedInv
<1> SUFFICES ASSUME HandlerInit PROVE PairedInv
  OBVIOUS
<1>1. IndInv
  BY InitIndInv DEF HandlerInit
<1>2. SessionTypeOK
  BY InitSessionInv DEF SessionInv
<1>3. \A k \in Clients : RequestsOf(k) = {} /\ session[k].types = {}
  BY DEF HandlerInit, RequestsOf, NoSession
<1>4. OneRequest /\ SessionsAhead /\ OwnTypes /\ CameraKnown
  BY <1>3 DEF HandlerInit, OneRequest, SessionsAhead, OwnTypes, CameraKnown
<1>5. Subscribed = {}
  BY <1>3 DEF Subscribed, StepsOf
<1>6. CountIsSubscribers
  BY <1>5, FS_EmptySet, SessionAssumption DEF CountIsSubscribers, HandlerInit, Init
<1> QED BY <1>1, <1>2, <1>4, <1>6 DEF PairedInv

LEMMA ConnectPairedInv ==
  ASSUME Discipline = "paired", PairedInv,
         NEW w \in Callers, NEW k \in Clients, HandleConnect(w, k)
  PROVE  PairedInv' /\ Subscribed' = Subscribed
<1> DEFINE s == [session[k] EXCEPT !.connected = TRUE]
<1>1. PairedParts /\ IndInv' /\ subscriberCount' = subscriberCount
  BY StutterIndInv DEF PairedInv, PairedParts, HandleConnect, managerVars, vars, slotVars
<1>2. RequestsOf(k) = {} /\ request[w] = Idle
  BY DEF HandleConnect, MaySend, Free
<1>3. /\ session' = [session EXCEPT ![k] = s]
      /\ request' = [request EXCEPT ![w] = Idle]
  BY <1>1, <1>2 DEF HandleConnect, PairedParts, SessionTypeOK
<1>4. s \in Sessions /\ s.types = session[k].types /\ s.camera = session[k].camera
  BY <1>1 DEF PairedParts, SessionTypeOK, Sessions
<1>5. /\ StepsOf(k) = {}
      /\ k \in Subscribed <=> session[k].types # {}
  BY <1>1, <1>2, WhoIsSubscribed DEF PairedParts
<1>6. s.types # {} => s.camera # NoCamera
  BY <1>1, <1>4, <1>5 DEF PairedParts, CameraKnown
<1>7. s.types \in {{}, Wants[k]}
  BY <1>1, <1>4 DEF PairedParts, OwnTypes
<1> HIDE DEF s
<1>8. /\ PairedParts'
      /\ Subscribed' = IF s.types # {} THEN Subscribed \union {k} ELSE Subscribed \ {k}
  BY <1>1, <1>2, <1>3, <1>4, <1>6, <1>7, StepOfOneClient
<1>9. Subscribed' = Subscribed
  BY <1>4, <1>5, <1>8
<1> QED BY <1>1, <1>8, <1>9 DEF PairedInv, PairedParts, CountIsSubscribers

LEMMA DisconnectPairedInv ==
  ASSUME Discipline = "paired", PairedInv,
         NEW w \in Callers, NEW k \in Clients, HandleDisconnect(w, k)
  PROVE  PairedInv' /\ Subscribed' = Subscribed
<1> DEFINE s == [session[k] EXCEPT !.connected = FALSE, !.types = {}]
<1> DEFINE r == Cleanup(k)
<1>1. PairedParts /\ IndInv' /\ subscriberCount' = subscriberCount
  BY StutterIndInv DEF PairedInv, PairedParts, HandleDisconnect, managerVars, vars, slotVars
<1>2. RequestsOf(k) = {} /\ request[w] = Idle
  BY DEF HandleDisconnect, MaySend, Free
<1>3. /\ session' = [session EXCEPT ![k] = s]
      /\ request' = [request EXCEPT ![w] = r]
  BY <1>1, <1>2 DEF HandleDisconnect, EndSession, PairedParts, SessionTypeOK, Sessions
<1>4. s \in Sessions /\ s.types = {}
  BY <1>1 DEF PairedParts, SessionTypeOK, Sessions
<1>5. /\ StepsOf(k) = {}
      /\ k \in Subscribed <=> session[k].types # {}
  BY <1>1, <1>2, WhoIsSubscribed DEF PairedParts
<1>6. session[k].types # {} => session[k].camera # NoCamera
  BY <1>1, <1>5 DEF PairedParts, CameraKnown
<1>7. r = IF session[k].types # {} THEN Pending("sdk_stop", k, session[k].types) ELSE Idle
  BY <1>6 DEF Cleanup
<1>8. r \in {Idle} \union Requests /\ (r # Idle => r.client = k /\ r.step = "sdk_stop" /\ r.types = Wants[k])
  BY <1>1, <1>7 DEF Pending, Requests, PairedParts, SessionTypeOK, Sessions, OwnTypes
<1>9. r = Idle <=> session[k].types = {}
  BY <1>7, IdleHasNoOtherStep DEF Pending, Idle
<1> HIDE DEF s, r
<1>10. /\ PairedParts'
       /\ Subscribed' = IF (IF r = Idle THEN s.types # {} ELSE r.step = "sdk_stop")
                        THEN Subscribed \union {k} ELSE Subscribed \ {k}
  <2>1. r # Idle => /\ r.types = Wants[k]
                    /\ s.types # {} <=> r.step \in {"set_camera", "sdk_start"}
    BY <1>4, <1>8
  <2> QED BY <1>1, <1>2, <1>3, <1>4, <1>8, <2>1, StepOfOneClient, ZenonT(30)
<1>11. Subscribed' = Subscribed
  BY <1>4, <1>5, <1>8, <1>9, <1>10
<1> QED BY <1>1, <1>10, <1>11 DEF PairedInv, PairedParts, CountIsSubscribers

\* A client that pairs its requests names the types it wants, one way or another.
LEMMA PairedTypes ==
  ASSUME Discipline = "paired", NEW k \in Clients, NEW T \in TypeLists(k)
  PROVE  CaptureTypes(T) = Wants[k] /\ Wants[k] \in (SUBSET Types) \ {{}}
BY SessionAssumption DEF TypeLists, Spellings, CaptureTypes

LEMMA StartPairedInv ==
  ASSUME Discipline = "paired", PairedInv,
         NEW w \in Callers, NEW k \in Clients, HandleStartCapture(w, k)
  PROVE  PairedInv' /\ Subscribed' = Subscribed
<1> DEFINE s == [session[k] EXCEPT !.types = Wants[k]]
<1> DEFINE r == Pending("set_camera", k, Wants[k])
<1>1. PairedParts /\ IndInv' /\ subscriberCount' = subscriberCount
  BY StutterIndInv DEF PairedInv, PairedParts, HandleStartCapture, managerVars, vars, slotVars
<1>2. RequestsOf(k) = {} /\ request[w] = Idle /\ session[k].types = {}
  BY DEF HandleStartCapture, MayStart, MaySend, Free
<1>3. Wants[k] \in (SUBSET Types) \ {{}}
  BY SessionAssumption
<1>4. /\ session' = [session EXCEPT ![k] = s]
      /\ request' = [request EXCEPT ![w] = r]
  <2>1. PICK T \in TypeLists(k) :
          /\ session' = [session EXCEPT ![k].types = @ \union CaptureTypes(T)]
          /\ request' = [request EXCEPT ![w] = Pending("set_camera", k, CaptureTypes(T))]
    BY DEF HandleStartCapture
  <2>2. CaptureTypes(T) = Wants[k]
    BY PairedTypes
  <2> QED BY <1>1, <1>2, <2>1, <2>2 DEF PairedParts, SessionTypeOK
<1>5. s \in Sessions /\ s.types = Wants[k]
  BY <1>1, <1>3 DEF PairedParts, SessionTypeOK, Sessions
<1>6. r \in Requests /\ r # Idle /\ r.client = k /\ r.step = "set_camera" /\ r.types = Wants[k]
  BY <1>3, IdleHasNoOtherStep DEF Pending, Requests
<1>7. k \notin Subscribed
  BY <1>1, <1>2, WhoIsSubscribed DEF PairedParts
<1> HIDE DEF s, r
<1>8. /\ PairedParts'
      /\ Subscribed' = IF (IF r = Idle THEN s.types # {} ELSE r.step = "sdk_stop")
                       THEN Subscribed \union {k} ELSE Subscribed \ {k}
  BY <1>1, <1>2, <1>3, <1>4, <1>5, <1>6, StepOfOneClient
<1>9. Subscribed' = Subscribed
  BY <1>6, <1>7, <1>8
<1> QED BY <1>1, <1>8, <1>9 DEF PairedInv, PairedParts, CountIsSubscribers

LEMMA StopPairedInv ==
  ASSUME Discipline = "paired", PairedInv,
         NEW w \in Callers, NEW k \in Clients, HandleStopCapture(w, k)
  PROVE  PairedInv' /\ Subscribed' = Subscribed
<1> DEFINE s == [session[k] EXCEPT !.types = {}]
<1> DEFINE r == Pending("sdk_stop", k, Wants[k])
<1>1. PairedParts /\ IndInv' /\ subscriberCount' = subscriberCount
  BY StutterIndInv DEF PairedInv, PairedParts, HandleStopCapture, managerVars, vars, slotVars
<1>2. RequestsOf(k) = {} /\ request[w] = Idle /\ session[k].types # {}
  BY DEF HandleStopCapture, MayStop, MaySend, Free
<1>3. Wants[k] \in (SUBSET Types) \ {{}}
  BY SessionAssumption
<1>4. /\ session' = [session EXCEPT ![k] = s]
      /\ request' = [request EXCEPT ![w] = r]
  <2>1. PICK T \in TypeLists(k) :
          /\ session' = [session EXCEPT ![k].types = @ \ CaptureTypes(T)]
          /\ request' = [request EXCEPT ![w] = Pending("sdk_stop", k, CaptureTypes(T))]
    BY DEF HandleStopCapture
  <2>2. CaptureTypes(T) = Wants[k] /\ session[k].types = Wants[k]
    BY <1>1, <1>2, PairedTypes DEF PairedParts, OwnTypes
  <2> QED BY <1>1, <2>1, <2>2 DEF PairedParts, SessionTypeOK
<1>5. s \in Sessions /\ s.types = {}
  BY <1>1 DEF PairedParts, SessionTypeOK, Sessions
<1>6. r \in Requests /\ r # Idle /\ r.client = k /\ r.step = "sdk_stop" /\ r.types = Wants[k]
  BY <1>3, IdleHasNoOtherStep DEF Pending, Requests
<1>7. k \in Subscribed
  BY <1>1, <1>2, WhoIsSubscribed DEF PairedParts
<1> HIDE DEF s, r
<1>8. /\ PairedParts'
      /\ Subscribed' = IF (IF r = Idle THEN s.types # {} ELSE r.step = "sdk_stop")
                       THEN Subscribed \union {k} ELSE Subscribed \ {k}
  BY <1>1, <1>2, <1>4, <1>5, <1>6, StepOfOneClient
<1>9. Subscribed' = Subscribed
  BY <1>6, <1>7, <1>8
<1> QED BY <1>1, <1>8, <1>9 DEF PairedInv, PairedParts, CountIsSubscribers

\* The worker w handles a step of the request of client k: what holds before.
LEMMA RequestAtWork ==
  ASSUME PairedParts, NEW w \in Callers, request[w] # Idle
  PROVE  LET k == request[w].client IN
         /\ k \in Clients /\ request[w] \in Requests /\ request[w].types = Wants[k]
         /\ RequestsOf(k) \subseteq {w}
         /\ session[k] \in Sessions /\ session[k].types \in {{}, Wants[k]}
         /\ session[k].types # {} <=> request[w].step \in {"set_camera", "sdk_start"}
         /\ request[w].step = "sdk_start" => session[k].camera # NoCamera
         /\ k \in Subscribed <=> request[w].step = "sdk_stop"
<1> DEFINE k == request[w].client
<1>1. k \in Clients /\ request[w] \in Requests /\ request[w].types = Wants[k]
  BY DEF PairedParts, SessionTypeOK, Requests, OwnTypes
<1>2. RequestsOf(k) \subseteq {w}
  BY DEF PairedParts, OneRequest, RequestsOf
<1>3. session[k] \in Sessions /\ session[k].types \in {{}, Wants[k]}
  BY <1>1 DEF PairedParts, SessionTypeOK, OwnTypes
<1>4. session[k].types # {} <=> request[w].step \in {"set_camera", "sdk_start"}
  BY DEF PairedParts, SessionsAhead
<1>5. /\ StepsOf(k) = {request[w].step}
      /\ k \in Subscribed <=> request[w].step = "sdk_stop"
  BY <1>1, <1>2, WhoIsSubscribed DEF PairedParts
<1>6. request[w].step = "sdk_start" => session[k].camera # NoCamera
  BY <1>1, <1>4, <1>5 DEF PairedParts, CameraKnown
<1> QED BY <1>1, <1>2, <1>3, <1>4, <1>5, <1>6

LEMMA SetCameraPairedInv ==
  ASSUME PairedInv, NEW w \in Callers, SetCamera(w)
  PROVE  PairedInv' /\ Subscribed' = Subscribed
<1> DEFINE k == request[w].client
<1> DEFINE s == [session[k] EXCEPT !.camera = FirstCamera]
<1> DEFINE r == [request[w] EXCEPT !.step = "sdk_start"]
<1>1. PairedParts /\ IndInv' /\ subscriberCount' = subscriberCount
  BY StutterIndInv DEF PairedInv, PairedParts, SetCamera, managerVars, vars, slotVars
<1>2. request[w] # Idle /\ request[w].step = "set_camera"
  BY DEF SetCamera, Idle
<1>3. /\ k \in Clients /\ request[w] \in Requests /\ RequestsOf(k) \subseteq {w}
      /\ request[w].types = Wants[k]
      /\ session[k] \in Sessions /\ session[k].types \in {{}, Wants[k]}
      /\ session[k].types # {} /\ k \notin Subscribed
  BY <1>1, <1>2, RequestAtWork
<1>4. session' = [session EXCEPT ![k] = s] /\ request' = [request EXCEPT ![w] = r]
  BY <1>1, <1>3 DEF SetCamera, PairedParts, SessionTypeOK
<1>5. s \in Sessions /\ s.types = session[k].types /\ s.camera # NoCamera
  BY <1>3, SessionAssumption DEF Sessions
<1>6. r \in Requests /\ r # Idle /\ r.client = k /\ r.step = "sdk_start" /\ r.types = Wants[k]
  BY <1>3, IdleHasNoOtherStep DEF Requests
<1>7. request[w].client = k
  OBVIOUS
<1> HIDE DEF k, s, r
<1>8. /\ PairedParts'
      /\ Subscribed' = IF (IF r = Idle THEN s.types # {} ELSE r.step = "sdk_stop")
                       THEN Subscribed \union {k} ELSE Subscribed \ {k}
  BY <1>1, <1>3, <1>4, <1>5, <1>6, <1>7, StepOfOneClient
<1>9. Subscribed' = Subscribed
  BY <1>3, <1>6, <1>8
<1> QED BY <1>1, <1>8, <1>9 DEF PairedInv, PairedParts, CountIsSubscribers

\* The step ends the request, or leaves it to respond; the session is kept.
LEMMA RequestMovesOn ==
  ASSUME PairedParts, NEW w \in Callers, request[w].step \in {"sdk_start", "sdk_stop", "returning"},
         NEW r, IF request[w].step = "sdk_stop" THEN r = [request[w] EXCEPT !.step = "returning"]
                                                ELSE r = Idle,
         request' = [request EXCEPT ![w] = r], UNCHANGED session
  PROVE  /\ PairedParts'
         /\ request[w].client \in Clients /\ request[w].types = Wants[request[w].client]
         /\ request[w].client \in Subscribed <=> request[w].step = "sdk_stop"
         /\ Subscribed' = IF request[w].step = "sdk_start"
                          THEN Subscribed \union {request[w].client}
                          ELSE Subscribed \ {request[w].client}
<1> DEFINE k == request[w].client
<1> DEFINE s == session[k]
<1>1. request[w] # Idle
  BY DEF Idle
<1>2. /\ k \in Clients /\ request[w] \in Requests /\ RequestsOf(k) \subseteq {w}
      /\ request[w].types = Wants[k]
      /\ s \in Sessions /\ s.types \in {{}, Wants[k]}
      /\ s.types # {} <=> request[w].step = "sdk_start"
      /\ request[w].step = "sdk_start" => s.camera # NoCamera
      /\ k \in Subscribed <=> request[w].step = "sdk_stop"
  BY <1>1, RequestAtWork
<1>3. session' = [session EXCEPT ![k] = s]
  BY <1>2 DEF PairedParts, SessionTypeOK
<1>4. /\ r \in {Idle} \union Requests
      /\ r # Idle => r.client = k /\ r.types = Wants[k] /\ r.step = "returning" /\ request[w].step = "sdk_stop"
      /\ request[w].step = "sdk_stop" => r # Idle
  BY <1>2, IdleHasNoOtherStep DEF Requests
<1>5. request[w].client = k
  OBVIOUS
<1> HIDE DEF k, s
<1>6. /\ PairedParts'
      /\ Subscribed' = IF (IF r = Idle THEN s.types # {} ELSE r.step = "sdk_stop")
                       THEN Subscribed \union {k} ELSE Subscribed \ {k}
  <2>1. r # Idle => /\ r.types = Wants[k]
                    /\ s.types # {} <=> r.step \in {"set_camera", "sdk_start"}
    BY <1>2, <1>4
  <2>2. s.types # {} /\ (r = Idle \/ r.step # "set_camera") => s.camera # NoCamera
    BY <1>2, <1>4
  <2>3. k \in Clients /\ RequestsOf(k) \subseteq {w} /\ s \in Sessions /\ s.types \in {{}, Wants[k]}
    BY <1>2
  <2>4. r \in {Idle} \union Requests /\ (r = Idle \/ r.client = k)
    BY <1>4
  <2>5. request[w] = Idle \/ request[w].client = k
    BY <1>5
  <2> QED BY <1>3, <2>1, <2>2, <2>3, <2>4, <2>5, StepOfOneClient, Zenon
<1> QED BY <1>2, <1>4, <1>5, <1>6

LEMMA SdkStartPairedInv ==
  ASSUME PairedInv, NEW w \in Callers, SdkStart(w)
  PROVE  /\ PairedInv'
         /\ LET k == request[w].client IN
            k \in Clients /\ request[w].types = Wants[k] /\ Subscribed' = Subscribed \union {k}
<1> DEFINE k == request[w].client
<1>1. PairedParts /\ IndInv /\ CountIsSubscribers
  BY DEF PairedInv, PairedParts
<1>2. /\ PairedParts' /\ k \in Clients /\ request[w].types = Wants[k]
      /\ k \notin Subscribed /\ Subscribed' = Subscribed \union {k}
  BY <1>1, RequestMovesOn DEF SdkStart
<1>3. request[w].types \in SUBSET Types
  BY <1>1 DEF SdkStart, PairedParts, SessionTypeOK, Requests, Idle
<1>4. IndInv'
  BY <1>1, <1>3, SessionAssumption, StartCaptureIndInv DEF SdkStart
<1>5. subscriberCount'[FirstCamera] = subscriberCount[FirstCamera] + 1
  BY <1>1, SessionAssumption DEF SdkStart, StartCapture, IndInv, TypeOK
<1>6. Cardinality(Subscribed') = Cardinality(Subscribed) + 1
  BY <1>2, SubscribedIsFinite, FS_AddElement
<1>7. CountIsSubscribers'
  BY <1>1, <1>5, <1>6 DEF CountIsSubscribers
<1> QED BY <1>2, <1>4, <1>7 DEF PairedInv, PairedParts

LEMMA SdkStopPairedInv ==
  ASSUME PairedInv, NEW w \in Callers, SdkStop(w)
  PROVE  /\ PairedInv'
         /\ LET k == request[w].client IN
            k \in Clients /\ request[w].types = Wants[k] /\ Subscribed' = Subscribed \ {k}
<1> DEFINE k == request[w].client
<1>1. PairedParts /\ IndInv /\ CountIsSubscribers
  BY DEF PairedInv, PairedParts
<1>2. request' = [request EXCEPT ![w] = [request[w] EXCEPT !.step = "returning"]]
  BY <1>1 DEF SdkStop, PairedParts, SessionTypeOK
<1>3. /\ PairedParts' /\ k \in Clients /\ request[w].types = Wants[k]
      /\ k \in Subscribed /\ Subscribed' = Subscribed \ {k}
  BY <1>1, <1>2, RequestMovesOn DEF SdkStop
<1>4. request[w].types \in SUBSET Types
  BY <1>1 DEF SdkStop, PairedParts, SessionTypeOK, Requests, Idle
<1>5. IndInv'
  BY <1>1, <1>4, SessionAssumption, StopCaptureIndInv DEF SdkStop
<1>6. subscriberCount'[FirstCamera] = Decrement(subscriberCount[FirstCamera])
  BY <1>1, SessionAssumption DEF SdkStop, StopCapture, IndInv, TypeOK
<1>7. Cardinality(Subscribed') = Cardinality(Subscribed) - 1 /\ Cardinality(Subscribed) > 0
  <2>1. Cardinality(Subscribed') = Cardinality(Subscribed) - 1
    BY <1>3, SubscribedIsFinite, FS_RemoveElement
  <2>2. Cardinality(Subscribed) # 0
    BY <1>3, SubscribedIsFinite, FS_EmptySet
  <2> QED BY <2>1, <2>2, SubscribedIsFinite
<1>8. CountIsSubscribers'
  BY <1>1, <1>6, <1>7, SubscribedIsFinite DEF CountIsSubscribers, Decrement
<1> QED BY <1>3, <1>5, <1>8 DEF PairedInv, PairedParts

LEMMA RespondPairedInv ==
  ASSUME PairedInv, NEW w \in Callers, Respond(w)
  PROVE  PairedInv' /\ Subscribed' = Subscribed
<1>1. PairedParts /\ IndInv' /\ CountIsSubscribers /\ subscriberCount' = subscriberCount
  BY StutterIndInv DEF PairedInv, PairedParts, Respond, managerVars, vars, slotVars
<1>2. request[w].step = "returning" /\ request' = [request EXCEPT ![w] = Idle] /\ UNCHANGED session
  BY DEF Respond
<1>3. PairedParts' /\ Subscribed' = Subscribed
  <2>1. /\ PairedParts'
        /\ request[w].client \notin Subscribed
        /\ Subscribed' = Subscribed \ {request[w].client}
    BY <1>1, <1>2, RequestMovesOn
  <2> QED BY <2>1
<1> QED BY <1>1, <1>3 DEF PairedInv, PairedParts, CountIsSubscribers

LEMMA FramePairedInv ==
  ASSUME PairedInv, IndInv', UNCHANGED handlerVars, UNCHANGED subscriberCount
  PROVE  PairedInv' /\ Subscribed' = Subscribed
<1>1. PairedParts'
  BY DEF handlerVars, PairedInv, PairedParts, SessionTypeOK, OneRequest, SessionsAhead, OwnTypes,
         CameraKnown, StepsOf, RequestsOf
<1>2. Subscribed' = Subscribed
  BY DEF handlerVars, Subscribed, StepsOf, RequestsOf
<1> QED BY <1>1, <1>2 DEF PairedInv, PairedParts, CountIsSubscribers

LEMMA NextPairedInv ==
  ASSUME Discipline = "paired", PairedInv, [HandlerNext]_allVars
  PROVE  PairedInv'
<1>1. ASSUME NEW w \in Callers, NEW k \in Clients,
             \/ HandleConnect(w, k) \/ HandleDisconnect(w, k)
             \/ HandleStartCapture(w, k) \/ HandleStopCapture(w, k)
      PROVE  PairedInv'
  BY <1>1, ConnectPairedInv, DisconnectPairedInv, StartPairedInv, StopPairedInv
<1>2. ASSUME NEW w \in Callers, Handle(w)
      PROVE  PairedInv'
  BY <1>2, SetCameraPairedInv, SdkStartPairedInv, SdkStopPairedInv, RespondPairedInv DEF Handle
<1>3. ASSUME NEW w \in Callers, NEW d \in Dealers, JoinDealer(w, d), UNCHANGED handlerVars
      PROVE  PairedInv'
  <2>1. IndInv'
    BY <1>3, JoinDealerIndInv DEF PairedInv, Threads
  <2> QED BY <1>3, <2>1, FramePairedInv DEF JoinDealer, slotVars
<1>4. ASSUME NEW d \in Dealers, Dealer(d), UNCHANGED handlerVars
      PROVE  PairedInv'
  <2>1. IndInv'
    BY <1>4, DealerIndInv DEF PairedInv
  <2>2. UNCHANGED subscriberCount
    BY <1>4 DEF Dealer, DealerSetup, DealerCheckRunning, DealerCheckCapturing, DealerPoll,
                DealerReceive, DealerPush, DealerRoundDone, DealerStep, slotVars
  <2> QED BY <1>4, <2>1, <2>2, FramePairedInv
<1>5. CASE UNCHANGED allVars
  <2>1. IndInv' /\ UNCHANGED subscriberCount
    BY <1>5, StutterIndInv DEF PairedInv, allVars, vars, slotVars
  <2> QED BY <1>5, <2>1, FramePairedInv DEF allVars
<1> QED BY <1>1, <1>2, <1>3, <1>4, <1>5 DEF HandlerNext

\* With clients that pair their starts and stops, the slot manager counts
\* exactly the clients that are subscribed, in any number of sessions and
\* however the handlers of their requests interleave.
THEOREM CountIsCorrect ==
  ASSUME Discipline = "paired"
  PROVE  HandlerSpec => []CountIsSubscribers
<1>1. HandlerInit => PairedInv
  BY InitPairedInv
<1>2. PairedInv /\ [HandlerNext]_allVars => PairedInv'
  BY NextPairedInv
<1>3. PairedInv => CountIsSubscribers
  BY DEF PairedInv
<1> QED BY <1>1, <1>2, <1>3, PTL DEF HandlerSpec
-----------------------------------------------------------------------------
(* ... and that it gives them what they asked for, and no more.            *)

\* NothingUnwanted and AllWanted speak of these only.
contractVars ==
  <<Subscribed, activeTypes[FirstCamera], activeChannels[FirstCamera], sdkStreaming[FirstCamera]>>

LEMMA OtherStepsKeepContract ==
  ASSUME Discipline = "paired", PairedInv, [HandlerNext]_allVars,
         \A w \in Callers : ~SdkStart(w) /\ ~SdkStop(w)
  PROVE  UNCHANGED contractVars
<1> USE DEF contractVars
<1>1. CASE UNCHANGED managerVars
  <2>1. UNCHANGED <<activeTypes, activeChannels, sdkStreaming>>
    BY <1>1 DEF managerVars, vars, slotVars
  <2>2. \/ \E w \in Callers, k \in Clients :
             \/ HandleConnect(w, k) \/ HandleDisconnect(w, k)
             \/ HandleStartCapture(w, k) \/ HandleStopCapture(w, k)
        \/ \E w \in Callers : SetCamera(w) \/ Respond(w)
        \/ UNCHANGED handlerVars
    BY DEF HandlerNext, Handle, allVars
  <2>3. CASE UNCHANGED handlerVars
    BY <2>1, <2>3 DEF handlerVars, Subscribed, StepsOf, RequestsOf
  <2> QED BY <2>1, <2>2, <2>3, ConnectPairedInv, DisconnectPairedInv, StartPairedInv, StopPairedInv,
             SetCameraPairedInv, RespondPairedInv
<1>2. CASE (\E w \in Callers, d \in Dealers : JoinDealer(w, d)) /\ UNCHANGED handlerVars
  BY <1>2 DEF JoinDealer, slotVars, handlerVars, Subscribed, StepsOf, RequestsOf
<1>3. CASE (\E d \in Dealers : Dealer(d)) /\ UNCHANGED handlerVars
  <2>1. UNCHANGED <<activeTypes, activeChannels, sdkStreaming>>
    BY <1>3 DEF Dealer, DealerSetup, DealerCheckRunning, DealerCheckCapturing, DealerPoll,
                DealerReceive, DealerPush, DealerRoundDone, DealerStep, slotVars
  <2> QED BY <1>3, <2>1 DEF handlerVars, Subscribed, StepsOf, RequestsOf
<1>4. CASE \E w \in Callers, k \in Clients :
             \/ HandleConnect(w, k) \/ HandleDisconnect(w, k)
             \/ HandleStartCapture(w, k) \/ HandleStopCapture(w, k)
  BY <1>1, <1>4 DEF HandleConnect, HandleDisconnect, HandleStartCapture, HandleStopCapture
<1>5. CASE \E w \in Callers : SetCamera(w) \/ Respond(w)
  BY <1>1, <1>5 DEF SetCamera, Respond
<1>6. CASE UNCHANGED allVars
  BY <1>1, <1>6 DEF allVars, managerVars
<1> QED BY <1>2, <1>3, <1>4, <1>5, <1>6 DEF HandlerNext, Handle

\* The effect of the two steps that reach the slot manager, when requests to
\* the SDK succeed.
LEMMA StartEffect ==
  ASSUME SdkOutcomes = {TRUE}, PairedInv, NEW w \in Callers, SdkStart(w)
  PROVE  LET T == Wants[request[w].client] IN
         /\ activeTypes'[FirstCamera] = activeTypes[FirstCamera] \union T
         /\ activeChannels'[FirstCamera] = activeChannels[FirstCamera] \union TypesToChannels(T)
         /\ sdkStreaming'[FirstCamera] = sdkStreaming[FirstCamera] \union T
<1> DEFINE T == Wants[request[w].client]
<1>1. request[w].types = T
  BY SdkStartPairedInv
<1>2. StartCapture(w, FirstCamera, T)
  BY <1>1 DEF SdkStart
<1> HIDE DEF T
<1>3. sdkStreaming'[FirstCamera] = sdkStreaming[FirstCamera] \union T
  BY <1>2, SessionAssumption DEF StartCapture, RequestStart, PairedInv, IndInv, TypeOK
<1>4. /\ activeTypes'[FirstCamera] = activeTypes[FirstCamera] \union T
      /\ activeChannels'[FirstCamera] = activeChannels[FirstCamera] \union TypesToChannels(T)
  BY <1>2, SessionAssumption DEF StartCapture, PairedInv, IndInv, TypeOK
<1> QED BY <1>3, <1>4 DEF T

LEMMA StopEffect ==
  ASSUME SdkOutcomes = {TRUE}, PairedInv, NEW w \in Callers, SdkStop(w)
  PROVE  LET T == Wants[request[w].client] IN
         /\ activeTypes'[FirstCamera] = activeTypes[FirstCamera] \ T
         /\ activeChannels'[FirstCamera]
              = activeChannels[FirstCamera] \ ChannelsToDeactivate(FirstCamera, T)
         /\ sdkStreaming'[FirstCamera] = sdkStreaming[FirstCamera] \ T
<1>1. request[w].types = Wants[request[w].client]
  BY SdkStopPairedInv
<1>2. request[w].client \in Subscribed
  BY RequestAtWork DEF SdkStop, PairedInv, PairedParts, Idle
<1>3. Cardinality(Subscribed) # 0
  BY <1>2, SubscribedIsFinite, FS_EmptySet
<1>4. capturing[FirstCamera]
  BY <1>3, SessionAssumption
     DEF PairedInv, CountIsSubscribers, IndInv, TypeOK, CapturingIffSubscribed
<1> QED BY <1>1, <1>4, SessionAssumption
        DEF SdkStop, StopCapture, RequestStop, PairedInv, IndInv, TypeOK

LEMMA NextNothingUnwanted ==
  ASSUME Discipline = "paired", SdkOutcomes = {TRUE}, PairedInv, NothingUnwanted,
         [HandlerNext]_allVars
  PROVE  NothingUnwanted'
<1>1. ASSUME NEW w \in Callers, SdkStart(w)
      PROVE  NothingUnwanted'
  <2> DEFINE k == request[w].client
  <2>1. k \in Clients /\ Subscribed' = Subscribed \union {k}
    BY <1>1, SdkStartPairedInv
  <2>2. Wanted' = Wanted \union Wants[k]
    BY <2>1 DEF Wanted
  <2>3. TypesToChannels(activeTypes[FirstCamera] \union Wants[k])
          = TypesToChannels(activeTypes[FirstCamera]) \union TypesToChannels(Wants[k])
    BY DEF TypesToChannels
  <2> QED BY <1>1, <2>2, <2>3, StartEffect DEF NothingUnwanted, TypesToChannels
<1>2. ASSUME NEW w \in Callers, SdkStop(w)
      PROVE  NothingUnwanted'
  <2> DEFINE k == request[w].client
  <2>1. k \in Clients /\ Subscribed' = Subscribed \ {k}
    BY <1>2, SdkStopPairedInv
  <2>2. Wanted \subseteq Wanted' \union Wants[k]
    BY <2>1 DEF Wanted
  <2>3. TypesToChannels(activeTypes[FirstCamera])
          \subseteq TypesToChannels(activeTypes[FirstCamera] \ Wants[k])
                    \union ChannelsToDeactivate(FirstCamera, Wants[k])
    BY DEF TypesToChannels, ChannelsToDeactivate
  <2>4. TypesToChannels(activeTypes[FirstCamera] \ Wants[k])
          = TypesToChannels(activeTypes'[FirstCamera])
    BY <1>2, StopEffect
  <2>5. activeChannels'[FirstCamera] \subseteq TypesToChannels(activeTypes'[FirstCamera])
    BY <1>2, <2>3, <2>4, StopEffect DEF NothingUnwanted
  <2>6. /\ activeTypes'[FirstCamera] \subseteq Wanted'
        /\ sdkStreaming'[FirstCamera] \subseteq Wanted'
    BY <1>2, <2>2, StopEffect DEF NothingUnwanted
  <2> QED BY <2>5, <2>6 DEF NothingUnwanted, TypesToChannels
<1>3. CASE UNCHANGED contractVars
  BY <1>3 DEF contractVars, NothingUnwanted, Wanted, TypesToChannels
<1> QED BY <1>1, <1>2, <1>3, OtherStepsKeepContract

LEMMA NextAllWanted ==
  ASSUME Discipline = "paired", SdkOutcomes = {TRUE}, NoTypeShared, PairedInv, AllWanted,
         [HandlerNext]_allVars
  PROVE  AllWanted'
<1>1. ASSUME NEW w \in Callers, SdkStart(w)
      PROVE  AllWanted'
  <2> DEFINE k == request[w].client
  <2>1. k \in Clients /\ Subscribed' = Subscribed \union {k}
    BY <1>1, SdkStartPairedInv
  <2>2. Wanted' = Wanted \union Wants[k]
    BY <2>1 DEF Wanted
  <2> QED BY <1>1, <2>2, StartEffect DEF AllWanted
<1>2. ASSUME NEW w \in Callers, SdkStop(w)
      PROVE  AllWanted'
  <2> DEFINE k == request[w].client
  <2>1. k \in Clients /\ Subscribed' = Subscribed \ {k}
    BY <1>2, SdkStopPairedInv
  <2>2. Wanted' \subseteq Wanted \ Wants[k]
    BY <2>1 DEF Wanted, NoTypeShared, Subscribed
  <2> QED BY <1>2, <2>2, StopEffect DEF AllWanted
<1>3. CASE UNCHANGED contractVars
  BY <1>3 DEF contractVars, AllWanted, Wanted
<1> QED BY <1>1, <1>2, <1>3, OtherStepsKeepContract

LEMMA InitContract == HandlerInit => NothingUnwanted /\ AllWanted
<1> SUFFICES ASSUME HandlerInit PROVE NothingUnwanted /\ AllWanted
  OBVIOUS
<1>1. Subscribed = {}
  BY DEF HandlerInit, NoSession, Subscribed, StepsOf, RequestsOf
<1> QED BY <1>1, SessionAssumption
        DEF HandlerInit, Init, NothingUnwanted, AllWanted, Wanted, TypesToChannels

\* If requests to the SDK succeed, nothing is left of a camera's capture once
\* every client has gone and every request is answered.
THEOREM NothingIsOrphaned ==
  ASSUME Discipline = "paired", SdkOutcomes = {TRUE}
  PROVE  HandlerSpec => []NoOrphanedCapture
<1>1. HandlerInit => PairedInv /\ NothingUnwanted /\ SessionInv
  BY InitPairedInv, InitContract, InitSessionInv
<1>2. PairedInv /\ NothingUnwanted /\ SessionInv /\ [HandlerNext]_allVars
        => (PairedInv /\ NothingUnwanted /\ SessionInv)'
  BY NextPairedInv, NextNothingUnwanted, NextSessionInv
<1>3. ASSUME PairedInv, NothingUnwanted, SessionInv
      PROVE  NoOrphanedCapture
  <2> SUFFICES ASSUME \A k \in Clients : ~session[k].connected, \A w \in Callers : Free(w)
               PROVE  /\ subscriberCount[FirstCamera] = 0
                      /\ ~capturing[FirstCamera]
                      /\ activeTypes[FirstCamera] = {}
                      /\ activeChannels[FirstCamera] = {}
                      /\ sdkStreaming[FirstCamera] = {}
    BY DEF NoOrphanedCapture
  <2>1. Subscribed = {}
    BY <1>3 DEF SessionInv, TypesOnlyWhileConnected, Free, Subscribed, StepsOf, RequestsOf
  <2>2. Wanted = {}
    BY <2>1 DEF Wanted
  <2>3. subscriberCount[FirstCamera] = 0
    BY <1>3, <2>1, FS_EmptySet DEF PairedInv, CountIsSubscribers
  <2>4. ~capturing[FirstCamera]
    BY <1>3, <2>3, SessionAssumption DEF PairedInv, IndInv, CapturingIffSubscribed
  <2> QED BY <1>3, <2>2, <2>3, <2>4 DEF NothingUnwanted, TypesToChannels
<1> QED BY <1>1, <1>2, <1>3, PTL DEF HandlerSpec

\* If clients share no type either, each one that is subscribed has its types
\* active and streaming, whatever the others start and stop.
THEOREM SubscribersAreServed ==
  ASSUME Discipline = "paired", SdkOutcomes = {TRUE}, NoTypeShared
  PROVE  HandlerSpec => []SubscribedTypesStream
<1>1. HandlerInit => PairedInv /\ AllWanted
  BY InitPairedInv, InitContract
<1>2. PairedInv /\ AllWanted /\ [HandlerNext]_allVars => (PairedInv /\ AllWanted)'
  BY NextPairedInv, NextAllWanted
<1>3. ASSUME PairedInv, AllWanted
      PROVE  SubscribedTypesStream
  BY <1>3 DEF SubscribedTypesStream, AllWanted, Wanted, PairedInv, OwnTypes, Subscribed
<1> QED BY <1>1, <1>2, <1>3, PTL DEF HandlerSpec

(***************************************************************************)
(*                                 Shutdown                                *)
(***************************************************************************)

LEMMA ServerFacts ==
  /\ \A w \in Callers : Server[w] \in Servers
  /\ \A c \in Conns : Server[c] \in Servers
  /\ \A c \in Conns : c \notin {"none", "head", "wait", "exited", "accept"}
BY ServiceAssumption DEF API!ServerAssumption, API!WorkerPcs

LEMMA InitServers == API!Init => API!IndInv
<1> SUFFICES ASSUME API!Init PROVE API!IndInv
  OBVIOUS
<1>1. up \in [Servers -> BOOLEAN]
  BY DEF API!Init
<1>2. API!TypeOK
  BY <1>1, ServerFacts DEF API!Init, API!TypeOK, API!WorkerPcs, API!ConnPcs, API!StopPcs
<1>3. API!ConnsHaveOneOwner
  BY ServerFacts DEF API!Init, API!ConnsHaveOneOwner
<1>4. API!HandshakesHeld /\ API!StoppedIsIdle
  BY DEF API!Init, API!HandshakesHeld, API!StoppedIsIdle
<1> QED BY <1>2, <1>3, <1>4 DEF API!IndInv
-----------------------------------------------------------------------------
(* The steps of a server                                                   *)

LEMMA AcceptIndInv ==
  ASSUME API!IndInv, NEW c \in Conns, API!Accept(c)
  PROVE  API!IndInv'
<1> USE ServerFacts DEF API!Accept
<1>1. API!TypeOK'
  BY DEF API!IndInv, API!TypeOK, API!ConnPcs
<1>2. API!ConnsHaveOneOwner'
  BY DEF API!IndInv, API!TypeOK, API!ConnsHaveOneOwner
<1>3. API!HandshakesHeld' /\ API!StoppedIsIdle'
  BY DEF API!IndInv, API!TypeOK, API!HandshakesHeld, API!StoppedIsIdle
<1> QED BY <1>1, <1>2, <1>3 DEF API!IndInv

LEMMA HandshakeDoneIndInv ==
  ASSUME API!IndInv, NEW c \in Conns, API!HandshakeDone(c)
  PROVE  API!IndInv'
<1> USE ServerFacts DEF API!HandshakeDone
<1>1. pending[Server[c]] \in Seq(Conns) /\ pending'[Server[c]] = Append(pending[Server[c]], c)
  BY DEF API!IndInv, API!TypeOK
<1>2. API!TypeOK'
  BY <1>1 DEF API!IndInv, API!TypeOK, API!ConnPcs
<1>3. \A i \in DOMAIN pending[Server[c]] : pending[Server[c]][i] # c
  BY DEF API!IndInv, API!TypeOK, API!ConnsHaveOneOwner
<1>4. ASSUME NEW s \in Servers, NEW i \in DOMAIN pending'[s]
      PROVE  /\ Server[pending'[s][i]] = s /\ conn'[pending'[s][i]] = "queued"
             /\ \A j \in DOMAIN pending'[s] : pending'[s][i] = pending'[s][j] => i = j
  <2>1. CASE s # Server[c]
    BY <1>4, <2>1 DEF API!IndInv, API!TypeOK, API!ConnsHaveOneOwner
  <2>2. CASE s = Server[c]
    <3>1. /\ DOMAIN pending'[s] = 1..(Len(pending[s]) + 1)
          /\ DOMAIN pending[s] = 1..Len(pending[s])
          /\ Len(pending[s]) \in Nat
          /\ \A j \in 1..Len(pending[s]) : pending'[s][j] = pending[s][j]
          /\ pending'[s][Len(pending[s]) + 1] = c
      BY <1>1, <2>2
    <3>2. \A j \in 1..Len(pending[s]) : conn[pending[s][j]] = "queued" /\ Server[pending[s][j]] = s
      BY <3>1 DEF API!IndInv, API!ConnsHaveOneOwner
    <3>3. \A j, k \in 1..Len(pending[s]) : pending[s][j] = pending[s][k] => j = k
      BY <3>1 DEF API!IndInv, API!ConnsHaveOneOwner
    <3>4. \A j \in 1..Len(pending[s]) : pending[s][j] # c /\ pending[s][j] \in Conns
      BY <1>1, <1>3, <2>2, <3>1
    <3>5. \A j \in 1..(Len(pending[s]) + 1) : j \in 1..Len(pending[s]) \/ j = Len(pending[s]) + 1
      BY <3>1
    <3>6. conn'[c] = "queued" /\ \A j \in 1..Len(pending[s]) : conn'[pending[s][j]] = "queued"
      BY <3>2, <3>4 DEF API!IndInv, API!TypeOK
    <3> QED BY <1>4, <2>2, <3>1, <3>2, <3>3, <3>4, <3>5, <3>6
  <2> QED BY <2>1, <2>2
<1>5. \A s \in Servers : acceptor'[s] \in Conns =>
        Server[acceptor'[s]] = s /\ conn'[acceptor'[s]] \in {"handshake", "silent"}
  BY DEF API!IndInv, API!TypeOK, API!ConnsHaveOneOwner
<1>6. \A w \in Callers : worker'[w] \in Conns =>
        /\ Server[worker'[w]] = Server[w]
        /\ conn'[worker'[w]] \in {"reading", "answering", "silent"}
        /\ acceptor'[Server[w]] # worker'[w]
        /\ \A v \in Callers : worker'[v] = worker'[w] => v = w
  BY DEF API!IndInv, API!TypeOK, API!ConnsHaveOneOwner
<1>7. API!ConnsHaveOneOwner'
  BY <1>4, <1>5, <1>6 DEF API!ConnsHaveOneOwner
<1>8. acceptor[Server[c]] = c
  BY DEF API!IndInv, API!HandshakesHeld
<1>9. API!HandshakesHeld' /\ API!StoppedIsIdle'
  BY <1>8 DEF API!IndInv, API!TypeOK, API!HandshakesHeld, API!StoppedIsIdle
<1> QED BY <1>2, <1>7, <1>9 DEF API!IndInv

LEMMA HandshakeFailedIndInv ==
  ASSUME API!IndInv, NEW c \in Conns, API!HandshakeFailed(c)
  PROVE  API!IndInv'
<1> USE ServerFacts DEF API!HandshakeFailed
<1>1. API!TypeOK'
  BY DEF API!IndInv, API!TypeOK, API!ConnPcs
<1>2. API!ConnsHaveOneOwner'
  BY DEF API!IndInv, API!TypeOK, API!ConnsHaveOneOwner
<1>3. API!HandshakesHeld' /\ API!StoppedIsIdle'
  BY DEF API!IndInv, API!TypeOK, API!HandshakesHeld, API!StoppedIsIdle
<1> QED BY <1>1, <1>2, <1>3 DEF API!IndInv

LEMMA AcceptEndsIndInv ==
  ASSUME API!IndInv, NEW s \in Servers, API!AcceptEnds(s)
  PROVE  API!IndInv'
<1> USE ServerFacts DEF API!AcceptEnds
<1>1. API!TypeOK'
  BY DEF API!IndInv, API!TypeOK
<1>2. API!ConnsHaveOneOwner'
  BY DEF API!IndInv, API!TypeOK, API!ConnsHaveOneOwner
<1>3. API!HandshakesHeld' /\ API!StoppedIsIdle'
  BY DEF API!IndInv, API!TypeOK, API!HandshakesHeld, API!StoppedIsIdle
<1> QED BY <1>1, <1>2, <1>3 DEF API!IndInv

LEMMA FallsSilentIndInv ==
  ASSUME API!IndInv, NEW c \in Conns, API!FallsSilent(c)
  PROVE  API!IndInv'
<1> USE ServerFacts DEF API!FallsSilent
<1>1. API!TypeOK'
  BY DEF API!IndInv, API!TypeOK, API!ConnPcs
<1>2. API!ConnsHaveOneOwner'
  BY DEF API!IndInv, API!TypeOK, API!ConnsHaveOneOwner
<1>3. API!HandshakesHeld' /\ API!StoppedIsIdle'
  BY DEF API!IndInv, API!TypeOK, API!HandshakesHeld, API!StoppedIsIdle
<1> QED BY <1>1, <1>2, <1>3 DEF API!IndInv
LEMMA WorkerHeadIndInv ==
  ASSUME API!IndInv, NEW w \in Callers, API!WorkerHead(w)
  PROVE  API!IndInv'
<1> USE ServerFacts DEF API!WorkerHead
<1>1. API!TypeOK'
  BY DEF API!IndInv, API!TypeOK, API!WorkerPcs, API!ConnPcs, API!StopPcs
<1>2. API!ConnsHaveOneOwner'
  BY DEF API!IndInv, API!TypeOK, API!ConnsHaveOneOwner
<1>3. API!HandshakesHeld' /\ API!StoppedIsIdle'
  BY DEF API!IndInv, API!TypeOK, API!WorkersOf, API!HandshakesHeld, API!StoppedIsIdle
<1> QED BY <1>1, <1>2, <1>3 DEF API!IndInv

LEMMA WorkerTakeIndInv ==
  ASSUME API!IndInv, NEW w \in Callers, API!WorkerTake(w)
  PROVE  API!IndInv'
<1> DEFINE s == Server[w]
           c == Head(pending[s])
<1> USE ServerFacts DEF API!WorkerTake
<1>1. /\ pending[s] \in Seq(Conns) /\ pending[s] # <<>>
      /\ c = pending[s][1] /\ 1 \in DOMAIN pending[s] /\ c \in Conns
  BY DEF API!IndInv, API!TypeOK
<1>2. /\ pending'[s] = Tail(pending[s]) /\ pending'[s] \in Seq(Conns)
      /\ DOMAIN pending'[s] = 1..(Len(pending[s]) - 1) /\ DOMAIN pending[s] = 1..Len(pending[s])
      /\ Len(pending[s]) \in Nat
      /\ \A i \in DOMAIN pending'[s] : i + 1 \in DOMAIN pending[s] /\ pending'[s][i] = pending[s][i + 1]
  BY <1>1 DEF API!IndInv, API!TypeOK
<1>3. Server[c] = s /\ conn[c] = "queued"
  BY <1>1 DEF API!IndInv, API!ConnsHaveOneOwner
<1>4. API!TypeOK'
  BY <1>1, <1>2 DEF API!IndInv, API!TypeOK, API!ConnPcs
<1>5. \A t \in Servers : acceptor'[t] \in Conns =>
        Server[acceptor'[t]] = t /\ conn'[acceptor'[t]] \in {"handshake", "silent"}
  BY <1>3 DEF API!IndInv, API!TypeOK, API!ConnsHaveOneOwner
<1>6. ASSUME NEW t \in Servers, NEW i \in DOMAIN pending'[t]
      PROVE  /\ Server[pending'[t][i]] = t /\ conn'[pending'[t][i]] = "queued"
             /\ \A j \in DOMAIN pending'[t] : pending'[t][i] = pending'[t][j] => i = j
  <2>1. CASE t = s
    <3>1. \A k \in DOMAIN pending[s] :
            /\ Server[pending[s][k]] = s /\ conn[pending[s][k]] = "queued" /\ pending[s][k] \in Conns
            /\ \A j \in DOMAIN pending[s] : pending[s][k] = pending[s][j] => k = j
      BY <1>1 DEF API!IndInv, API!ConnsHaveOneOwner
    <3>2. /\ i \in 1..(Len(pending[s]) - 1) /\ i + 1 \in DOMAIN pending[s]
          /\ pending'[s][i] = pending[s][i + 1]
      BY <1>2, <2>1
    <3>3. pending[s][i + 1] # c
      <4>1. i + 1 # 1
        BY <1>2, <3>2
      <4>2. pending[s][1] = pending[s][i + 1] => 1 = i + 1
        BY <1>1, <3>1, <3>2
      <4> QED BY <1>1, <4>1, <4>2
    <3>4. conn'[pending[s][i + 1]] = "queued"
      BY <1>1, <3>1, <3>2, <3>3 DEF API!IndInv, API!TypeOK
    <3>5. ASSUME NEW j \in DOMAIN pending'[s], pending'[s][i] = pending'[s][j] PROVE i = j
      <4>1. j \in 1..(Len(pending[s]) - 1) /\ j + 1 \in DOMAIN pending[s] /\ pending'[s][j] = pending[s][j + 1]
        BY <1>2, <3>5
      <4>2. i + 1 = j + 1
        BY <3>1, <3>2, <3>5, <4>1
      <4> QED BY <1>2, <3>2, <4>1, <4>2
    <3> HIDE DEF s
    <3> QED BY <2>1, <3>1, <3>2, <3>4, <3>5
  <2>2. CASE t # s
    BY <1>3, <1>6, <2>2 DEF API!IndInv, API!TypeOK, API!ConnsHaveOneOwner
  <2> QED BY <2>1, <2>2
<1>7. \A v \in Callers : worker[v] # c
  BY <1>1, <1>3 DEF API!IndInv, API!ConnsHaveOneOwner
<1>8. acceptor[s] # c
  BY <1>1, <1>3 DEF API!IndInv, API!ConnsHaveOneOwner
<1>9. \A u \in Callers : worker'[u] \in Conns =>
        /\ Server[worker'[u]] = Server[u]
        /\ conn'[worker'[u]] \in {"reading", "answering", "silent"}
        /\ acceptor'[Server[u]] # worker'[u]
        /\ \A v \in Callers : worker'[v] = worker'[u] => v = u
  BY <1>1, <1>3, <1>7, <1>8 DEF API!IndInv, API!TypeOK, API!ConnsHaveOneOwner
<1>10. API!ConnsHaveOneOwner'
  BY <1>5, <1>6, <1>9 DEF API!ConnsHaveOneOwner
<1>11. API!HandshakesHeld' /\ API!StoppedIsIdle'
  BY <1>1, <1>3 DEF API!IndInv, API!TypeOK, API!WorkersOf, API!HandshakesHeld, API!StoppedIsIdle
<1> QED BY <1>4, <1>10, <1>11 DEF API!IndInv

LEMMA WorkerLeaveIndInv ==
  ASSUME API!IndInv, NEW w \in Callers, API!WorkerLeave(w)
  PROVE  API!IndInv'
<1> USE ServerFacts DEF API!WorkerLeave
<1>1. API!TypeOK'
  BY DEF API!IndInv, API!TypeOK, API!WorkerPcs, API!ConnPcs, API!StopPcs
<1>2. API!ConnsHaveOneOwner'
  BY DEF API!IndInv, API!TypeOK, API!ConnsHaveOneOwner
<1>3. API!HandshakesHeld' /\ API!StoppedIsIdle'
  BY DEF API!IndInv, API!TypeOK, API!WorkersOf, API!HandshakesHeld, API!StoppedIsIdle
<1> QED BY <1>1, <1>2, <1>3 DEF API!IndInv

LEMMA ReadRequestIndInv ==
  ASSUME API!IndInv, NEW w \in Callers, API!ReadRequest(w)
  PROVE  API!IndInv'
<1> USE ServerFacts DEF API!ReadRequest
<1>1. API!TypeOK'
  BY DEF API!IndInv, API!TypeOK, API!WorkerPcs, API!ConnPcs, API!StopPcs
<1>2. API!ConnsHaveOneOwner'
  BY DEF API!IndInv, API!TypeOK, API!ConnsHaveOneOwner
<1>3. API!HandshakesHeld' /\ API!StoppedIsIdle'
  BY DEF API!IndInv, API!TypeOK, API!WorkersOf, API!HandshakesHeld, API!StoppedIsIdle
<1> QED BY <1>1, <1>2, <1>3 DEF API!IndInv

\* The ways a worker is done with its connection.
LEMMA CloseIndInv ==
  ASSUME API!IndInv, NEW w \in Callers, worker[w] \in Conns,
         API!Answer(w) \/ API!PeerGone(w)
  PROVE  API!IndInv'
<1> USE ServerFacts DEF API!Answer, API!PeerGone, API!Close
<1>1. API!TypeOK'
  BY DEF API!IndInv, API!TypeOK, API!WorkerPcs, API!ConnPcs, API!StopPcs
<1>2. API!ConnsHaveOneOwner'
  <2>1. /\ worker' = [worker EXCEPT ![w] = "head"] /\ conn' = [conn EXCEPT ![worker[w]] = "away"]
        /\ acceptor' = acceptor /\ pending' = pending
        /\ conn[worker[w]] \in {"reading", "answering", "silent"}
    OBVIOUS
  <2>2. \A s \in Servers : acceptor[s] # worker[w]
    BY DEF API!IndInv, API!ConnsHaveOneOwner
  <2>3. \A s \in Servers : \A i \in DOMAIN pending[s] : pending[s][i] # worker[w]
    BY <2>1 DEF API!IndInv, API!ConnsHaveOneOwner
  <2>4. \A c \in Conns : c # worker[w] => conn'[c] = conn[c]
    BY <2>1 DEF API!IndInv, API!TypeOK
  <2>5. \A s \in Servers : \A i \in DOMAIN pending[s] : pending[s][i] \in Conns
    BY DEF API!IndInv, API!TypeOK
  <2>6. \A u \in Callers : worker'[u] \in Conns => u # w /\ worker'[u] = worker[u] /\ worker[u] # worker[w]
    BY <2>1 DEF API!IndInv, API!TypeOK, API!ConnsHaveOneOwner
  <2> QED BY <2>1, <2>2, <2>3, <2>4, <2>5, <2>6 DEF API!IndInv, API!ConnsHaveOneOwner
<1>3. API!HandshakesHeld' /\ API!StoppedIsIdle'
  BY DEF API!IndInv, API!TypeOK, API!WorkersOf, API!HandshakesHeld, API!StoppedIsIdle
<1> QED BY <1>1, <1>2, <1>3 DEF API!IndInv

LEMMA StopListeningIndInv ==
  ASSUME API!IndInv, NEW s \in Servers, API!StopListening(s)
  PROVE  API!IndInv'
<1> USE ServerFacts DEF API!StopListening
<1>1. API!TypeOK'
  BY DEF API!IndInv, API!TypeOK, API!WorkerPcs, API!ConnPcs, API!StopPcs
<1>2. API!ConnsHaveOneOwner'
  BY DEF API!IndInv, API!TypeOK, API!ConnsHaveOneOwner
<1>3. API!HandshakesHeld' /\ API!StoppedIsIdle'
  BY DEF API!IndInv, API!TypeOK, API!WorkersOf, API!HandshakesHeld, API!StoppedIsIdle
<1> QED BY <1>1, <1>2, <1>3 DEF API!IndInv

LEMMA StopJoinAcceptIndInv ==
  ASSUME API!IndInv, NEW s \in Servers, API!StopJoinAccept(s)
  PROVE  API!IndInv'
<1> USE ServerFacts DEF API!StopJoinAccept
<1>1. API!TypeOK'
  BY DEF API!IndInv, API!TypeOK, API!WorkerPcs, API!ConnPcs, API!StopPcs
<1>2. API!ConnsHaveOneOwner'
  BY DEF API!IndInv, API!TypeOK, API!ConnsHaveOneOwner
<1>3. API!HandshakesHeld' /\ API!StoppedIsIdle'
  BY DEF API!IndInv, API!TypeOK, API!WorkersOf, API!HandshakesHeld, API!StoppedIsIdle
<1> QED BY <1>1, <1>2, <1>3 DEF API!IndInv

LEMMA StopJoinWorkersIndInv ==
  ASSUME API!IndInv, NEW s \in Servers, API!StopJoinWorkers(s)
  PROVE  API!IndInv'
<1> USE ServerFacts DEF API!StopJoinWorkers
<1>1. API!TypeOK'
  BY DEF API!IndInv, API!TypeOK, API!WorkerPcs, API!ConnPcs, API!StopPcs
<1>2. API!ConnsHaveOneOwner'
  BY DEF API!IndInv, API!TypeOK, API!ConnsHaveOneOwner
<1>3. API!HandshakesHeld' /\ API!StoppedIsIdle'
  BY DEF API!IndInv, API!TypeOK, API!WorkersOf, API!HandshakesHeld, API!StoppedIsIdle
<1> QED BY <1>1, <1>2, <1>3 DEF API!IndInv

LEMMA ServersStutter == API!IndInv /\ UNCHANGED serverVars => API!IndInv'
BY DEF serverVars, API!IndInv, API!TypeOK, API!ConnsHaveOneOwner, API!HandshakesHeld,
       API!StoppedIsIdle, API!WorkersOf
-----------------------------------------------------------------------------
(* The service                                                             *)

LEMMA InitServiceInv == ServiceInit => ServiceInv
<1> SUFFICES ASSUME ServiceInit PROVE ServiceInv
  OBVIOUS
<1>1. IndInv /\ API!IndInv
  BY InitIndInv, InitServers DEF ServiceInit
<1>2. JoinersAnswer /\ MainJoined /\ ServersStopped /\ NothingStarted
  BY DEF ServiceInit, Init, Threads, JoinersAnswer, MainJoined, ServersStopped, NothingStarted
<1> QED BY <1>1, <1>2 DEF ServiceInit, ServiceInv, Phases

LEMMA ManagerStays == IndInv /\ UNCHANGED managerVars => IndInv'
BY StutterIndInv DEF managerVars

\* The conjuncts beside the invariants of the parts stay when neither the
\* manager nor main moves.
LEMMA RestStays ==
  ASSUME ServiceInv, UNCHANGED <<joining, mainPc, capturing, worker, conn, stopPc, phase>>
  PROVE  JoinersAnswer' /\ MainJoined' /\ ServersStopped' /\ NothingStarted'
BY DEF ServiceInv, JoinersAnswer, MainJoined, ServersStopped, NothingStarted, CapturingSlots

LEMMA HandleRequestInv ==
  ASSUME ServiceInv, Alive, NEW w \in Callers, HandleRequest(w)
  PROVE  ServiceInv'
<1>1. /\ API!ReadRequest(w) /\ ctx' = ctx
      /\ worker[w] \in Conns /\ worker' = worker /\ stopPc' = stopPc
      /\ conn' = [conn EXCEPT ![worker[w]] = "answering"]
  BY DEF HandleRequest, API!ReadRequest
<1>2. API!IndInv'
  BY <1>1, ReadRequestIndInv DEF ServiceInv
<1>3. phase \notin {"destructors", "exited"}
  BY <1>1, ServerFacts DEF ServiceInv, ServersStopped, API!IndInv, API!StoppedIsIdle, API!WorkersOf
<1>4. conn \in [Conns -> API!ConnPcs]
  BY DEF ServiceInv, API!IndInv, API!TypeOK
<1>5. \A c \in Conns : conn[c] = "answering" => conn'[c] = "answering"
  BY <1>1, <1>4
<1>6. conn'[worker[w]] = "answering"
  BY <1>1, <1>4
<1>7. CASE Start(w) \/ Stop(w)
  <2>1. PICK c \in Cameras, T \in (SUBSET Types) \ {{}} : StartCapture(w, c, T) \/ StopCapture(w, c, T)
    BY <1>7 DEF Start, Stop
  <2>2. IndInv'
    BY <2>1, StartCaptureIndInv, StopCaptureIndInv DEF ServiceInv
  <2>3. phase' = phase /\ mainPc' = mainPc
    BY <1>7 DEF Start, Stop, StartCapture, StopCapture
  <2>4. \A t \in Threads : t # w => joining'[t] = joining[t]
    BY <2>1 DEF StartCapture, StopCapture, ReleaseDealer, ServiceInv, IndInv, TypeOK
  <2>5. JoinersAnswer'
    BY <1>1, <1>5, <1>6, <2>4 DEF ServiceInv, JoinersAnswer, Threads
  <2>6. MainJoined'
    BY <2>3, <2>4, ThreadsAssumption DEF ServiceInv, MainJoined, Threads
  <2>7. ServersStopped' /\ NothingStarted'
    BY <1>3, <2>3 DEF ServersStopped, NothingStarted, ServiceInv
  <2> QED BY <1>1, <1>2, <2>2, <2>3, <2>5, <2>6, <2>7 DEF ServiceInv
<1>8. CASE OtherCommand \/ RouteThrows
  <2>1. UNCHANGED managerVars /\ phase' \in {phase, "terminated"}
    BY <1>8 DEF OtherCommand, RouteThrows
  <2>2. IndInv'
    BY <2>1, ManagerStays DEF ServiceInv
  <2>3. joining' = joining /\ mainPc' = mainPc
    BY <2>1 DEF managerVars, vars
  <2>4. JoinersAnswer' /\ MainJoined'
    BY <1>1, <1>5, <2>3 DEF ServiceInv, JoinersAnswer, MainJoined
  <2>5. ServersStopped' /\ NothingStarted'
    BY <1>3, <2>1, <2>3 DEF ServersStopped, NothingStarted, ServiceInv
  <2>6. phase' \in Phases
    BY <2>1 DEF ServiceInv, Phases
  <2> QED BY <1>1, <1>2, <2>2, <2>4, <2>5, <2>6 DEF ServiceInv
<1> QED BY <1>7, <1>8 DEF HandleRequest

\* No step of a server's threads takes a connection from a worker that joins.
LEMMA ServerStepKeepsJoiners ==
  ASSUME ServiceInv, ServerStep
  PROVE  API!IndInv' /\ JoinersAnswer' /\ stopPc' = stopPc
<1>1. joining' = joining
  BY DEF ServerStep, managerVars, vars
<1>2. \A v \in Callers : joining[v] # {} => worker[v] \in Conns /\ conn[worker[v]] = "answering"
  BY DEF ServiceInv, JoinersAnswer
<1>3. /\ worker \in [Callers -> API!WorkerPcs \union Conns] /\ conn \in [Conns -> API!ConnPcs]
      /\ \A s \in Servers : pending[s] \in Seq(Conns)
  BY DEF ServiceInv, API!IndInv, API!TypeOK
<1>4. CASE \E s \in Servers : API!AcceptThread(s)
  <2>1. PICK s \in Servers : API!AcceptThread(s)
    BY <1>4
  <2>2. CASE API!AcceptEnds(s)
    BY <1>1, <1>2, <2>2, AcceptEndsIndInv DEF API!AcceptEnds, ServiceInv, JoinersAnswer
  <2>3. CASE \E c \in Conns : API!Accept(c) \/ API!HandshakeDone(c) \/ API!HandshakeFailed(c)
    <3>1. PICK c \in Conns : API!Accept(c) \/ API!HandshakeDone(c) \/ API!HandshakeFailed(c)
      BY <2>3
    <3>2. API!IndInv'
      BY <3>1, AcceptIndInv, HandshakeDoneIndInv, HandshakeFailedIndInv DEF ServiceInv
    <3>3. /\ worker' = worker /\ stopPc' = stopPc
          /\ conn[c] # "answering" /\ \A e \in Conns : e # c => conn'[e] = conn[e]
      BY <1>3, <3>1 DEF API!Accept, API!HandshakeDone, API!HandshakeFailed
    <3> QED BY <1>1, <1>2, <3>2, <3>3 DEF JoinersAnswer
  <2> QED BY <2>1, <2>2, <2>3 DEF API!AcceptThread
<1>5. CASE \E w \in Callers : API!WorkerLoop(w)
  <2>1. PICK w \in Callers : API!WorkerHead(w) \/ API!WorkerTake(w) \/ API!WorkerLeave(w)
    BY <1>5 DEF API!WorkerLoop
  <2>2. API!IndInv'
    BY <2>1, WorkerHeadIndInv, WorkerTakeIndInv, WorkerLeaveIndInv DEF ServiceInv
  <2>3. /\ stopPc' = stopPc /\ worker[w] \in {"head", "wait"}
        /\ \A v \in Callers : v # w => worker'[v] = worker[v]
    BY <1>3, <2>1 DEF API!WorkerHead, API!WorkerTake, API!WorkerLeave
  <2>4. joining[w] = {}
    BY <1>2, <2>3, ServerFacts
  <2>5. \A c \in Conns : conn[c] = "answering" => conn'[c] = "answering"
    <3>1. CASE API!WorkerTake(w)
      <4>1. Server[w] \in Servers /\ pending[Server[w]] \in Seq(Conns) /\ pending[Server[w]] # <<>>
        BY <1>3, <3>1, ServerFacts DEF API!WorkerTake
      <4>2. 1 \in DOMAIN pending[Server[w]] /\ Head(pending[Server[w]]) = pending[Server[w]][1]
        BY <4>1
      <4>3. conn[Head(pending[Server[w]])] = "queued"
        BY <4>1, <4>2 DEF ServiceInv, API!IndInv, API!ConnsHaveOneOwner
      <4> QED BY <1>3, <3>1, <4>3 DEF API!WorkerTake
    <3>2. CASE API!WorkerHead(w) \/ API!WorkerLeave(w)
      BY <3>2 DEF API!WorkerHead, API!WorkerLeave
    <3> QED BY <2>1, <3>1, <3>2
  <2> QED BY <1>1, <1>2, <2>2, <2>3, <2>4, <2>5 DEF JoinersAnswer
<1>6. CASE \E w \in Callers : Answer(w) \/ API!PeerGone(w)
  <2>1. PICK w \in Callers : Answer(w) \/ API!PeerGone(w)
    BY <1>6
  <2>2. API!Answer(w) \/ API!PeerGone(w)
    BY <2>1 DEF Answer
  <2>3. /\ worker[w] \in Conns /\ stopPc' = stopPc
        /\ \A v \in Callers : v # w => worker'[v] = worker[v]
        /\ \A c \in Conns : c # worker[w] => conn'[c] = conn[c]
    BY <1>3, <2>2 DEF API!Answer, API!PeerGone, API!Close
  <2>4. API!IndInv'
    BY <2>2, <2>3, CloseIndInv DEF ServiceInv
  <2>5. joining[w] = {}
    BY <1>2, <2>1 DEF Answer, API!PeerGone
  <2>6. \A v \in Callers : v # w => worker[v] # worker[w]
    BY <2>3 DEF ServiceInv, API!IndInv, API!ConnsHaveOneOwner
  <2> QED BY <1>1, <1>2, <2>3, <2>4, <2>5, <2>6 DEF JoinersAnswer
<1>7. CASE \E c \in Conns : API!FallsSilent(c)
  <2>1. PICK c \in Conns : API!FallsSilent(c)
    BY <1>7
  <2>2. /\ worker' = worker /\ stopPc' = stopPc
        /\ conn[c] # "answering" /\ \A e \in Conns : e # c => conn'[e] = conn[e]
    BY <1>3, <2>1 DEF API!FallsSilent
  <2>3. API!IndInv'
    BY <2>1, FallsSilentIndInv DEF ServiceInv
  <2> QED BY <1>1, <1>2, <2>2, <2>3 DEF JoinersAnswer
<1> QED BY <1>4, <1>5, <1>6, <1>7 DEF ServerStep

LEMMA ServerStepInv ==
  ASSUME ServiceInv, ServerStep
  PROVE  ServiceInv'
<1>1. IndInv'
  BY ManagerStays DEF ServerStep, ServiceInv
<1>2. MainJoined' /\ ServersStopped' /\ NothingStarted'
  BY ServerStepKeepsJoiners
     DEF ServerStep, ServiceInv, managerVars, vars, slotVars, MainJoined, ServersStopped,
         NothingStarted, CapturingSlots
<1>3. phase' = phase /\ ctx' = ctx
  BY DEF ServerStep
<1> QED BY <1>1, <1>2, <1>3, ServerStepKeepsJoiners DEF ServiceInv

LEMMA DealerThreadInv ==
  ASSUME ServiceInv, Alive, NEW d \in Dealers, DealerThread(d)
  PROVE  ServiceInv'
<1>1. UNCHANGED serverVars /\ ctx' = ctx
  BY DEF DealerThread
<1>2. API!IndInv'
  BY <1>1, ServersStutter DEF ServiceInv
<1>3. CASE DealerInContext(d)
  <2>1. Dealer(d) /\ phase' = phase
    BY <1>3 DEF DealerInContext
  <2>2. IndInv'
    BY <2>1, DealerIndInv DEF ServiceInv
  <2>3. UNCHANGED <<capturing, joining, mainPc>>
    BY <2>1 DEF Dealer, DealerSetup, DealerCheckRunning, DealerCheckCapturing, DealerPoll,
                DealerReceive, DealerPush, DealerRoundDone, DealerStep, slotVars
  <2> QED BY <1>1, <1>2, <2>1, <2>2, <2>3, RestStays DEF serverVars, ServiceInv
<1>4. CASE DealerCrash(d)
  <2>1. UNCHANGED managerVars /\ phase' = "terminated"
    BY <1>4 DEF DealerCrash
  <2>2. IndInv'
    BY <2>1, ManagerStays DEF ServiceInv
  <2>3. JoinersAnswer' /\ MainJoined' /\ ServersStopped' /\ NothingStarted'
    BY <1>1, <2>1 DEF serverVars, managerVars, vars, ServiceInv, JoinersAnswer, MainJoined,
                      ServersStopped, NothingStarted
  <2> QED BY <1>1, <1>2, <2>1, <2>2, <2>3 DEF ServiceInv, Phases
<1> QED BY <1>3, <1>4 DEF DealerThread

LEMMA JoinInv ==
  ASSUME ServiceInv, NEW w \in Threads, NEW d \in Dealers, Join(w, d)
  PROVE  ServiceInv'
<1>1. JoinDealer(w, d) /\ UNCHANGED <<serverVars, phase, ctx>>
  BY DEF Join
<1>2. IndInv' /\ API!IndInv'
  BY <1>1, JoinDealerIndInv, ServersStutter DEF ServiceInv
<1>3. /\ \A t \in Threads : joining'[t] \subseteq joining[t]
      /\ capturing' = capturing /\ mainPc' = mainPc
  BY <1>1 DEF JoinDealer, slotVars, ServiceInv, IndInv, TypeOK
<1>4. JoinersAnswer' /\ MainJoined' /\ ServersStopped' /\ NothingStarted'
  BY <1>1, <1>3 DEF serverVars, Threads, ServiceInv, JoinersAnswer, MainJoined, ServersStopped,
                    NothingStarted, CapturingSlots
<1> QED BY <1>1, <1>2, <1>4 DEF ServiceInv
-----------------------------------------------------------------------------
(* main                                                                    *)

LEMMA MainStopAllInv ==
  ASSUME ServiceInv, MainStopAll
  PROVE  ServiceInv'
<1>1. StopAll /\ phase \in {"stop_all", "destructors"} /\ UNCHANGED <<serverVars, phase, ctx>>
  BY DEF MainStopAll
<1>2. IndInv' /\ API!IndInv'
  BY <1>1, StopAllIndInv, ServersStutter DEF ServiceInv
<1>3. JoinersAnswer'
  <2>1. \A w \in Callers : joining'[w] = joining[w]
    BY <1>1, ThreadsAssumption
       DEF StopAll, StopAllClearRunning, StopAllMark, StopAllDispose, ServiceInv, IndInv, TypeOK, Threads
  <2> QED BY <1>1, <2>1 DEF serverVars, ServiceInv, JoinersAnswer
<1>4. MainJoined'
  BY <1>1 DEF StopAll, StopAllClearRunning, StopAllMark, StopAllDispose, MainJoined
<1>5. ServersStopped'
  BY <1>1 DEF serverVars, ServiceInv, ServersStopped
<1>6. NothingStarted'
  BY <1>1 DEF StopAll, StopAllClearRunning, StopAllMark, StopAllDispose, slotVars, ServiceInv,
              NothingStarted, CapturingSlots
<1> QED BY <1>1, <1>2, <1>3, <1>4, <1>5, <1>6 DEF ServiceInv

\* The steps of main that only move phase and ctx.
LEMMA MainMovesInv ==
  ASSUME ServiceInv, Signal \/ TerminateContext \/ DestroyContext \/ Exit
  PROVE  ServiceInv'
<1>1. UNCHANGED <<managerVars, serverVars>>
  BY DEF Signal, TerminateContext, DestroyContext, Exit
<1>2. IndInv' /\ API!IndInv'
  BY <1>1, ManagerStays, ServersStutter DEF ServiceInv
<1>3. phase' \in Phases /\ ctx' \in {"open", "terminating", "destroyed"}
  BY DEF Signal, TerminateContext, DestroyContext, Exit, Phases, ServiceInv
<1>4. JoinersAnswer' /\ MainJoined'
  BY <1>1 DEF managerVars, vars, serverVars, ServiceInv, JoinersAnswer, MainJoined
<1>5. ServersStopped' /\ NothingStarted'
  BY <1>1 DEF Signal, TerminateContext, DestroyContext, Exit, managerVars, vars, slotVars, serverVars,
              ServiceInv, ServersStopped, NothingStarted, CapturingSlots
<1> QED BY <1>2, <1>3, <1>4, <1>5 DEF ServiceInv

LEMMA StopServersInv ==
  ASSUME ServiceInv, StopServers
  PROVE  ServiceInv'
<1>1. phase = "api" /\ UNCHANGED <<managerVars, phase, ctx>>
  BY DEF StopServers
<1>2. PICK s \in Servers : API!StopListening(s) \/ API!StopJoinAccept(s) \/ API!StopJoinWorkers(s)
  BY DEF StopServers, API!Stop
<1>3. IndInv' /\ API!IndInv'
  BY <1>1, <1>2, ManagerStays, StopListeningIndInv, StopJoinAcceptIndInv, StopJoinWorkersIndInv
     DEF ServiceInv
<1>4. joining' = joining /\ mainPc' = mainPc /\ conn' = conn
  BY <1>1, <1>2 DEF managerVars, vars, API!StopListening, API!StopJoinAccept, API!StopJoinWorkers
<1>5. \A w \in Callers : worker[w] \in Conns => worker'[w] = worker[w]
  BY <1>2, ServerFacts
     DEF API!StopListening, API!StopJoinAccept, API!StopJoinWorkers, API!WorkersOf, ServiceInv,
         API!IndInv, API!TypeOK
<1>6. JoinersAnswer' /\ MainJoined' /\ ServersStopped' /\ NothingStarted'
  BY <1>1, <1>4, <1>5 DEF ServiceInv, JoinersAnswer, MainJoined, ServersStopped, NothingStarted
<1> QED BY <1>1, <1>3, <1>6 DEF ServiceInv

LEMMA DestructorsInv ==
  ASSUME ServiceInv, Destructors, Alive
  PROVE  ServiceInv'
<1>1. /\ phase = "api" /\ phase' = "destructors" /\ mainPc' = "run"
      /\ \A s \in Servers : stopPc[s] = "stopped"
      /\ UNCHANGED <<running, slotVars, bufferSlots, sdkStreaming, dealerVars, joining, serverVars, ctx>>
  BY DEF Destructors
<1>2. joining[Main] = {}
  BY <1>1 DEF ServiceInv, NothingStarted, MainJoined
<1>3. TypeOK'
  BY <1>1 DEF slotVars, dealerVars, ServiceInv, IndInv, TypeOK, MainPcs
<1>4. /\ CapturingIffSubscribed' /\ HandleIffCapturing'
      /\ EveryDealerHasOneOwner' /\ MainJoinsAfterMark'
  BY <1>1, <1>2 DEF slotVars, dealerVars, ServiceInv, IndInv, CapturingIffSubscribed, HandleIffCapturing,
                    EveryDealerHasOneOwner, OwnersDistinct, OwnedIffCreated, MainJoinsAfterMark
<1>5. API!IndInv'
  BY <1>1, ServersStutter DEF ServiceInv
<1>6. JoinersAnswer' /\ MainJoined' /\ ServersStopped' /\ NothingStarted'
  BY <1>1 DEF serverVars, ServiceInv, JoinersAnswer, MainJoined, ServersStopped, NothingStarted
<1> QED BY <1>1, <1>3, <1>4, <1>5, <1>6 DEF ServiceInv, IndInv, Phases

LEMMA ServiceStutter == ServiceInv /\ UNCHANGED serviceVars => ServiceInv'
<1> SUFFICES ASSUME ServiceInv, UNCHANGED serviceVars PROVE ServiceInv'
  OBVIOUS
<1>1. IndInv' /\ API!IndInv'
  BY ManagerStays, ServersStutter DEF serviceVars, ServiceInv
<1>2. JoinersAnswer' /\ MainJoined' /\ ServersStopped' /\ NothingStarted'
  BY RestStays DEF serviceVars, managerVars, vars, slotVars, serverVars
<1> QED BY <1>1, <1>2 DEF serviceVars, ServiceInv

LEMMA ServiceNextInv == ServiceInv /\ [ServiceNext]_serviceVars => ServiceInv'
<1> SUFFICES ASSUME ServiceInv, [ServiceNext]_serviceVars PROVE ServiceInv'
  OBVIOUS
<1>1. CASE UNCHANGED serviceVars
  BY <1>1, ServiceStutter
<1>2. CASE ServiceNext
  <2> USE <1>2 DEF ServiceNext
  <2>1. CASE \E w \in Callers : HandleRequest(w)
    BY <2>1, HandleRequestInv
  <2>2. CASE ServerStep
    BY <2>2, ServerStepInv
  <2>3. CASE \E d \in Dealers : DealerThread(d)
    BY <2>3, DealerThreadInv
  <2>4. CASE \E w \in Threads, d \in Dealers : Join(w, d)
    BY <2>4, JoinInv
  <2>5. CASE Signal
    BY <2>5, MainMovesInv
  <2>6. CASE Shut
    BY <2>6, MainStopAllInv, MainMovesInv, StopServersInv, DestructorsInv DEF Shut
  <2> QED BY <2>1, <2>2, <2>3, <2>4, <2>5, <2>6
<1> QED BY <1>1, <1>2
-----------------------------------------------------------------------------
\* What every state of the service satisfies: the invariants of the slot
\* manager and of the servers, and where main and the joining workers are.
THEOREM ServiceInvHolds == ServiceSpec => []ServiceInv
BY InitServiceInv, ServiceNextInv, PTL DEF ServiceSpec

\* The types of the service and of its parts.
THEOREM ServiceTypeCorrect == ServiceSpec => []ServiceTypeOK
<1>1. ServiceInv => ServiceTypeOK
  BY DEF ServiceInv, IndInv, API!IndInv, ServiceTypeOK
<1> QED BY <1>1, ServiceInvHolds, PTL

\* A connection, and its SSL object, is with one thread or once in the queue.
THEOREM ConnsAreOwned == ServiceSpec => []ConnsHaveOneOwner
<1>1. ServiceInv => ConnsHaveOneOwner
  BY DEF ServiceInv, API!IndInv, ConnsHaveOneOwner
<1> QED BY <1>1, ServiceInvHolds, PTL

\* When main has returned no dealer, worker or accept thread is left.
THEOREM NothingLeftAtExit == ServiceSpec => []ExitLeavesNothing
<1>1. ASSUME ServiceInv, phase = "exited" PROVE ExitLeavesNothing
  <2>1. \A s \in Servers : acceptor[s] = "none" /\ \A w \in Callers : Server[w] = s => worker[w] = "none"
    BY <1>1 DEF ServiceInv, ServersStopped, API!IndInv, API!StoppedIsIdle, API!WorkersOf
  <2>2. \A w \in Callers : worker[w] = "none"
    BY <2>1, ServerFacts
  <2>3. \A w \in Callers : joining[w] = {}
    BY <1>1, <2>2, ServerFacts DEF ServiceInv, JoinersAnswer
  <2>4. joining[Main] = {} /\ \A c \in Cameras : ~capturing[c]
    BY <1>1 DEF ServiceInv, NothingStarted, MainJoined, CapturingSlots
  <2>5. \A d \in Dealers : dealerPc[d] = "none"
    BY <1>1, <2>3, <2>4, DealersAssumption
       DEF ServiceInv, IndInv, HandleIffCapturing, EveryDealerHasOneOwner, OwnedIffCreated, Threads
  <2> QED BY <2>1, <2>2, <2>3, <2>4, <2>5 DEF ExitLeavesNothing
<1>2. ServiceInv => ExitLeavesNothing
  BY <1>1 DEF ExitLeavesNothing
<1> QED BY <1>2, ServiceInvHolds, PTL
==============================================================================
