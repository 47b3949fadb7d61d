-------------------------- MODULE DataPublisherProofs --------------------------
(***************************************************************************)
(* Safety of the publisher for any number of channels, any depth of their  *)
(* queues and any number of frames.  Six invariants, each inductive given  *)
(* those before it: the types, the order of the frames from the dealer to  *)
(* the publisher, the counters, the order of the parts on the sockets, the *)
(* messages they make, and what the callback gets.                         *)
(***************************************************************************)
EXTENDS DataPublisher, SequenceTheorems, FiniteSetTheorems, TLAPS

LEMMA Concat ==
  ASSUME NEW s \in Seq(Nat), NEW t \in Seq(Nat)
  PROVE  /\ s \o t \in Seq(Nat) /\ Len(s \o t) = Len(s) + Len(t)
         /\ DOMAIN (s \o t) = 1..(Len(s) + Len(t))
BY ConcatProperties

LEMMA ConcatAppend ==
  ASSUME NEW s \in Seq(Nat), NEW t \in Seq(Nat), NEW e \in Nat
  PROVE  s \o Append(t, e) = Append(s \o t, e)
<1>1. <<e>> \in Seq(Nat) /\ s \o t \in Seq(Nat)
  OBVIOUS
<1>2. Append(t, e) = t \o <<e>> /\ Append(s \o t, e) = (s \o t) \o <<e>>
  BY <1>1, AppendIsConcat
<1> QED BY <1>1, <1>2, ConcatAssociative

\* Popping a frame moves the border between two sequences.
LEMMA PopMovesBorder ==
  ASSUME NEW s \in Seq(Nat), NEW t \in Seq(Nat), t # <<>>
  PROVE  Append(s, Head(t)) \o Tail(t) = s \o t
<1>1. Head(t) \in Nat /\ Tail(t) \in Seq(Nat) /\ <<Head(t)>> \in Seq(Nat)
  OBVIOUS
<1>2. Append(s, Head(t)) = s \o <<Head(t)>>
  BY <1>1, AppendIsConcat
<1>3. <<Head(t)>> \o Tail(t) = t
  <2>1. 1 \in 1..Len(t) /\ Len(t) \in 1..Len(t) /\ Head(t) = t[1] /\ 1 + 1 = 2
    OBVIOUS
  <2>2. SubSeq(t, 1, Len(t)) = <<t[1]>> \o SubSeq(t, 1 + 1, Len(t))
    BY <2>1, SubSeqRecursiveFirst
  <2>3. SubSeq(t, 1, Len(t)) = t
    BY SubSeqFull
  <2>4. Tail(t) = SubSeq(t, 2, Len(t))
    BY TailIsSubSeq
  <2> QED BY <2>1, <2>2, <2>3, <2>4
<1>4. (s \o <<Head(t)>>) \o Tail(t) = s \o (<<Head(t)>> \o Tail(t))
  BY <1>1, ConcatAssociative, SMTT(30)
<1> QED BY <1>2, <1>3, <1>4

LEMMA LastOfAppend ==
  ASSUME NEW S, NEW s \in Seq(S), NEW e \in S
  PROVE  Last(Append(s, e)) = e /\ Front(Append(s, e)) = s
<1>1. Append(s, e) \in Seq(S) /\ Len(Append(s, e)) = Len(s) + 1
      /\ \A i \in 1..Len(s) : Append(s, e)[i] = s[i]
  OBVIOUS
<1>2. Last(Append(s, e)) = e
  BY DEF Last
<1>3. /\ Front(Append(s, e)) \in Seq(S) /\ Len(Front(Append(s, e))) = Len(s)
      /\ \A i \in 1..Len(s) : Front(Append(s, e))[i] = s[i]
  BY <1>1, SubSeqProperties DEF Front
<1> QED BY <1>2, <1>3

LEMMA SuffixElements ==
  ASSUME NEW s \in Seq(Nat), NEW t \in Seq(Nat)
  PROVE  IsSuffix(s, t) <=> /\ Len(s) <= Len(t)
                            /\ \A i \in 1..Len(s) : s[i] = t[i + (Len(t) - Len(s))]
<1> DEFINE rs == Reverse(s)  rt == Reverse(t)
<1>1. /\ rs \in Seq(Nat) /\ Len(rs) = Len(s) /\ \A i \in 1..Len(s) : rs[i] = s[(Len(s) - i) + 1]
      /\ rt \in Seq(Nat) /\ Len(rt) = Len(t) /\ \A i \in 1..Len(t) : rt[i] = t[(Len(t) - i) + 1]
  BY DEF Reverse
<1> HIDE DEF rs, rt
<1>2. ASSUME Len(s) <= Len(t)
      PROVE  (\A i \in 1..Len(s) : rs[i] = rt[i])
               <=> \A i \in 1..Len(s) : s[i] = t[i + (Len(t) - Len(s))]
  <2>1. ASSUME \A i \in 1..Len(s) : rs[i] = rt[i], NEW i \in 1..Len(s)
        PROVE  s[i] = t[i + (Len(t) - Len(s))]
    <3>1. (Len(s) - i) + 1 \in 1..Len(s) /\ (Len(s) - i) + 1 \in 1..Len(t)
      BY <1>2
    <3>2. rs[(Len(s) - i) + 1] = rt[(Len(s) - i) + 1]
      BY <2>1, <3>1
    <3>3. (Len(s) - ((Len(s) - i) + 1)) + 1 = i
          /\ (Len(t) - ((Len(s) - i) + 1)) + 1 = i + (Len(t) - Len(s))
      OBVIOUS
    <3> QED BY <1>1, <3>1, <3>2, <3>3
  <2>2. ASSUME \A i \in 1..Len(s) : s[i] = t[i + (Len(t) - Len(s))], NEW i \in 1..Len(s)
        PROVE  rs[i] = rt[i]
    <3>1. (Len(s) - i) + 1 \in 1..Len(s) /\ i \in 1..Len(t)
          /\ ((Len(s) - i) + 1) + (Len(t) - Len(s)) = (Len(t) - i) + 1
      BY <1>2
    <3> QED BY <1>1, <2>2, <3>1
  <2> QED BY <2>1, <2>2
<1>3. ASSUME Len(s) <= Len(t)
      PROVE  SubSeq(rs, 1, Len(s)) = SubSeq(rt, 1, Len(s)) <=> \A i \in 1..Len(s) : rs[i] = rt[i]
  <2>1. /\ SubSeq(rs, 1, Len(s)) \in Seq(Nat) /\ Len(SubSeq(rs, 1, Len(s))) = Len(s)
        /\ \A i \in 1..Len(s) : SubSeq(rs, 1, Len(s))[i] = rs[i]
    BY <1>1, SubSeqProperties, SMTT(30)
  <2>2. /\ SubSeq(rt, 1, Len(s)) \in Seq(Nat) /\ Len(SubSeq(rt, 1, Len(s))) = Len(s)
        /\ \A i \in 1..Len(s) : SubSeq(rt, 1, Len(s))[i] = rt[i]
    <3>1. 1 \in Int /\ Len(s) \in Int /\ \A i \in 1..Len(s) : rt[i] \in Nat
      <4>1. Len(s) \in Nat /\ Len(t) \in Nat /\ \A i \in 1..Len(rt) : rt[i] \in Nat
        BY <1>1, SMTT(30)
      <4>2. \A i \in 1..Len(s) : i \in 1..Len(rt)
        BY <1>1, <1>3, <4>1
      <4> QED BY <4>1, <4>2
    <3>2. /\ SubSeq(rt, 1, Len(s)) \in Seq(Nat)
          /\ Len(SubSeq(rt, 1, Len(s))) = IF 1 <= Len(s) THEN Len(s) - 1 + 1 ELSE 0
          /\ \A i \in 1 .. Len(s) - 1 + 1 : SubSeq(rt, 1, Len(s))[i] = rt[1 + i - 1]
      BY <3>1, SubSeqProperties
    <3> QED BY <3>2
  <2> QED BY <2>1, <2>2
<1>4. IsSuffix(s, t) <=> Len(s) <= Len(t) /\ SubSeq(rs, 1, Len(s)) = SubSeq(rt, 1, Len(s))
  BY <1>1 DEF IsSuffix, IsPrefix, rs, rt
<1> QED BY <1>2, <1>3, <1>4

LEMMA EmptySuffix ==
  ASSUME NEW s \in Seq(Nat)
  PROVE  IsSuffix(<<>>, s)
<1>1. <<>> \in Seq(Nat) /\ Len(<<>>) = 0 /\ 1..0 = {} /\ 0 <= Len(s)
  OBVIOUS
<1> QED BY <1>1, SuffixElements

LEMMA SuffixAppend ==
  ASSUME NEW s \in Seq(Nat), NEW t \in Seq(Nat), NEW e \in Nat, IsSuffix(s, t)
  PROVE  IsSuffix(Append(s, e), Append(t, e))
<1> DEFINE as == Append(s, e)  at2 == Append(t, e)
<1>1. /\ as \in Seq(Nat) /\ Len(as) = Len(s) + 1 /\ as[Len(s) + 1] = e
      /\ \A i \in 1..Len(s) : as[i] = s[i]
      /\ at2 \in Seq(Nat) /\ Len(at2) = Len(t) + 1 /\ at2[Len(t) + 1] = e
      /\ \A i \in 1..Len(t) : at2[i] = t[i]
  OBVIOUS
<1> HIDE DEF as, at2
<1>2. /\ Len(s) <= Len(t) /\ Len(s) \in Nat /\ Len(t) \in Nat
      /\ \A i \in 1..Len(s) : s[i] = t[i + (Len(t) - Len(s))]
  BY SuffixElements
<1>3. ASSUME NEW i \in 1..(Len(s) + 1)
      PROVE  as[i] = at2[i + (Len(t) - Len(s))]
  <2>1. CASE i = Len(s) + 1
    <3>1. i + (Len(t) - Len(s)) = Len(t) + 1
      BY <1>2, <2>1
    <3> QED BY <1>1, <2>1, <3>1
  <2>2. CASE i # Len(s) + 1
    <3>1. i \in 1..Len(s) /\ i + (Len(t) - Len(s)) \in 1..Len(t)
      BY <1>2, <2>2, SMTT(30)
    <3> QED BY <1>1, <1>2, <3>1
  <2> QED BY <2>1, <2>2
<1>4. Len(as) <= Len(at2) /\ Len(at2) - Len(as) = Len(t) - Len(s)
  BY <1>1, <1>2
<1>5. IsSuffix(as, at2)
  BY <1>1, <1>3, <1>4, SuffixElements
<1> QED BY <1>5 DEF as, at2
-----------------------------------------------------------------------------
(* The types                                                               *)

LEMMA ChannelsAt ==
  /\ 1 \in 1..Len(DrainOrder) /\ Len(DrainOrder) \in Nat
  /\ \A i \in 1..Len(DrainOrder) : DrainOrder[i] \in Channels
BY PublisherAssumption

LEMMA InHandIsNat ==
  ASSUME PubInv, pub \in {"header", "payload", "feed"}
  PROVE  /\ Current \in Channels /\ InHand \in Nat
         /\ Header(InHand) \in Parts /\ Payload(InHand) \in Parts
<1>1. Current \in Channels /\ taken[Current] \in Seq(Nat) /\ taken[Current] # <<>>
  BY ChannelsAt DEF PubInv, TypeOK, InHandTaken, Current
<1>2. InHand \in Nat
  BY <1>1 DEF InHand, Last
<1> QED BY <1>1, <1>2 DEF Header, Payload, Parts

LEMMA InitPubInv == Init => PubInv
<1> SUFFICES ASSUME Init PROVE PubInv
  OBVIOUS
<1>1. <<>> \in Seq(Nat) /\ <<>> \in Seq(Parts) /\ Len(<<>>) = 0
  OBVIOUS
<1>2. queue \in [Channels -> Seq(Nat)] /\ \A c \in Channels : Len(queue[c]) <= Depth
  BY <1>1, PublisherAssumption DEF Init
<1>3. taken \in [Channels -> Seq(Nat)] /\ fed \in [Channels -> Seq(Nat)] /\ wire \in [Channels -> Seq(Parts)]
  BY <1>1 DEF Init
<1>4. received \in [Channels -> Nat] /\ before \in [Channels -> Nat] /\ totals \in [pushed : Nat, dropped : Nat]
  BY DEF Init
<1>5. TypeOK
  BY <1>2, <1>3, <1>4, ChannelsAt DEF Init, TypeOK, Draining
<1> QED BY <1>5 DEF Init, PubInv, PubStarted, InHandTaken

LEMMA DealerPubInv ==
  ASSUME PubInv, Dealer
  PROVE  PubInv'
<1> USE DEF PubInv, mainVars, pubVars
<1>1. CASE \E c \in Channels : DealerEnqueue(c)
  <2>1. PICK c \in Channels : DealerEnqueue(c)
    BY <1>1
  <2>2. received[c] + 1 \in Nat /\ queue[c] \in Seq(Nat) /\ Len(queue[c]) \in Nat
    BY DEF TypeOK
  <2>3. received' \in [Channels -> Nat]
    BY <2>1, <2>2 DEF DealerEnqueue, TypeOK
  <2>4. queue' \in [Channels -> Seq(Nat)] /\ \A d \in Channels : Len(queue'[d]) <= Depth
    <3> DEFINE q == Append(queue[c], received[c] + 1)
    <3>1. q \in Seq(Nat) /\ Len(q) = Len(queue[c]) + 1
      BY <2>2
    <3>2. queue \in [Channels -> Seq(Nat)] /\ \A d \in Channels : Len(queue[d]) <= Depth
      BY DEF TypeOK
    <3>3. queue' = queue \/ (Len(queue[c]) < Depth /\ queue' = [queue EXCEPT ![c] = q])
      BY <2>1 DEF DealerEnqueue, Enqueue
    <3>4. Len(queue[c]) < Depth => Len(q) <= Depth
      BY <2>2, <3>1, PublisherAssumption
    <3> HIDE DEF q
    <3> QED BY <3>1, <3>2, <3>3, <3>4
  <2>5. TypeOK'
    BY <2>1, <2>3, <2>4 DEF DealerEnqueue, Enqueue, TypeOK
  <2> QED BY <2>1, <2>5 DEF DealerEnqueue, PubStarted, InHandTaken, Current
<1>2. CASE DealerCount
  <2>1. totals' \in [pushed : Nat, dropped : Nat]
    <3>1. totals.pushed + 1 \in Nat /\ totals.dropped + 1 \in Nat
      BY DEF TypeOK
    <3> QED BY <1>2, <3>1 DEF DealerCount, TypeOK
  <2>2. TypeOK'
    BY <1>2, <2>1 DEF DealerCount, TypeOK
  <2> QED BY <1>2, <2>2 DEF DealerCount, PubStarted, InHandTaken, Current
<1>3. CASE DealerNotify
  <2>1. TypeOK'
    BY <1>3 DEF DealerNotify, NotifyPub, TypeOK
  <2> QED BY <1>3, <2>1 DEF DealerNotify, NotifyPub, PubStarted, InHandTaken, Current
<1> QED BY <1>1, <1>2, <1>3 DEF Dealer

LEMMA PubLoopPubInv ==
  ASSUME PubInv, PubLoop
  PROVE  PubInv'
<1> USE DEF PubInv, dealerVars, mainVars
<1>1. CASE PubLoopHead \/ PubTest \/ PubBlock \/ PubTimeout \/ PubWoken
  <2>1. /\ UNCHANGED <<queue, dealerVars, mainVars, pubVars>>
        /\ pub # "none" /\ pub' \in {"test", "exited", "woken", "blocking", "blocked", "lock"}
    BY <1>1 DEF PubLoopHead, PubTest, PubBlock, PubTimeout, PubWoken, PubGoto
  <2>2. TypeOK'
    BY <2>1 DEF TypeOK, pubVars
  <2> QED BY <2>1, <2>2 DEF PubStarted, InHandTaken
<1>2. CASE PubLock
  <2>1. TypeOK'
    BY <1>2, ChannelsAt DEF PubLock, TypeOK, Draining
  <2> QED BY <1>2, <2>1 DEF PubLock, PubStarted, InHandTaken
<1>3. CASE PubPop
  <2>1. Current \in Channels /\ UNCHANGED Current
    BY <1>3, ChannelsAt DEF PubPop, TypeOK, Current
  <2>2. /\ queue[Current] \in Seq(Nat) /\ queue[Current] # <<>>
        /\ Head(queue[Current]) \in Nat /\ Tail(queue[Current]) \in Seq(Nat)
        /\ Len(Tail(queue[Current])) <= Depth /\ taken[Current] \in Seq(Nat)
    <3>1. /\ queue[Current] \in Seq(Nat) /\ queue[Current] # <<>>
          /\ Len(queue[Current]) <= Depth /\ taken[Current] \in Seq(Nat)
      BY <1>3, <2>1 DEF PubPop, TypeOK
    <3>2. /\ Head(queue[Current]) \in Nat /\ Tail(queue[Current]) \in Seq(Nat)
          /\ Len(Tail(queue[Current])) = Len(queue[Current]) - 1 /\ Len(queue[Current]) \in Nat
      BY <3>1, HeadTailProperties
    <3> QED BY <3>1, <3>2, PublisherAssumption
  <2>3. queue' \in [Channels -> Seq(Nat)] /\ \A d \in Channels : Len(queue'[d]) <= Depth
    BY <1>3, <2>1, <2>2 DEF PubPop, TypeOK
  <2>4. taken' \in [Channels -> Seq(Nat)] /\ taken'[Current] # <<>>
    <3> DEFINE t == Append(taken[Current], Head(queue[Current]))
    <3>1. t \in Seq(Nat) /\ t # <<>>
      BY <2>2, AppendProperties
    <3>2. taken \in [Channels -> Seq(Nat)] /\ taken' = [taken EXCEPT ![Current] = t]
      BY <1>3 DEF PubPop, TypeOK
    <3> HIDE DEF t
    <3> QED BY <2>1, <3>1, <3>2
  <2>5. pub' \in {"header", "feed"}
    BY <1>3 DEF PubPop, AfterPop
  <2>6. TypeOK'
    BY <1>3, <2>3, <2>4, <2>5 DEF PubPop, TypeOK, Draining
  <2> QED BY <1>3, <2>1, <2>4, <2>5, <2>6 DEF PubPop, PubStarted, InHandTaken
<1>4. CASE PubNextQueue
  <2>1. at' \in 1..Len(DrainOrder)
    BY <1>4, ChannelsAt DEF PubNextQueue, TypeOK
  <2>2. pub' \in {"drain", "loop"} /\ pub = "drain"
    BY <1>4 DEF PubNextQueue
  <2>3. TypeOK'
    BY <1>4, <2>1, <2>2 DEF PubNextQueue, TypeOK, Draining
  <2> QED BY <1>4, <2>2, <2>3 DEF PubNextQueue, PubStarted, InHandTaken
<1>5. CASE PubSendHeader \/ PubSendPayload
  <2>1. pub \in {"header", "payload"} /\ pub' \in {"payload", "feed"}
        /\ UNCHANGED <<queue, dealerVars, mainVars, at, taken, fed>>
    BY <1>5 DEF PubSendHeader, PubSendPayload
  <2>2. wire' \in [Channels -> Seq(Parts)]
    <3>1. PICK part \in Parts : wire' = [wire EXCEPT ![Current] = Append(wire[Current], part)]
      BY <1>5, InHandIsNat DEF PubSendHeader, PubSendPayload, Send
    <3>2. Append(wire[Current], part) \in Seq(Parts) /\ wire \in [Channels -> Seq(Parts)]
      BY <2>1, InHandIsNat DEF TypeOK
    <3> QED BY <3>1, <3>2
  <2>3. TypeOK'
    BY <2>1, <2>2 DEF TypeOK, Draining
  <2> QED BY <2>1, <2>3 DEF PubStarted, InHandTaken, Current
<1>6. CASE PubFeed
  <2>1. fed' \in [Channels -> Seq(Nat)]
    <3>1. Current \in Channels /\ InHand \in Nat
      BY <1>6, InHandIsNat DEF PubFeed
    <3>2. Append(fed[Current], InHand) \in Seq(Nat) /\ fed \in [Channels -> Seq(Nat)]
      BY <3>1 DEF TypeOK
    <3>3. fed' = fed \/ fed' = [fed EXCEPT ![Current] = Append(fed[Current], InHand)]
      BY <1>6 DEF PubFeed
    <3> QED BY <3>2, <3>3
  <2>2. pub = "feed" /\ pub' \in {"drain", "crashed"}
    BY <1>6 DEF PubFeed
  <2>3. TypeOK'
    BY <1>6, <2>1, <2>2 DEF PubFeed, TypeOK, Draining
  <2> QED BY <1>6, <2>2, <2>3 DEF PubFeed, PubStarted, InHandTaken
<1> QED BY <1>1, <1>2, <1>3, <1>4, <1>5, <1>6 DEF PubLoop

LEMMA MainPubInv ==
  ASSUME PubInv, Startup \/ PublishShutdown \/ Stop
  PROVE  PubInv'
<1> USE DEF PubInv, dealerVars, pubVars
<1>1. CASE StartPublisher
  <2>1. TypeOK'
    BY <1>1 DEF StartPublisher, TypeOK
  <2> QED BY <1>1, <2>1 DEF StartPublisher, PubStarted, InHandTaken
<1>2. CASE SetCallback
  <2>1. \A c \in Channels : Len(taken[c]) \in Nat
    BY DEF TypeOK
  <2>2. before' \in [Channels -> Nat]
    BY <1>2, <2>1 DEF SetCallback, TypeOK
  <2>3. TypeOK'
    BY <1>2, <2>2 DEF SetCallback, TypeOK
  <2> QED BY <1>2, <2>3 DEF SetCallback, PubStarted, InHandTaken, Current
<1>3. CASE PublishShutdown
  <2>1. Notice \in Parts
    BY DEF Notice, Parts
  <2>2. wire' \in [Channels -> Seq(Parts)]
    BY <1>3, <2>1 DEF PublishShutdown, Notices, TypeOK
  <2>3. TypeOK'
    BY <1>3, <2>2 DEF PublishShutdown, TypeOK
  <2> QED BY <1>3, <2>3 DEF PublishShutdown, PubStarted, InHandTaken, Current
<1>4. CASE StopClearRunning
  <2>1. TypeOK'
    BY <1>4 DEF StopClearRunning, TypeOK
  <2> QED BY <1>4, <2>1 DEF StopClearRunning, PubStarted, InHandTaken, Current
<1>5. CASE StopNotify
  <2>1. TypeOK'
    BY <1>5 DEF StopNotify, NotifyPub, TypeOK
  <2> QED BY <1>5, <2>1 DEF StopNotify, NotifyPub, PubStarted, InHandTaken, Current
<1>6. CASE StopJoinAndClose
  <2>1. TypeOK'
    BY <1>6 DEF StopJoinAndClose, TypeOK
  <2> QED BY <1>6, <2>1 DEF StopJoinAndClose, PubStarted, InHandTaken, Current
<1> QED BY <1>1, <1>2, <1>3, <1>4, <1>5, <1>6 DEF Startup, Stop

LEMMA NextPubInv == PubInv /\ [Next]_vars => PubInv'
<1> SUFFICES ASSUME PubInv, [Next]_vars PROVE PubInv'
  OBVIOUS
<1>1. CASE UNCHANGED vars
  BY <1>1 DEF vars, dealerVars, mainVars, pubVars, PubInv, TypeOK, PubStarted, InHandTaken, Current
<1> QED BY <1>1, DealerPubInv, PubLoopPubInv, MainPubInv DEF Next
-----------------------------------------------------------------------------
(* The order of the frames                                                 *)

OnTheWay(c) == taken[c] \o queue[c]

LEMMA OnTheWayIsSeq ==
  ASSUME PubInv, NEW c \in Channels
  PROVE  /\ OnTheWay(c) \in Seq(Nat) /\ DOMAIN OnTheWay(c) = 1..Len(OnTheWay(c))
         /\ Len(OnTheWay(c)) \in Nat /\ received[c] \in Nat
BY Concat DEF PubInv, TypeOK, OnTheWay

LEMMA AppendIncreasing ==
  ASSUME NEW s \in Seq(Nat), NEW n \in Nat, Increasing(s), \A i \in DOMAIN s : s[i] \in 1 .. n
  PROVE  /\ Increasing(Append(s, n + 1))
         /\ \A i \in DOMAIN Append(s, n + 1) : Append(s, n + 1)[i] \in 1 .. n + 1
<1> DEFINE t == Append(s, n + 1)
<1>1. /\ DOMAIN s = 1..Len(s) /\ DOMAIN t = 1..(Len(s) + 1) /\ Len(s) \in Nat
      /\ \A i \in 1..Len(s) : t[i] = s[i] /\ s[i] \in 1 .. n
      /\ t[Len(s) + 1] = n + 1
  OBVIOUS
<1> HIDE DEF t
<1>2. ASSUME NEW i \in DOMAIN t, NEW j \in DOMAIN t, i < j
      PROVE  t[i] < t[j]
  <2>1. i \in 1..Len(s)
    BY <1>1, <1>2
  <2>2. CASE j = Len(s) + 1
    BY <1>1, <2>1, <2>2
  <2>3. CASE j # Len(s) + 1
    BY <1>1, <1>2, <2>1, <2>3 DEF Increasing
  <2> QED BY <2>2, <2>3
<1>3. \A i \in DOMAIN t : t[i] \in 1 .. n + 1
  <2> SUFFICES ASSUME NEW i \in DOMAIN t PROVE t[i] \in 1 .. n + 1
    OBVIOUS
  <2>1. CASE i = Len(s) + 1
    BY <1>1, <2>1
  <2>2. CASE i # Len(s) + 1
    BY <1>1, <2>2
  <2> QED BY <2>1, <2>2
<1> QED BY <1>2, <1>3 DEF Increasing, t

LEMMA EnqueueOrderInv ==
  ASSUME PubInv, OrderInv, NEW c \in Channels, DealerEnqueue(c)
  PROVE  OrderInv'
<1>1. /\ taken[c] \in Seq(Nat) /\ queue[c] \in Seq(Nat) /\ received[c] \in Nat
      /\ received[c] + 1 \in Nat
  BY DEF PubInv, TypeOK
<1>2. /\ received'[c] = received[c] + 1
      /\ \A d \in Channels \ {c} : received'[d] = received[d] /\ OnTheWay(d)' = OnTheWay(d)
  BY DEF DealerEnqueue, Enqueue, PubInv, TypeOK, OnTheWay, pubVars
<1>3. OnTheWay(c)' = OnTheWay(c) \/ OnTheWay(c)' = Append(OnTheWay(c), received[c] + 1)
  <2>1. taken' = taken /\ (queue'[c] = queue[c] \/ queue'[c] = Append(queue[c], received[c] + 1))
    <3>1. queue \in [Channels -> Seq(Nat)]
      BY DEF PubInv, TypeOK
    <3>2. queue' = queue \/ queue' = [queue EXCEPT ![c] = Append(queue[c], received[c] + 1)]
      BY DEF DealerEnqueue, Enqueue
    <3> QED BY <3>1, <3>2 DEF DealerEnqueue, pubVars
  <2>2. taken[c] \o Append(queue[c], received[c] + 1) = Append(taken[c] \o queue[c], received[c] + 1)
    BY <1>1, ConcatAppend, Zenon
  <2>3. OnTheWay(c)' = taken[c] \o queue'[c]
    BY <2>1 DEF OnTheWay
  <2> QED BY <2>1, <2>2, <2>3 DEF OnTheWay
<1>4. \A d \in Channels : Increasing(OnTheWay(d)) /\ \A i \in DOMAIN OnTheWay(d) : OnTheWay(d)[i] \in 1 .. received[d]
  BY DEF OrderInv, OrderKept, Numbered, OnTheWay
<1>5. Increasing(OnTheWay(c)') /\ \A i \in DOMAIN OnTheWay(c)' : OnTheWay(c)'[i] \in 1 .. received'[c]
  <2>1. CASE OnTheWay(c)' = OnTheWay(c)
    <3>1. \A i \in DOMAIN OnTheWay(c) : OnTheWay(c)[i] \in Nat
      BY OnTheWayIsSeq
    <3>2. \A i \in DOMAIN OnTheWay(c) : OnTheWay(c)[i] \in 1 .. received[c] + 1
      BY <1>1, <1>4, <3>1
    <3> QED BY <1>2, <1>4, <2>1, <3>2
  <2>2. CASE OnTheWay(c)' = Append(OnTheWay(c), received[c] + 1)
    BY <1>1, <1>2, <1>4, <2>2, AppendIncreasing, OnTheWayIsSeq
  <2> QED BY <1>3, <2>1, <2>2
<1>6. \A d \in Channels : Increasing(OnTheWay(d)') /\ \A i \in DOMAIN OnTheWay(d)' : OnTheWay(d)'[i] \in 1 .. received'[d]
  BY <1>2, <1>4, <1>5
<1> QED BY <1>6 DEF OrderInv, OrderKept, Numbered, OnTheWay, Increasing

LEMMA PopOrderInv ==
  ASSUME PubInv, OrderInv, PubPop
  PROVE  OrderInv'
<1>1. /\ Current \in Channels /\ taken[Current] \in Seq(Nat)
      /\ queue[Current] \in Seq(Nat) /\ queue[Current] # <<>>
  BY ChannelsAt DEF PubPop, PubInv, TypeOK, Current
<1>2. \A c \in Channels : OnTheWay(c)' = OnTheWay(c)
  <2>1. ASSUME NEW c \in Channels, c # Current PROVE OnTheWay(c)' = OnTheWay(c)
    BY <2>1 DEF PubPop, PubInv, TypeOK, OnTheWay
  <2>2. OnTheWay(Current)' = Append(taken[Current], Head(queue[Current])) \o Tail(queue[Current])
    BY <1>1 DEF PubPop, PubInv, TypeOK, OnTheWay, Current
  <2>3. ASSUME NEW c \in Channels, c = Current PROVE OnTheWay(c)' = OnTheWay(c)
    <3>1. Current' = Current
      BY DEF PubPop, Current
    <3> QED BY <1>1, <2>2, <2>3, <3>1, PopMovesBorder DEF OnTheWay
  <2> QED BY <2>1, <2>3
<1>3. UNCHANGED received
  BY DEF PubPop, dealerVars
<1> QED BY <1>2, <1>3 DEF OrderInv, OrderKept, Numbered, OnTheWay, Increasing

LEMMA NextOrderInv == PubInv /\ OrderInv /\ [Next]_vars => OrderInv'
<1> SUFFICES ASSUME PubInv, OrderInv, [Next]_vars PROVE OrderInv'
  OBVIOUS
<1>1. ASSUME UNCHANGED <<queue, taken, received>> PROVE OrderInv'
  BY <1>1 DEF OrderInv, OrderKept, Numbered, Increasing
<1>2. CASE Dealer
  <2>1. CASE \E c \in Channels : DealerEnqueue(c)
    BY <2>1, EnqueueOrderInv
  <2>2. CASE DealerCount \/ DealerNotify
    BY <1>1, <2>2 DEF DealerCount, DealerNotify, pubVars
  <2> QED BY <1>2, <2>1, <2>2 DEF Dealer
<1>3. CASE PubLoop
  <2>1. CASE PubPop
    BY <2>1, PopOrderInv
  <2>2. CASE ~PubPop
    BY <1>1, <1>3, <2>2 DEF PubLoop, PubLoopHead, PubTest, PubBlock, PubTimeout, PubWoken, PubGoto,
       PubLock, PubNextQueue, PubSendHeader, PubSendPayload, PubFeed, dealerVars, pubVars
  <2> QED BY <2>1, <2>2
<1>4. CASE Startup \/ PublishShutdown \/ Stop
  BY <1>1, <1>4 DEF Startup, StartPublisher, SetCallback, PublishShutdown, Stop, StopClearRunning,
     StopNotify, StopJoinAndClose, dealerVars, pubVars
<1>5. CASE UNCHANGED vars
  BY <1>1, <1>5 DEF vars, dealerVars, pubVars
<1> QED BY <1>2, <1>3, <1>4, <1>5 DEF Next
-----------------------------------------------------------------------------
(* The counters                                                            *)

LEMMA OneMoreFrame ==
  ASSUME NEW f \in [Channels -> Nat], NEW c \in Channels, IsFiniteSet(FramesUpTo(f)),
         NEW g, g = [f EXCEPT ![c] = f[c] + 1]
  PROVE  /\ IsFiniteSet(FramesUpTo(g))
         /\ Cardinality(FramesUpTo(g)) = Cardinality(FramesUpTo(f)) + 1
         /\ Cardinality(FramesUpTo(f)) \in Nat
<1> DEFINE e == <<c, f[c] + 1>>
<1>1. /\ f[c] \in Nat /\ f[c] + 1 \in Nat /\ 1 .. g[c] = (1 .. f[c]) \union {f[c] + 1}
      /\ f[c] + 1 \notin 1 .. f[c] /\ \A d \in Channels \ {c} : g[d] = f[d]
  OBVIOUS
<1>2. \A p : p \in FramesUpTo(g) <=> p \in FramesUpTo(f) \union {e}
  <2>1. \A h, p : p \in FramesUpTo(h) <=> \E d \in Channels : p \in {d} \X (1 .. h[d])
    BY Zenon DEF FramesUpTo
  <2>2. ASSUME NEW p, NEW d \in Channels, p \in {d} \X (1 .. g[d])
        PROVE  p \in FramesUpTo(f) \union {e}
    <3>1. CASE d = c
      <4>1. p \in {d} \X (1 .. f[d]) \/ p = e
        BY <1>1, <2>2, <3>1
      <4> QED BY <2>1, <4>1
    <3>2. CASE d # c
      <4>1. p \in {d} \X (1 .. f[d])
        BY <1>1, <2>2, <3>2
      <4> QED BY <2>1, <4>1
    <3> QED BY <3>1, <3>2
  <2>3. ASSUME NEW p, NEW d \in Channels, p \in {d} \X (1 .. f[d])
        PROVE  p \in FramesUpTo(g)
    <3>1. p \in {d} \X (1 .. g[d])
      BY <1>1, <2>3
    <3> QED BY <2>1, <3>1
  <2>4. e \in FramesUpTo(g)
    <3>1. e \in {c} \X (1 .. g[c])
      BY <1>1
    <3> QED BY <2>1, <3>1
  <2> QED BY <2>1, <2>2, <2>3, <2>4
<1>3. e \notin FramesUpTo(f)
  BY <1>1 DEF FramesUpTo
<1>4. FramesUpTo(g) = FramesUpTo(f) \union {e}
  BY <1>2
<1> HIDE DEF e
<1>5. /\ IsFiniteSet(FramesUpTo(f) \union {e})
      /\ Cardinality(FramesUpTo(f) \union {e}) = Cardinality(FramesUpTo(f)) + 1
  BY <1>3, FS_AddElement
<1>6. Cardinality(FramesUpTo(f)) \in Nat
  BY FS_CardinalityType
<1> QED BY <1>4, <1>5, <1>6

LEMMA KeptType ==
  ASSUME PubInv
  PROVE  Kept \in [Channels -> Nat] /\ \A c \in Channels : Kept[c] = Len(taken[c]) + Len(queue[c])
BY DEF Kept, PubInv, TypeOK

LEMMA EnqueueCountInv ==
  ASSUME PubInv, CountInv, NEW c \in Channels, DealerEnqueue(c)
  PROVE  CountInv'
<1>1. /\ received \in [Channels -> Nat] /\ received' = [received EXCEPT ![c] = received[c] + 1]
      /\ totals' = totals /\ taken' = taken /\ dealer = "idle"
      /\ totals.pushed \in Nat /\ totals.dropped \in Nat
  BY DEF DealerEnqueue, PubInv, TypeOK, pubVars
<1>2. /\ IsFiniteSet(FramesUpTo(received')) /\ Cardinality(FramesUpTo(received)) \in Nat
      /\ Cardinality(FramesUpTo(received')) = Cardinality(FramesUpTo(received)) + 1
  BY <1>1, OneMoreFrame DEF CountInv
<1>3. /\ Cardinality(FramesUpTo(Kept)) \in Nat
      /\ Cardinality(FramesUpTo(Kept)) = totals.pushed
      /\ Cardinality(FramesUpTo(received)) = totals.pushed + totals.dropped
  BY <1>1, FS_CardinalityType DEF CountInv, CountersBalance
<1>4. CASE UNCHANGED queue /\ dealer' = "count_dropped"
  <2>1. Kept' = Kept
    BY <1>1, <1>4 DEF Kept
  <2> QED BY <1>1, <1>2, <1>3, <1>4, <2>1 DEF CountInv, CountersBalance, FramesUpTo
<1>5. CASE queue' = [queue EXCEPT ![c] = Append(queue[c], received[c] + 1)] /\ dealer' = "count_pushed"
  <2>1. queue \in [Channels -> Seq(Nat)] /\ taken \in [Channels -> Seq(Nat)] /\ received[c] + 1 \in Nat
    BY DEF PubInv, TypeOK
  <2>2. Len(queue'[c]) = Len(queue[c]) + 1 /\ \A d \in Channels \ {c} : queue'[d] = queue[d]
    BY <1>5, <2>1
  <2>3. Kept' = [Kept EXCEPT ![c] = Kept[c] + 1]
    <3>1. Kept[c] = Len(taken[c]) + Len(queue[c]) /\ Len(queue[c]) \in Nat /\ Len(taken[c]) \in Nat
      BY <2>1, KeptType
    <3>2. Len(taken'[c]) + Len(queue'[c]) = Kept[c] + 1
      <4>1. \A k, m, n \in Nat : k = m + n => m + (n + 1) = k + 1
        OBVIOUS
      <4>2. Kept[c] \in Nat
        BY KeptType
      <4>3. Len(taken'[c]) = Len(taken[c]) /\ Len(queue'[c]) = Len(queue[c]) + 1
        BY <1>1, <2>2
      <4>4. Len(taken[c]) + (Len(queue[c]) + 1) = Kept[c] + 1
        BY <3>1, <4>1, <4>2
      <4> QED BY <4>3, <4>4
    <3>3. \A d \in Channels \ {c} : Len(taken'[d]) + Len(queue'[d]) = Kept[d]
      BY <1>1, <2>2, KeptType
    <3>4. Kept' = [d \in Channels |-> Len(taken'[d]) + Len(queue'[d])]
      BY DEF Kept
    <3>5. Kept \in [Channels -> Nat]
      BY KeptType
    <3> QED BY <3>2, <3>3, <3>4, <3>5
  <2>4. IsFiniteSet(FramesUpTo(Kept)') /\ Cardinality(FramesUpTo(Kept)') = Cardinality(FramesUpTo(Kept)) + 1
    <3>1. FramesUpTo(Kept)' = FramesUpTo(Kept')
      BY DEF FramesUpTo
    <3> QED BY <2>3, <3>1, KeptType, OneMoreFrame DEF CountInv
  <2>5. FramesUpTo(received)' = FramesUpTo(received')
    BY DEF FramesUpTo
  <2> HIDE DEF FramesUpTo
  <2> QED BY <1>1, <1>2, <1>3, <1>5, <2>4, <2>5 DEF CountInv, CountersBalance
<1> QED BY <1>4, <1>5 DEF DealerEnqueue, Enqueue

LEMMA PopCountInv ==
  ASSUME PubInv, CountInv, PubPop
  PROVE  CountInv'
<1>1. /\ Current \in Channels /\ queue \in [Channels -> Seq(Nat)] /\ taken \in [Channels -> Seq(Nat)]
      /\ queue[Current] # <<>> /\ UNCHANGED <<received, totals, dealer>>
  BY ChannelsAt DEF PubPop, PubInv, TypeOK, Current, dealerVars
<1>2. Len(taken'[Current]) + Len(queue'[Current]) = Len(taken[Current]) + Len(queue[Current])
  <2>1. /\ queue'[Current] = Tail(queue[Current])
        /\ taken'[Current] = Append(taken[Current], Head(queue[Current]))
    BY <1>1 DEF PubPop
  <2>2. queue[Current] \in Seq(Nat) /\ taken[Current] \in Seq(Nat)
    BY <1>1
  <2>3. \A s, t \in Seq(Nat) : s # <<>> => Len(Append(t, Head(s))) + Len(Tail(s)) = Len(t) + Len(s)
    OBVIOUS
  <2> QED BY <1>1, <2>1, <2>2, <2>3, Zenon
<1>3. \A c \in Channels : Len(taken'[c]) + Len(queue'[c]) = Len(taken[c]) + Len(queue[c])
  <2>1. \A c \in Channels \ {Current} : taken'[c] = taken[c] /\ queue'[c] = queue[c]
    BY <1>1 DEF PubPop
  <2> QED BY <1>2, <2>1, Zenon
<1>4. Kept' = Kept
  BY <1>3 DEF Kept
<1> QED BY <1>1, <1>4 DEF CountInv, CountersBalance, FramesUpTo

LEMMA NextCountInv == PubInv /\ CountInv /\ [Next]_vars => CountInv'
<1> SUFFICES ASSUME PubInv, CountInv, [Next]_vars PROVE CountInv'
  OBVIOUS
<1>1. ASSUME UNCHANGED <<queue, taken, received>>
      PROVE  FramesUpTo(Kept)' = FramesUpTo(Kept) /\ FramesUpTo(received)' = FramesUpTo(received)
  BY <1>1 DEF FramesUpTo, Kept
<1>2. ASSUME UNCHANGED <<queue, taken, received, totals>>,
             dealer' = dealer \/ (dealer = "notify" /\ dealer' = "idle")
      PROVE  CountInv'
  BY <1>1, <1>2 DEF CountInv, CountersBalance
<1>3. CASE Dealer
  <2>1. CASE \E c \in Channels : DealerEnqueue(c)
    BY <2>1, EnqueueCountInv
  <2>2. CASE DealerCount
    <3>1. /\ UNCHANGED <<queue, taken, received>> /\ dealer' = "notify"
          /\ \/ dealer = "count_pushed" /\ totals' = [totals EXCEPT !.pushed = totals.pushed + 1]
             \/ dealer = "count_dropped" /\ totals' = [totals EXCEPT !.dropped = totals.dropped + 1]
      BY <2>2 DEF DealerCount, pubVars
    <3>2. totals.pushed \in Nat /\ totals.dropped \in Nat /\ totals \in [pushed : Nat, dropped : Nat]
      BY DEF PubInv, TypeOK
    <3>3. /\ dealer = "count_pushed" => totals'.pushed = totals.pushed + 1 /\ totals'.dropped = totals.dropped
          /\ dealer = "count_dropped" => totals'.pushed = totals.pushed /\ totals'.dropped = totals.dropped + 1
      BY <3>1, <3>2
    <3>4. Cardinality(FramesUpTo(Kept)) \in Nat /\ Cardinality(FramesUpTo(received)) \in Nat
      BY FS_CardinalityType DEF CountInv
    <3> QED BY <1>1, <3>1, <3>2, <3>3, <3>4 DEF CountInv, CountersBalance
  <2>3. CASE DealerNotify
    BY <1>2, <2>3 DEF DealerNotify, pubVars
  <2> QED BY <1>3, <2>1, <2>2, <2>3 DEF Dealer
<1>4. CASE PubLoop
  <2>1. CASE PubPop
    BY <2>1, PopCountInv
  <2>2. CASE ~PubPop
    BY <1>2, <1>4, <2>2 DEF PubLoop, PubLoopHead, PubTest, PubBlock, PubTimeout, PubWoken, PubGoto,
       PubLock, PubNextQueue, PubSendHeader, PubSendPayload, PubFeed, dealerVars, pubVars
  <2> QED BY <2>1, <2>2
<1>5. CASE Startup \/ PublishShutdown \/ Stop
  BY <1>2, <1>5 DEF Startup, StartPublisher, SetCallback, PublishShutdown, Stop, StopClearRunning,
     StopNotify, StopJoinAndClose, dealerVars, pubVars
<1>6. CASE UNCHANGED vars
  BY <1>2, <1>6 DEF vars, dealerVars, pubVars
<1> QED BY <1>3, <1>4, <1>5, <1>6 DEF Next
-----------------------------------------------------------------------------
(* The parts on the sockets                                                *)

LEMMA QuietWireInv ==
  ASSUME PubInv, WireInv, UNCHANGED wire,
         pub \notin {"payload", "header"}, pub' # "payload",
         pub' = "header" => Current' \in sockets',
         main \in {"stop", "notify", "join", "stopped"} => main' \in {"stop", "notify", "join", "stopped"}
  PROVE  WireInv'
<1>1. HeaderOpen' /\ NoticesBetween'
  BY DEF WireInv, HeaderOpen, NoticesBetween
<1>2. NoticeAfterServe' /\ SocketOpenWhileSending'
  BY DEF WireInv, NoticeAfterServe, SocketOpenWhileSending
<1> QED BY <1>1, <1>2 DEF WireInv

\* The dealer and main, when they send nothing.
LEMMA OthersWireInv ==
  ASSUME PubInv, WireInv, UNCHANGED <<wire, sockets, at>>,
         pub' = pub \/ (pub = "blocked" /\ pub' = "test"),
         main \in {"stop", "notify", "join", "stopped"} => main' \in {"stop", "notify", "join", "stopped"}
  PROVE  WireInv'
BY DEF WireInv, HeaderOpen, NoticesBetween, NoticeAfterServe, SocketOpenWhileSending, Current

\* What a new last part leaves as it was.
LEMMA AppendedPart ==
  ASSUME PubInv, NEW c \in Channels, NEW part \in Parts,
         wire' = [wire EXCEPT ![c] = Append(@, part)]
  PROVE  /\ \A d \in Channels \ {c} : wire'[d] = wire[d]
         /\ DOMAIN wire[c] = 1..Len(wire[c]) /\ Len(wire[c]) \in Nat
         /\ DOMAIN wire'[c] = 1..(Len(wire[c]) + 1) /\ Len(wire'[c]) = Len(wire[c]) + 1
         /\ \A i \in 1..Len(wire[c]) : wire'[c][i] = wire[c][i]
         /\ wire'[c][Len(wire[c]) + 1] = part
<1>1. wire[c] \in Seq(Parts) /\ wire'[c] = Append(wire[c], part)
      /\ \A d \in Channels \ {c} : wire'[d] = wire[d]
  BY DEF PubInv, TypeOK
<1> QED BY <1>1

LEMMA SendWireInv ==
  ASSUME PubInv, WireInv, PubSendHeader \/ PubSendPayload
  PROVE  WireInv'
<1> DEFINE part == IF pub = "header" THEN Header(InHand) ELSE Payload(InHand)
<1>1. /\ Current \in Channels /\ part \in Parts /\ part # Notice /\ part.part # "notice"
      /\ wire' = [wire EXCEPT ![Current] = Append(@, part)]
      /\ UNCHANGED <<at, sockets, main>> /\ Current' = Current
      /\ pub \in {"header", "payload"} /\ Current \in sockets
  BY InHandIsNat DEF PubSendHeader, PubSendPayload, Send, Header, Payload, Notice, mainVars, Current,
     WireInv, SocketOpenWhileSending
<1>2. /\ pub = "header" => pub' = "payload" /\ part.part = "header"
      /\ pub = "payload" => pub' = "feed" /\ part.part = "payload"
  BY <1>1 DEF PubSendHeader, PubSendPayload, Header, Payload
<1> HIDE DEF part
<1>3. /\ \A d \in Channels \ {Current} : wire'[d] = wire[d]
      /\ DOMAIN wire[Current] = 1..Len(wire[Current]) /\ Len(wire[Current]) \in Nat
      /\ DOMAIN wire'[Current] = 1..(Len(wire[Current]) + 1) /\ Len(wire'[Current]) = Len(wire[Current]) + 1
      /\ \A i \in 1..Len(wire[Current]) : wire'[Current][i] = wire[Current][i]
      /\ wire'[Current][Len(wire[Current]) + 1] = part
  BY <1>1, AppendedPart
<1>4. HeaderOpen'
  <2> SUFFICES ASSUME NEW c \in Channels, wire'[c] # <<>>, wire'[c][Len(wire'[c])].part = "header"
               PROVE  pub' = "payload" /\ Current' = c
    BY DEF HeaderOpen
  <2>1. CASE c = Current
    BY <1>1, <1>2, <1>3, <2>1
  <2>2. CASE c # Current
    BY <1>1, <1>3, <2>2 DEF WireInv, HeaderOpen
  <2> QED BY <2>1, <2>2
<1>5. NoticeAfterServe'
  <2> SUFFICES ASSUME NEW c \in Channels, NEW i \in DOMAIN wire'[c], wire'[c][i].part = "notice"
               PROVE  main \in {"stop", "notify", "join", "stopped"}
    BY <1>1 DEF NoticeAfterServe
  <2>1. i \in DOMAIN wire[c] /\ wire'[c][i] = wire[c][i]
    BY <1>1, <1>3
  <2> QED BY <2>1 DEF WireInv, NoticeAfterServe
<1>6. NoticesBetween'
  <2> SUFFICES ASSUME NEW c \in Channels, NEW i \in DOMAIN wire'[c], wire'[c][i] = Notice, i # 1
               PROVE  wire'[c][i - 1].part = "payload"
    BY DEF NoticesBetween
  <2>1. i \in DOMAIN wire[c] /\ wire'[c][i] = wire[c][i]
    BY <1>1, <1>3
  <2>2. wire[c][i - 1].part = "payload"
    BY <2>1 DEF WireInv, NoticesBetween
  <2>3. i - 1 \in DOMAIN wire[c]
    BY <2>1 DEF PubInv, TypeOK
  <2>4. wire'[c][i - 1] = wire[c][i - 1]
    BY <1>1, <1>3, <2>3
  <2> QED BY <2>2, <2>4
<1>7. SocketOpenWhileSending'
  BY <1>1, <1>2 DEF SocketOpenWhileSending
<1> QED BY <1>4, <1>5, <1>6, <1>7 DEF WireInv

LEMMA ShutdownWireInv ==
  ASSUME PubInv, WireInv, PublishShutdown
  PROVE  WireInv'
<1>1. /\ main = "serve" /\ main' = "stop" /\ pub \notin Draining
      /\ pub' = pub /\ sockets' = sockets /\ at' = at
  BY DEF PublishShutdown
<1>2. \A c \in Channels : wire'[c] = wire[c] \/ wire'[c] = Append(wire[c], Notice)
  BY DEF PublishShutdown, Notices
<1>3. \A c \in Channels : \A i \in DOMAIN wire[c] : wire[c][i].part # "notice" /\ wire[c][i] # Notice
  BY <1>1 DEF WireInv, NoticeAfterServe, Notice
<1>4. \A c \in Channels : wire[c] # <<>> => wire[c][Len(wire[c])].part = "payload"
  <2> SUFFICES ASSUME NEW c \in Channels, wire[c] # <<>>
               PROVE  wire[c][Len(wire[c])].part = "payload"
    OBVIOUS
  <2>1. wire[c] \in Seq(Parts) /\ Len(wire[c]) \in DOMAIN wire[c]
    BY DEF PubInv, TypeOK
  <2>2. wire[c][Len(wire[c])] \in Parts
    BY <2>1
  <2>3. wire[c][Len(wire[c])].part # "header"
    BY <1>1 DEF WireInv, HeaderOpen, Draining
  <2> QED BY <1>3, <2>1, <2>2, <2>3 DEF Parts
<1>5. ASSUME NEW c \in Channels
      PROVE  /\ wire'[c] # <<>> => wire'[c][Len(wire'[c])].part # "header"
             /\ \A i \in DOMAIN wire'[c] :
                  wire'[c][i] = Notice => i = 1 \/ wire'[c][i - 1].part = "payload"
  <2>1. CASE wire'[c] = wire[c]
    BY <1>3, <1>4, <2>1
  <2>2. CASE wire'[c] = Append(wire[c], Notice)
    <3>1. /\ wire[c] \in Seq(Parts) /\ Len(wire[c]) \in Nat /\ DOMAIN wire[c] = 1..Len(wire[c])
          /\ DOMAIN wire'[c] = 1..(Len(wire[c]) + 1) /\ Len(wire'[c]) = Len(wire[c]) + 1
          /\ \A i \in 1..Len(wire[c]) : wire'[c][i] = wire[c][i]
          /\ wire'[c][Len(wire[c]) + 1] = Notice
      BY <2>2 DEF PubInv, TypeOK
    <3>2. wire'[c][Len(wire'[c])].part # "header"
      BY <3>1 DEF Notice
    <3>3. ASSUME NEW i \in DOMAIN wire'[c], wire'[c][i] = Notice, i # 1
          PROVE  wire'[c][i - 1].part = "payload"
      <4>1. i = Len(wire[c]) + 1
        BY <1>3, <3>1, <3>3
      <4>2. wire[c] # <<>> /\ Len(wire[c]) \in 1..Len(wire[c]) /\ i - 1 = Len(wire[c])
        BY <3>1, <3>3, <4>1
      <4> QED BY <1>4, <3>1, <4>2
    <3> QED BY <3>2, <3>3
  <2> QED BY <1>2, <2>1, <2>2
<1>6. HeaderOpen' /\ NoticesBetween'
  BY <1>5 DEF HeaderOpen, NoticesBetween
<1>7. NoticeAfterServe' /\ SocketOpenWhileSending'
  BY <1>1 DEF NoticeAfterServe, SocketOpenWhileSending, Draining
<1> QED BY <1>6, <1>7 DEF WireInv

LEMMA NextWireInv == PubInv /\ WireInv /\ [Next]_vars => WireInv'
<1> SUFFICES ASSUME PubInv, WireInv, [Next]_vars PROVE WireInv'
  OBVIOUS
<1>1. CASE Dealer
  BY <1>1, OthersWireInv DEF Dealer, DealerEnqueue, DealerCount, DealerNotify, NotifyPub, mainVars, pubVars
<1>2. CASE PubLoop
  <2>1. CASE PubSendHeader \/ PubSendPayload
    BY <2>1, SendWireInv
  <2>2. CASE PubPop
    <3>1. pub' = "header" => Current' \in sockets'
      BY <2>2 DEF PubPop, AfterPop, Current, mainVars
    <3>2. /\ UNCHANGED <<wire, main>> /\ pub = "drain" /\ pub' \in {"header", "feed"}
      BY <2>2 DEF PubPop, AfterPop, mainVars
    <3> QED BY <3>1, <3>2, QuietWireInv
  <2>3. CASE PubLoopHead \/ PubTest \/ PubBlock \/ PubTimeout \/ PubWoken
    <3>1. /\ UNCHANGED <<wire, main>> /\ pub \notin {"payload", "header"} /\ pub' \notin {"payload", "header"}
      BY <2>3 DEF PubLoopHead, PubTest, PubBlock, PubTimeout, PubWoken, PubGoto, mainVars, pubVars
    <3> QED BY <3>1, QuietWireInv
  <2>4. CASE PubLock \/ PubNextQueue \/ PubFeed
    <3>1. /\ UNCHANGED <<wire, main>> /\ pub \notin {"payload", "header"} /\ pub' \notin {"payload", "header"}
      BY <2>4 DEF PubLock, PubNextQueue, PubFeed, mainVars
    <3> QED BY <3>1, QuietWireInv
  <2> QED BY <1>2, <2>1, <2>2, <2>3, <2>4 DEF PubLoop
<1>3. CASE StartPublisher
  <2>1. /\ UNCHANGED wire /\ pub = "none" /\ pub' = "loop" /\ main = "start"
    BY <1>3 DEF StartPublisher, PubInv, PubStarted, pubVars
  <2> QED BY <2>1, QuietWireInv
<1>4. CASE SetCallback \/ StopClearRunning \/ StopNotify
  BY <1>4, OthersWireInv DEF SetCallback, StopClearRunning, StopNotify, NotifyPub, pubVars
<1>5. CASE PublishShutdown
  BY <1>5, ShutdownWireInv
<1>6. CASE StopJoinAndClose
  <2>1. /\ UNCHANGED wire /\ pub = "exited" /\ pub' = "exited" /\ main' = "stopped"
    BY <1>6 DEF StopJoinAndClose, pubVars
  <2> QED BY <2>1, QuietWireInv
<1>7. CASE UNCHANGED vars
  BY <1>7, OthersWireInv DEF vars, mainVars, pubVars
<1> QED BY <1>1, <1>2, <1>3, <1>4, <1>5, <1>6, <1>7 DEF Next, Startup, Stop
-----------------------------------------------------------------------------
(* Whole messages                                                          *)

LEMMA CarriedFinite ==
  ASSUME NEW w \in Seq(Parts), NEW i \in 0 .. Len(w)
  PROVE  /\ IsFiniteSet(Carried(w, i)) /\ Cardinality(Carried(w, i)) \in Nat
         /\ Cardinality(Carried(w, i)) <= Cardinality(Carried(w, Len(w)))
<1>1. Len(w) \in Nat /\ 0 \in Int /\ Len(w) \in Int /\ 1 \in Int
  OBVIOUS
<1>2. IsFiniteSet(1 .. Len(w))
  BY <1>1, FS_Interval
<1>3. Carried(w, Len(w)) \in SUBSET (1 .. Len(w)) /\ Carried(w, i) \in SUBSET Carried(w, Len(w))
  BY <1>1 DEF Carried
<1>4. IsFiniteSet(Carried(w, Len(w)))
  BY <1>2, <1>3, FS_Subset
<1>5. IsFiniteSet(Carried(w, i)) /\ Cardinality(Carried(w, i)) <= Cardinality(Carried(w, Len(w)))
  BY <1>3, <1>4, FS_Subset
<1> QED BY <1>5, FS_CardinalityType

\* A part of the socket is at its place in the order of the parts.
LEMMA CarriedRank ==
  ASSUME NEW w \in Seq(Parts), NEW i \in Carried(w, Len(w))
  PROVE  Cardinality(Carried(w, i)) \in 1 .. Cardinality(Carried(w, Len(w)))
<1>1. i \in 0 .. Len(w) /\ Len(w) \in 0 .. Len(w) /\ i \in Carried(w, i)
  BY DEF Carried
<1>2. Carried(w, i) # {}
  BY <1>1
<1>3. Cardinality(Carried(w, i)) # 0
  BY <1>1, <1>2, CarriedFinite, FS_EmptySet
<1> QED BY <1>1, <1>3, CarriedFinite

LEMMA CarriedAppend ==
  ASSUME NEW w \in Seq(Parts), NEW p \in Parts
  PROVE  \E v \in Seq(Parts) :
           /\ v = Append(w, p) /\ Len(v) = Len(w) + 1 /\ v[Len(v)] = p
           /\ \A i \in 1 .. Len(w) : v[i] = w[i] /\ Carried(v, i) = Carried(w, i)
           /\ p # Notice => /\ Carried(v, Len(v)) = Carried(w, Len(w)) \union {Len(v)}
                            /\ Cardinality(Carried(v, Len(v))) = Cardinality(Carried(w, Len(w))) + 1
           /\ p = Notice => Carried(v, Len(v)) = Carried(w, Len(w))
<1> PICK v : v = Append(w, p)
  OBVIOUS
<1>1. /\ v \in Seq(Parts) /\ Len(v) = Len(w) + 1 /\ v[Len(v)] = p /\ Len(w) \in Nat
      /\ \A i \in 1 .. Len(w) : v[i] = w[i]
  OBVIOUS
<1>2. \A i \in 1 .. Len(w) : Carried(v, i) = Carried(w, i)
  BY <1>1 DEF Carried
<1>3. p = Notice => Carried(v, Len(v)) = Carried(w, Len(w))
  BY <1>1 DEF Carried
<1>4. p # Notice => Carried(v, Len(v)) = Carried(w, Len(w)) \union {Len(v)}
  BY <1>1 DEF Carried
<1>5. Len(v) \notin Carried(w, Len(w)) /\ Len(w) \in 0 .. Len(w)
  BY <1>1 DEF Carried
<1>6. Cardinality(Carried(w, Len(w)) \union {Len(v)}) = Cardinality(Carried(w, Len(w))) + 1
  BY <1>5, CarriedFinite, FS_AddElement
<1> QED BY <1>1, <1>2, <1>3, <1>4, <1>6

LEMMA CarriesNothing == Carries(<<>>, <<>>, 0)
<1>1. Len(<<>>) = 0 /\ Carried(<<>>, 0) = {}
  BY DEF Carried
<1> QED BY <1>1, FS_EmptySet DEF Carries

\* A frame taken has both its parts due.
LEMMA CarriesPop ==
  ASSUME NEW w \in Seq(Parts), NEW ns \in Seq(Nat), NEW n \in Nat, Carries(w, ns, 0)
  PROVE  Carries(w, Append(ns, n), 2)
<1> DEFINE ms == Append(ns, n)  all == Carried(w, Len(w))
<1>1. Len(ms) = Len(ns) + 1 /\ Len(ns) \in Nat /\ \A i \in 1 .. Len(ns) : ms[i] = ns[i]
  OBVIOUS
<1>2. Cardinality(all) \in Nat /\ Cardinality(all) + 0 = 2 * Len(ns)
  <2>1. Len(w) \in 0 .. Len(w)
    OBVIOUS
  <2> QED BY <2>1, CarriedFinite DEF Carries
<1> HIDE DEF ms
<1>3. ASSUME NEW k \in 1 .. Cardinality(all)
      PROVE  MessagePart(ms, k) = MessagePart(ns, k)
  <2>1. k % 2 = 1 => (k + 1) \div 2 \in 1 .. Len(ns)
    BY <1>1, <1>2
  <2>2. k % 2 # 1 => k \div 2 \in 1 .. Len(ns)
    BY <1>1, <1>2
  <2> QED BY <1>1, <2>1, <2>2 DEF MessagePart
<1>4. \A i \in all : w[i] = MessagePart(ms, Cardinality(Carried(w, i)))
  BY <1>3, CarriedRank DEF Carries
<1>5. Cardinality(all) + 2 = 2 * Len(ms)
  BY <1>1, <1>2
<1>6. Carries(w, ms, 2)
  BY <1>4, <1>5 DEF Carries
<1> QED BY <1>6 DEF ms

\* The next part that is due is sent.
LEMMA CarriesSend ==
  ASSUME NEW w \in Seq(Parts), NEW ns \in Seq(Nat), ns # <<>>, NEW due \in {1, 2},
         Carries(w, ns, due), NEW p \in Parts,
         p = IF due = 2 THEN Header(Last(ns)) ELSE Payload(Last(ns))
  PROVE  Carries(Append(w, p), ns, due - 1)
<1> DEFINE k == Cardinality(Carried(w, Len(w)))
<1>1. p # Notice /\ Last(ns) = ns[Len(ns)] /\ Len(ns) \in Nat /\ Len(w) \in Nat
  BY DEF Notice, Header, Payload, Last
<1>2. PICK v \in Seq(Parts) :
        /\ v = Append(w, p) /\ Len(v) = Len(w) + 1 /\ v[Len(v)] = p
        /\ \A i \in 1 .. Len(w) : v[i] = w[i] /\ Carried(v, i) = Carried(w, i)
        /\ p # Notice => /\ Carried(v, Len(v)) = Carried(w, Len(w)) \union {Len(v)}
                         /\ Cardinality(Carried(v, Len(v))) = k + 1
        /\ p = Notice => Carried(v, Len(v)) = Carried(w, Len(w))
  BY CarriedAppend, Zenon
<1>3. k \in Nat /\ k + due = 2 * Len(ns)
  BY <1>1, CarriedFinite DEF Carries
<1>4. p = MessagePart(ns, k + 1)
  <2>1. CASE due = 2
    <3> HIDE DEF k
    <3>1. (k + 1) % 2 = 1 /\ (k + 1 + 1) \div 2 = Len(ns)
      <4>1. \A m, l \in Nat : m + 2 = 2 * l => (m + 1) % 2 = 1 /\ (m + 1 + 1) \div 2 = l
        OBVIOUS
      <4> QED BY <1>1, <1>3, <2>1, <4>1
    <3> QED BY <1>1, <2>1, <3>1 DEF MessagePart
  <2>2. CASE due = 1
    <3> HIDE DEF k
    <3>1. (k + 1) % 2 # 1 /\ (k + 1) \div 2 = Len(ns)
      BY <1>1, <1>3, <2>2
    <3> QED BY <1>1, <2>2, <3>1 DEF MessagePart
  <2> QED BY <2>1, <2>2
<1>5. ASSUME NEW i \in Carried(v, Len(v))
      PROVE  v[i] = MessagePart(ns, Cardinality(Carried(v, i)))
  <2>1. CASE i = Len(v)
    <3>1. v[i] = p /\ Cardinality(Carried(v, i)) = k + 1
      BY <1>1, <1>2, <2>1
    <3> QED BY <1>4, <3>1, Zenon
  <2>2. CASE i # Len(v)
    <3>1. i \in Carried(w, Len(w)) /\ i \in 1 .. Len(w)
      BY <1>2, <1>5, <2>2 DEF Carried
    <3> QED BY <1>2, <3>1 DEF Carries
  <2> QED BY <2>1, <2>2
<1>6. Cardinality(Carried(v, Len(v))) + (due - 1) = 2 * Len(ns)
  BY <1>1, <1>2, <1>3
<1>7. Carries(v, ns, due - 1)
  BY <1>5, <1>6 DEF Carries
<1> QED BY <1>2, <1>7

LEMMA CarriesNotice ==
  ASSUME NEW w \in Seq(Parts), NEW ns \in Seq(Nat), NEW due \in {0, 1, 2}, Carries(w, ns, due)
  PROVE  Carries(Append(w, Notice), ns, due)
<1>1. Notice \in Parts /\ Len(w) \in Nat
  BY DEF Notice, Parts
<1>2. PICK v \in Seq(Parts) :
        /\ v = Append(w, Notice) /\ Len(v) = Len(w) + 1
        /\ \A i \in 1 .. Len(w) : v[i] = w[i] /\ Carried(v, i) = Carried(w, i)
        /\ Notice = Notice => Carried(v, Len(v)) = Carried(w, Len(w))
  BY <1>1, CarriedAppend
<1>3. \A i \in Carried(v, Len(v)) : i \in 1 .. Len(w)
  BY <1>1, <1>2 DEF Carried
<1>4. Carries(v, ns, due)
  BY <1>2, <1>3 DEF Carries
<1> QED BY <1>2, <1>4

LEMMA DueAtRest ==
  /\ \A c : Due(c) \in {0, 1, 2}
  /\ pub \notin {"header", "payload"} => \A c : Due(c) = 0
  /\ \A c : c # Current => Due(c) = 0
  /\ pub = "header" => Due(Current) = 2
  /\ pub = "payload" => Due(Current) = 1
BY DEF Due, Holding

LEMMA StartCarryInv ==
  ASSUME PubInv, CarryInv, StartPublisher
  PROVE  CarryInv'
<1>1. /\ main = "start" /\ main' # "start" /\ pub' = "loop" /\ UNCHANGED <<taken, wire>>
      /\ sockets' \subseteq Channels
  BY DEF StartPublisher, pubVars
<1>2. \A c \in sockets' : taken'[c] = <<>> /\ wire'[c] = <<>>
  BY <1>1 DEF CarryInv, NothingBeforeStart
<1>3. \A c : Due(c)' = 0
  BY <1>1 DEF Due
<1>4. SocketCarriesItsChannel'
  BY <1>2, <1>3, CarriesNothing DEF SocketCarriesItsChannel
<1> QED BY <1>1, <1>4 DEF CarryInv, NothingBeforeStart

LEMMA PopCarryInv ==
  ASSUME PubInv, CarryInv, PubPop
  PROVE  CarryInv'
<1>1. /\ Current \in Channels /\ queue[Current] \in Seq(Nat) /\ queue[Current] # <<>>
      /\ taken \in [Channels -> Seq(Nat)] /\ wire \in [Channels -> Seq(Parts)] /\ sockets \subseteq Channels
      /\ UNCHANGED <<wire, sockets, main, at>> /\ Current' = Current
      /\ pub = "drain" /\ pub' = IF Current \in sockets THEN "header" ELSE "feed"
      /\ taken' = [taken EXCEPT ![Current] = Append(taken[Current], Head(queue[Current]))]
  BY ChannelsAt DEF PubPop, PubInv, TypeOK, Current, AfterPop, mainVars
<1>2. main # "start"
  BY <1>1 DEF PubInv, PubStarted
<1>3. ASSUME NEW c \in sockets
      PROVE  Carries(wire[c], taken'[c], Due(c)')
  <2>1. Carries(wire[c], taken[c], 0)
    BY <1>1, DueAtRest DEF CarryInv, SocketCarriesItsChannel
  <2>2. CASE c = Current
    <3>1. Due(c)' = 2
      BY <1>1, <2>2 DEF Due, Holding
    <3>2. taken'[c] = Append(taken[c], Head(queue[c])) /\ Head(queue[c]) \in Nat
      BY <1>1, <2>2
    <3>3. wire[c] \in Seq(Parts) /\ taken[c] \in Seq(Nat)
      BY <1>1
    <3> QED BY <2>1, <3>1, <3>2, <3>3, CarriesPop
  <2>3. CASE c # Current
    <3>1. Due(c)' = 0
      BY <1>1, <2>3 DEF Due, Holding
    <3> QED BY <1>1, <2>1, <2>3, <3>1
  <2> QED BY <2>2, <2>3
<1>4. SocketCarriesItsChannel'
  <2>1. SocketCarriesItsChannel' <=> \A c \in sockets' : Carries(wire'[c], taken'[c], Due(c)')
    BY DEF SocketCarriesItsChannel, Carries, Carried, MessagePart, Header, Payload, Notice
  <2> QED BY <1>1, <1>3, <2>1
<1> QED BY <1>1, <1>2, <1>4 DEF CarryInv, NothingBeforeStart

LEMMA SendCarryInv ==
  ASSUME PubInv, CarryInv, PubSendHeader \/ PubSendPayload
  PROVE  CarryInv'
<1> DEFINE due  == IF pub = "header" THEN 2 ELSE 1
           part == IF due = 2 THEN Header(Last(taken[Current])) ELSE Payload(Last(taken[Current]))
<1>1. /\ Current \in Channels /\ part \in Parts /\ taken[Current] # <<>>
      /\ taken \in [Channels -> Seq(Nat)] /\ wire \in [Channels -> Seq(Parts)] /\ sockets \subseteq Channels
      /\ wire' = [wire EXCEPT ![Current] = Append(wire[Current], part)]
      /\ UNCHANGED <<taken, sockets, main, at>> /\ Current' = Current
      /\ pub \in {"header", "payload"} /\ pub' = IF pub = "header" THEN "payload" ELSE "feed"
  <2>1. /\ UNCHANGED <<taken, sockets, main, at>> /\ pub \in {"header", "payload"}
        /\ pub' = IF pub = "header" THEN "payload" ELSE "feed"
        /\ wire' = [wire EXCEPT ![Current] = Append(wire[Current], part)]
    BY DEF PubSendHeader, PubSendPayload, Send, InHand, mainVars
  <2>2. Current \in Channels /\ part \in Parts /\ taken[Current] # <<>>
    BY <2>1, InHandIsNat DEF InHand, PubInv, InHandTaken
  <2>3. taken \in [Channels -> Seq(Nat)] /\ wire \in [Channels -> Seq(Parts)] /\ sockets \subseteq Channels
    BY DEF PubInv, TypeOK
  <2>4. Current' = Current
    BY <2>1 DEF Current
  <2> QED BY <2>1, <2>2, <2>3, <2>4
<1>2. main # "start"
  BY <1>1 DEF PubInv, PubStarted
<1>3. due \in {1, 2} /\ \A c : c = Current => Due(c) = due /\ Due(c)' = due - 1
  BY <1>1 DEF Due, Holding
<1> HIDE DEF due
<1>4. ASSUME NEW c \in sockets
      PROVE  Carries(wire'[c], taken[c], Due(c)')
  <2>1. Carries(wire[c], taken[c], Due(c))
    BY DEF CarryInv, SocketCarriesItsChannel
  <2>2. wire[c] \in Seq(Parts) /\ taken[c] \in Seq(Nat)
    BY <1>1
  <2>3. CASE c = Current
    <3>1. wire'[c] = Append(wire[c], part)
      BY <1>1, <2>3
    <3>2. Carries(Append(wire[c], part), taken[c], due - 1)
      BY <1>1, <1>3, <2>1, <2>2, <2>3, CarriesSend
    <3>3. Due(c)' = due - 1
      BY <1>3, <2>3
    <3> QED BY <3>1, <3>2, <3>3
  <2>4. CASE c # Current
    <3>1. Due(c)' = 0 /\ Due(c) = 0 /\ wire'[c] = wire[c]
      BY <1>1, <2>4 DEF Due, Holding
    <3> QED BY <2>1, <3>1
  <2> QED BY <2>3, <2>4
<1>5. SocketCarriesItsChannel'
  <2>1. SocketCarriesItsChannel' <=> \A c \in sockets' : Carries(wire'[c], taken'[c], Due(c)')
    BY DEF SocketCarriesItsChannel, Carries, Carried, MessagePart, Header, Payload, Notice
  <2> QED BY <1>1, <1>4, <2>1
<1> QED BY <1>1, <1>2, <1>5 DEF CarryInv, NothingBeforeStart

LEMMA ShutdownCarryInv ==
  ASSUME PubInv, CarryInv, PublishShutdown
  PROVE  CarryInv'
<1>1. /\ UNCHANGED <<taken, sockets, pub, at>> /\ main' # "start" /\ Current' = Current
      /\ wire' = [c \in Channels |-> IF c \in sockets THEN Append(wire[c], Notice) ELSE wire[c]]
      /\ taken \in [Channels -> Seq(Nat)] /\ wire \in [Channels -> Seq(Parts)] /\ sockets \subseteq Channels
  BY DEF PublishShutdown, Notices, PubInv, TypeOK, Current
<1>2. \A c : Due(c)' = Due(c)
  BY <1>1 DEF Due, Holding
<1>3. ASSUME NEW c \in sockets
      PROVE  Carries(wire'[c], taken[c], Due(c))
  <2>1. /\ Carries(wire[c], taken[c], Due(c)) /\ Due(c) \in {0, 1, 2}
        /\ wire[c] \in Seq(Parts) /\ taken[c] \in Seq(Nat) /\ wire'[c] = Append(wire[c], Notice)
    BY <1>1, DueAtRest DEF CarryInv, SocketCarriesItsChannel
  <2> QED BY <2>1, CarriesNotice
<1>4. SocketCarriesItsChannel'
  <2>1. SocketCarriesItsChannel' <=> \A c \in sockets' : Carries(wire'[c], taken'[c], Due(c)')
    BY DEF SocketCarriesItsChannel, Carries, Carried, MessagePart, Header, Payload, Notice
  <2> QED BY <1>1, <1>2, <1>3, <2>1
<1> QED BY <1>1, <1>4 DEF CarryInv, NothingBeforeStart

LEMMA NextCarryInv == PubInv /\ CarryInv /\ [Next]_vars => CarryInv'
<1> SUFFICES ASSUME PubInv, CarryInv, [Next]_vars PROVE CarryInv'
  OBVIOUS
<1>1. ASSUME UNCHANGED <<taken, wire, sockets, main, at>>,
             pub' = pub \/ (pub \notin {"header", "payload"} /\ pub' \notin {"header", "payload"})
      PROVE  CarryInv'
  <2>1. \A c : Due(c)' = Due(c)
    BY <1>1 DEF Due, Holding, Current
  <2>2. SocketCarriesItsChannel'
    BY <1>1, <2>1 DEF CarryInv, SocketCarriesItsChannel
  <2> QED BY <1>1, <2>2 DEF CarryInv, NothingBeforeStart
<1>2. CASE Dealer
  BY <1>1, <1>2 DEF Dealer, DealerEnqueue, DealerCount, DealerNotify, NotifyPub, mainVars, pubVars
<1>3. CASE PubLoop
  <2>1. CASE PubPop
    BY <2>1, PopCarryInv
  <2>2. CASE PubSendHeader \/ PubSendPayload
    BY <2>2, SendCarryInv
  <2>3. CASE PubLoopHead \/ PubTest \/ PubBlock \/ PubTimeout \/ PubWoken
    BY <1>1, <2>3 DEF PubLoopHead, PubTest, PubBlock, PubTimeout, PubWoken, PubGoto, mainVars, pubVars
  <2>4. CASE PubLock \/ PubNextQueue
    <3>1. /\ UNCHANGED <<taken, wire, sockets, main>>
          /\ pub \notin {"header", "payload"} /\ pub' \notin {"header", "payload"}
      BY <2>4 DEF PubLock, PubNextQueue, mainVars
    <3>2. \A c : Due(c)' = Due(c)
      BY <3>1 DEF Due
    <3>3. SocketCarriesItsChannel'
      BY <3>1, <3>2 DEF CarryInv, SocketCarriesItsChannel
    <3> QED BY <3>1, <3>3 DEF CarryInv, NothingBeforeStart
  <2>5. CASE PubFeed
    BY <1>1, <2>5 DEF PubFeed, mainVars
  <2> QED BY <1>3, <2>1, <2>2, <2>3, <2>4, <2>5 DEF PubLoop
<1>4. CASE StartPublisher
  BY <1>4, StartCarryInv
<1>5. CASE PublishShutdown
  BY <1>5, ShutdownCarryInv
<1>6. CASE SetCallback \/ Stop
  <2>1. /\ UNCHANGED <<taken, wire, at>> /\ main' # "start" /\ (sockets' = sockets \/ sockets' = {})
        /\ pub' = pub \/ (pub = "blocked" /\ pub' = "test")
    BY <1>6 DEF SetCallback, Stop, StopClearRunning, StopNotify, NotifyPub, StopJoinAndClose, pubVars
  <2>2. \A c : Due(c)' = Due(c)
    BY <2>1 DEF Due, Holding, Current
  <2>3. SocketCarriesItsChannel'
    BY <2>1, <2>2 DEF CarryInv, SocketCarriesItsChannel
  <2> QED BY <2>1, <2>3 DEF CarryInv, NothingBeforeStart
<1>7. CASE UNCHANGED vars
  BY <1>1, <1>7 DEF vars, mainVars, pubVars
<1> QED BY <1>2, <1>3, <1>4, <1>5, <1>6, <1>7 DEF Next, Startup
-----------------------------------------------------------------------------
(* What the callback gets                                                  *)

LEMMA DoneIsSeq ==
  ASSUME PubInv, NEW c \in Channels
  PROVE  /\ Done(c) \in Seq(Nat) /\ fed[c] \in Seq(Nat) /\ taken[c] \in Seq(Nat) /\ before[c] \in Nat
         /\ Len(Done(c)) <= Len(taken[c])
         /\ Holding(c) => /\ taken[c] = Append(Done(c), InHand) /\ InHand \in Nat
<1>1. taken[c] \in Seq(Nat) /\ fed[c] \in Seq(Nat) /\ before[c] \in Nat
  BY DEF PubInv, TypeOK
<1>2. CASE ~Holding(c)
  BY <1>1, <1>2 DEF Done
<1>3. CASE Holding(c)
  <2>1. taken[c] # <<>> /\ InHand = Last(taken[c])
    BY <1>3 DEF PubInv, InHandTaken, Holding, InHand
  <2>2. PICK s \in Seq(Nat), e \in Nat : taken[c] = Append(s, e)
    BY <1>1, <2>1, SequenceEmptyOrAppend
  <2>3. Last(taken[c]) = e /\ Front(taken[c]) = s
    BY <2>2, LastOfAppend
  <2> QED BY <1>1, <1>3, <2>1, <2>2, <2>3 DEF Done
<1> QED BY <1>2, <1>3

\* Nothing is handed over: what has been taken and fed before stays so.
LEMMA KeepsFedInv ==
  ASSUME PubInv, FedInv, UNCHANGED <<fed, callback, before>>,
         \A c \in Channels : Done(c)' = Done(c)
            \/ (callback # "set" /\ Done(c)' \in Seq(Nat)),
         main' \in {"start", "set_callback", "assign"} => main \in {"start", "set_callback", "assign"}
  PROVE  FedInv'
<1>1. FedLater'
  BY DEF FedInv, FedLater
<1>2. ASSUME NEW c \in Channels
      PROVE  IsSuffix(fed[c], Done(c)') /\ (callback = "set" => Len(fed[c]) >= Len(Done(c)') - before[c])
  <2>1. CASE Done(c)' = Done(c)
    BY <2>1 DEF FedInv, FedFromThenOn
  <2>2. CASE callback # "set" /\ Done(c)' \in Seq(Nat)
    BY <2>2, EmptySuffix DEF FedInv, FedLater
  <2> QED BY <2>1, <2>2
<1>3. FedFromThenOn'
  BY <1>2 DEF FedFromThenOn
<1> QED BY <1>1, <1>3 DEF FedInv

LEMMA SetCallbackFedInv ==
  ASSUME PubInv, FedInv, SetCallback
  PROVE  FedInv'
<1>1. /\ UNCHANGED <<taken, fed, pub, at>> /\ callback # "set" /\ \A c \in Channels : fed[c] = <<>>
  BY DEF SetCallback, pubVars, FedInv, FedLater
<1>2. \A c \in Channels : Done(c)' = Done(c)
  BY <1>1 DEF Done, Holding, Current
<1>3. \A c \in Channels : callback' = "set" => before'[c] = Len(taken[c])
  BY DEF SetCallback
<1>4. \A c \in Channels : IsSuffix(fed'[c], Done(c)')
  BY <1>1, <1>2, DoneIsSeq, EmptySuffix
<1>5. \A c \in Channels : callback' = "set" => Len(fed'[c]) >= Len(Done(c)') - before'[c]
  <2> SUFFICES ASSUME NEW c \in Channels, callback' = "set"
               PROVE  Len(fed'[c]) >= Len(Done(c)') - before'[c]
    OBVIOUS
  <2>1. Len(Done(c)) \in Nat /\ Len(taken[c]) \in Nat /\ Len(Done(c)) <= Len(taken[c])
    BY DoneIsSeq
  <2>2. Len(fed'[c]) = 0
    BY <1>1
  <2> QED BY <1>2, <1>3, <2>1, <2>2
<1>6. FedLater'
  BY <1>1 DEF FedLater, SetCallback
<1> QED BY <1>4, <1>5, <1>6 DEF FedInv, FedFromThenOn

LEMMA FeedFedInv ==
  ASSUME PubInv, PubInv', FedInv, PubFeed
  PROVE  FedInv'
<1> DEFINE k == Current
<1>1. /\ k \in Channels /\ Holding(k) /\ UNCHANGED <<taken, callback, before, main>>
      /\ \A c \in Channels : Holding(c) <=> c = k
      /\ \A c \in Channels : Done(c)' = taken[c]
  BY InHandIsNat DEF PubFeed, Holding, Done, mainVars
<1>2. \A c \in Channels \ {k} : Done(c) = taken[c]
  BY <1>1 DEF Done
<1>3. /\ Done(k) \in Seq(Nat) /\ fed[k] \in Seq(Nat) /\ InHand \in Nat /\ before[k] \in Nat
      /\ taken[k] = Append(Done(k), InHand)
  BY <1>1, DoneIsSeq
<1> HIDE DEF k
<1>4. CASE callback = "set" /\ fed' = [fed EXCEPT ![k] = Append(@, InHand)]
  <2>1. fed'[k] = Append(fed[k], InHand) /\ \A c \in Channels \ {k} : fed'[c] = fed[c]
    BY <1>1, <1>4 DEF PubInv, TypeOK
  <2>2. IsSuffix(fed[k], Done(k)) /\ Len(fed[k]) >= Len(Done(k)) - before[k]
    BY <1>1, <1>4 DEF FedInv, FedFromThenOn
  <2>3. IsSuffix(fed'[k], taken[k])
    BY <1>3, <2>1, <2>2, SuffixAppend
  <2>4. Len(fed'[k]) >= Len(taken[k]) - before[k]
    BY <1>3, <2>1, <2>2
  <2>5. \A c \in Channels \ {k} : IsSuffix(fed'[c], taken[c]) /\ Len(fed'[c]) >= Len(taken[c]) - before[c]
    BY <1>2, <1>4, <2>1 DEF FedInv, FedFromThenOn
  <2>6. FedLater'
    BY <1>1, <1>4 DEF FedInv, FedLater
  <2> QED BY <1>1, <2>3, <2>4, <2>5, <2>6 DEF FedInv, FedFromThenOn
<1>5. CASE callback # "set" /\ fed' = fed
  <2>1. \A c \in Channels : Done(c)' \in Seq(Nat)
    BY <1>1, DoneIsSeq
  <2> QED BY <1>1, <1>5, <2>1, KeepsFedInv
<1>6. \/ callback = "set" /\ fed' = [fed EXCEPT ![k] = Append(@, InHand)]
      \/ callback # "set" /\ fed' = fed
  BY DEF PubFeed, k
<1> QED BY <1>4, <1>5, <1>6

LEMMA PopFedInv ==
  ASSUME PubInv, PubInv', FedInv, PubPop
  PROVE  FedInv'
<1>1. /\ Current \in Channels /\ taken[Current] \in Seq(Nat) /\ Head(queue[Current]) \in Nat
      /\ pub = "drain" /\ pub' \in {"header", "feed"} /\ Current' = Current
      /\ taken' = [taken EXCEPT ![Current] = Append(taken[Current], Head(queue[Current]))]
      /\ UNCHANGED <<fed, callback, before, main>>
  BY ChannelsAt DEF PubPop, AfterPop, PubInv, TypeOK, Current, mainVars
<1>2. \A c \in Channels : Done(c) = taken[c]
  BY <1>1 DEF Done, Holding
<1>3. ASSUME NEW c \in Channels, c # Current PROVE Done(c)' = Done(c)
  <2>1. taken'[c] = taken[c]
    BY <1>1, <1>3 DEF PubInv, TypeOK
  <2> QED BY <1>1, <1>2, <1>3, <2>1 DEF Done, Holding
<1>4. Done(Current)' = Done(Current)
  <2>1. taken'[Current] = Append(taken[Current], Head(queue[Current]))
    BY <1>1 DEF PubInv, TypeOK
  <2>2. Front(taken'[Current]) = taken[Current]
    BY <1>1, <2>1, LastOfAppend
  <2>3. Done(Current)' = Front(taken'[Current])
    BY <1>1 DEF Done, Holding
  <2> QED BY <1>1, <1>2, <2>2, <2>3
<1>5. \A c \in Channels : Done(c)' = Done(c)
  <2> SUFFICES ASSUME NEW c \in Channels PROVE Done(c)' = Done(c)
    OBVIOUS
  <2>1. CASE c # Current
    BY <1>3, <2>1
  <2>2. CASE c = Current
    BY <1>1, <1>4, <2>2
  <2> QED BY <2>1, <2>2
<1> QED BY <1>1, <1>5, KeepsFedInv

LEMMA NextFedInv == PubInv /\ PubInv' /\ FedInv /\ [Next]_vars => FedInv'
<1> SUFFICES ASSUME PubInv, PubInv', FedInv, [Next]_vars PROVE FedInv'
  OBVIOUS
<1> DEFINE AtStart(m) == m \in {"start", "set_callback", "assign"}
<1>1. ASSUME UNCHANGED <<taken, fed, callback, before, at>>, AtStart(main') => AtStart(main),
             pub' = pub \/ (pub \in {"header", "payload"} /\ pub' \in {"payload", "feed"})
              \/ (pub \notin {"header", "payload", "feed"} /\ pub' \notin {"header", "payload", "feed"})
      PROVE  FedInv'
  <2>1. \A c \in Channels : Done(c)' = Done(c)
    BY <1>1 DEF Done, Holding, Current
  <2> QED BY <1>1, <2>1, KeepsFedInv
<1>2. ASSUME UNCHANGED <<taken, fed, callback, before, main>>,
             pub \notin {"header", "payload", "feed"}, pub' \notin {"header", "payload", "feed"}
      PROVE  FedInv'
  <2>1. \A c \in Channels : Done(c)' = Done(c)
    BY <1>2 DEF Done, Holding
  <2> QED BY <1>2, <2>1, KeepsFedInv
<1>3. CASE Dealer
  BY <1>1, <1>3 DEF Dealer, DealerEnqueue, DealerCount, DealerNotify, NotifyPub, mainVars, pubVars
<1>4. CASE PubLoop
  <2>1. CASE PubFeed
    BY <2>1, FeedFedInv
  <2>2. CASE PubPop
    BY <2>2, PopFedInv
  <2>3. CASE PubSendHeader \/ PubSendPayload
    BY <1>1, <2>3 DEF PubSendHeader, PubSendPayload, mainVars
  <2>4. CASE PubLoopHead \/ PubTest \/ PubBlock \/ PubTimeout \/ PubWoken
    BY <1>1, <2>4 DEF PubLoopHead, PubTest, PubBlock, PubTimeout, PubWoken, PubGoto, mainVars, pubVars
  <2>5. CASE PubLock \/ PubNextQueue
    BY <1>2, <2>5 DEF PubLock, PubNextQueue, mainVars
  <2> QED BY <1>4, <2>1, <2>2, <2>3, <2>4, <2>5 DEF PubLoop
<1>5. CASE SetCallback
  BY <1>5, SetCallbackFedInv
<1>6. CASE StartPublisher
  <2>1. pub = "none" /\ pub' = "loop" /\ AtStart(main)
    BY <1>6 DEF StartPublisher, PubInv, PubStarted
  <2> QED BY <1>1, <1>6, <2>1 DEF StartPublisher, pubVars
<1>7. CASE PublishShutdown \/ Stop
  BY <1>1, <1>7 DEF PublishShutdown, Stop, StopClearRunning, StopNotify, NotifyPub, StopJoinAndClose, pubVars
<1>8. CASE UNCHANGED vars
  BY <1>1, <1>8 DEF vars, mainVars, pubVars
<1> QED BY <1>3, <1>4, <1>5, <1>6, <1>7, <1>8 DEF Next, Startup
-----------------------------------------------------------------------------
(* The theorems                                                            *)

LEMMA InitIndInv == Init => IndInv
<1> SUFFICES ASSUME Init PROVE IndInv
  OBVIOUS
<1>1. PubInv
  BY InitPubInv
<1>2. \A c \in Channels : taken[c] = <<>> /\ queue[c] = <<>> /\ wire[c] = <<>> /\ fed[c] = <<>>
  BY DEF Init
<1>3. OrderInv
  <2>1. <<>> \o <<>> = <<>> /\ DOMAIN <<>> = {}
    OBVIOUS
  <2> QED BY <1>2, <2>1 DEF OrderInv, OrderKept, Numbered, Increasing
<1>4. CountInv
  <2>1. \A c \in Channels : Kept[c] = 0 /\ received[c] = 0
    BY <1>2 DEF Init, Kept
  <2>2. FramesUpTo(Kept) = {} /\ FramesUpTo(received) = {}
    BY <2>1 DEF FramesUpTo
  <2> QED BY <2>2, FS_EmptySet DEF Init, CountInv, CountersBalance
<1>5. WireInv
  BY <1>2 DEF Init, WireInv, HeaderOpen, NoticeAfterServe, NoticesBetween, SocketOpenWhileSending
<1>6. CarryInv
  BY <1>2 DEF Init, CarryInv, NothingBeforeStart, SocketCarriesItsChannel
<1>7. FedInv
  <2>1. \A c \in Channels : IsSuffix(fed[c], Done(c))
    BY <1>1, <1>2, DoneIsSeq, EmptySuffix
  <2> QED BY <1>2, <2>1 DEF Init, FedInv, FedLater, FedFromThenOn
<1> QED BY <1>1, <1>3, <1>4, <1>5, <1>6, <1>7 DEF IndInv

LEMMA IndInvAlways == Spec => []IndInv
<1>1. IndInv /\ [Next]_vars => IndInv'
  BY NextPubInv, NextOrderInv, NextCountInv, NextWireInv, NextCarryInv, NextFedInv DEF IndInv
<1> QED BY <1>1, InitIndInv, PTL DEF Spec

\* The types, with queues that never exceed their depth, for any channels.
THEOREM PublisherTypeCorrect == Spec => []TypeOK
<1>1. IndInv => TypeOK
  BY DEF IndInv, PubInv
<1> QED BY <1>1, IndInvAlways, PTL

\* Between the dealer and the publisher the frames of a channel are neither
\* reordered nor duplicated, whatever is dropped, and the counters of
\* check_status account for every one of them.
THEOREM FramesKeepTheirOrder == Spec => []FramesInOrder
<1>1. IndInv => FramesInOrder
  BY DEF IndInv, OrderInv, CountInv, FramesInOrder
<1> QED BY <1>1, IndInvAlways, PTL

\* Every socket carries the frames taken from the queue of its own channel,
\* each one once and as a whole message; the shutdown notice, which main sends
\* while pub_loop is running, never lands between the parts of a message, and
\* no part goes to a closed socket.
THEOREM SocketsCarryWholeMessages == Spec => []MessagesWhole
<1>1. IndInv => MessagesWhole
  BY DEF IndInv, WireInv, CarryInv, MessagesWhole
<1> QED BY <1>1, IndInvAlways, PTL

\* The callback, set while pub_loop is running, is handed every frame taken
\* from then on, in order.
THEOREM CallbackFedFromThenOn == Spec => []FedFromThenOn
<1>1. IndInv => FedFromThenOn
  BY DEF IndInv, FedInv
<1> QED BY <1>1, IndInvAlways, PTL
-----------------------------------------------------------------------------
(* Refinement                                                              *)

Handing == {"header", "payload", "feed"}

\* In increasing sequences s and t, one after the other, the head of t is above s.
LEMMA HeadAbove ==
  ASSUME NEW s \in Seq(Nat), NEW t \in Seq(Nat), t # <<>>, NEW r \in Nat, Increasing(s \o t),
         \A i \in DOMAIN (s \o t) : (s \o t)[i] \in 1 .. r
  PROVE  Head(t) \in 1 .. r /\ \A i \in 1 .. Len(s) : s[i] < Head(t)
<1> PICK n \in Nat : n = Len(s)
  OBVIOUS
<1> PICK m \in Nat : m = Len(t) /\ m >= 1
  OBVIOUS
<1> PICK u : u = s \o t
  OBVIOUS
<1>1. Head(t) = t[1]
  OBVIOUS
<1>2. DOMAIN u = 1 .. n + m
  BY Concat
<1>3. \A i \in 1 .. n + m : u[i] = IF i <= n THEN s[i] ELSE t[i - n]
  BY ConcatProperties
<1>4. n + 1 \in DOMAIN u /\ u[n + 1] = t[1]
  BY <1>2, <1>3
<1>5. \A i \in 1 .. n : i \in DOMAIN u /\ i < n + 1 /\ u[i] = s[i]
  BY <1>2, <1>3
<1>6. \A i, j \in DOMAIN u : i < j => u[i] < u[j]
  BY DEF Increasing
<1> QED BY <1>1, <1>4, <1>5, <1>6

LEMMA LastOfSuffix ==
  ASSUME NEW s \in Seq(Nat), NEW t \in Seq(Nat), s # <<>>, IsSuffix(s, t)
  PROVE  Len(t) \in 1 .. Len(t) /\ Last(s) = t[Len(t)] /\ Last(s) \in Nat
<1>1. Len(s) \in Nat /\ Len(s) >= 1 /\ Len(t) \in Nat
  OBVIOUS
<1>2. Len(s) <= Len(t) /\ \A i \in 1 .. Len(s) : s[i] = t[i + (Len(t) - Len(s))]
  BY SuffixElements
<1>3. Len(s) \in 1 .. Len(s) /\ Len(s) + (Len(t) - Len(s)) = Len(t)
  BY <1>1
<1>4. s[Len(s)] = t[Len(t)]
  BY <1>2, <1>3
<1> QED BY <1>1, <1>2, <1>4 DEF Last

\* The first frame of a queue is newer than what the callback got last.
LEMMA FirstInQueueIsNewer ==
  ASSUME IndInv, pub = "drain", queue[Current] # <<>>
  PROVE  /\ Current \in Channels /\ taken[Current] \in Seq(Nat) /\ Head(queue[Current]) \in Nat
         /\ Head(queue[Current]) \in LastFed[Current] + 1 .. received[Current]
<1> PICK c : c = Current
  OBVIOUS
<1> PICK n : n = Head(queue[c])
  OBVIOUS
<1>1. /\ c \in Channels /\ taken[c] \in Seq(Nat) /\ queue[c] \in Seq(Nat) /\ queue[c] # <<>>
      /\ fed[c] \in Seq(Nat) /\ received[c] \in Nat
  BY ChannelsAt DEF IndInv, PubInv, TypeOK, Current
<1>2. /\ Increasing(taken[c] \o queue[c])
      /\ \A i \in DOMAIN (taken[c] \o queue[c]) : (taken[c] \o queue[c])[i] \in 1 .. received[c]
  BY <1>1 DEF IndInv, OrderInv, OrderKept, Numbered
<1>3. n \in 1 .. received[c] /\ \A i \in 1 .. Len(taken[c]) : taken[c][i] < n
  BY <1>1, <1>2, HeadAbove
<1>4. LastFed[c] \in Nat /\ LastFed[c] < n
  <2>1. CASE fed[c] = <<>>
    BY <1>1, <1>3, <2>1 DEF LastFed
  <2>2. CASE fed[c] # <<>>
    <3>1. IsSuffix(fed[c], taken[c])
      BY <1>1 DEF IndInv, FedInv, FedFromThenOn, Done, Holding
    <3>2. LastFed[c] = Last(fed[c])
      BY <1>1, <2>2 DEF LastFed
    <3>3. Len(taken[c]) \in 1 .. Len(taken[c]) /\ Last(fed[c]) = taken[c][Len(taken[c])] /\ Last(fed[c]) \in Nat
      BY <1>1, <2>2, <3>1, LastOfSuffix
    <3> QED BY <1>3, <3>2, <3>3
  <2> QED BY <2>1, <2>2
<1>5. n \in LastFed[c] + 1 .. received[c] /\ n \in Nat
  BY <1>1, <1>3, <1>4
<1> QED BY <1>1, <1>5

LEMMA QuietStutters ==
  ASSUME UNCHANGED <<received, fed>>,
         \/ pub \notin Handing /\ pub' \notin Handing
         \/ pub \in Handing /\ pub' \in Handing /\ UNCHANGED <<at, taken>>
  PROVE  UNCHANGED <<received, FrameInHand, LastFed>>
BY DEF Handing, FrameInHand, LastFed, Current, InHand

LEMMA PopTakes ==
  ASSUME IndInv, PubPop
  PROVE  Abstract!Take(Current)
<1>1. /\ Current \in Channels /\ taken[Current] \in Seq(Nat) /\ Head(queue[Current]) \in Nat
      /\ Head(queue[Current]) \in LastFed[Current] + 1 .. received[Current]
  BY FirstInQueueIsNewer DEF PubPop
<1>2. FrameInHand = {} /\ UNCHANGED <<received, LastFed>>
  BY DEF PubPop, FrameInHand, LastFed, dealerVars
<1>3. FrameInHand' = {[stream |-> Current, number |-> Head(queue[Current])]}
  <2>1. Current' = Current /\ pub' \in Handing
    BY DEF PubPop, AfterPop, Current, Handing
  <2>2. taken'[Current] = Append(taken[Current], Head(queue[Current]))
    BY <1>1 DEF PubPop, IndInv, PubInv, TypeOK
  <2>3. InHand' = Head(queue[Current])
    BY <1>1, <2>1, <2>2, LastOfAppend DEF InHand
  <2> QED BY <2>1, <2>3 DEF FrameInHand, Handing
<1> QED BY <1>1, <1>2, <1>3 DEF Abstract!Take

LEMMA FeedDelivers ==
  ASSUME IndInv, PubFeed
  PROVE  Abstract!Lose \/ \E f \in FrameInHand : Abstract!Deliver(f)
<1> DEFINE f == [stream |-> Current, number |-> InHand]
<1>1. Current \in Channels /\ InHand \in Nat /\ fed \in [Channels -> Seq(Nat)]
  BY InHandIsNat DEF PubFeed, IndInv, PubInv, TypeOK
<1>2. FrameInHand = {f} /\ FrameInHand' = {} /\ received' = received
  BY DEF PubFeed, FrameInHand, dealerVars
<1>3. CASE fed' = fed
  <2>1. LastFed' = LastFed
    BY <1>3 DEF LastFed
  <2> QED BY <1>2, <2>1 DEF Abstract!Lose
<1>4. CASE fed' = [fed EXCEPT ![Current] = Append(fed[Current], InHand)]
  <2>1. Append(fed[Current], InHand) # <<>> /\ Last(Append(fed[Current], InHand)) = InHand
    <3>1. fed[Current] \in Seq(Nat)
      BY <1>1
    <3>2. Append(fed[Current], InHand) # <<>>
      <4>1. Len(Append(fed[Current], InHand)) = Len(fed[Current]) + 1 /\ Len(fed[Current]) \in Nat
        BY <1>1, <3>1
      <4>2. Len(<<>>) = 0
        OBVIOUS
      <4>3. Len(Append(fed[Current], InHand)) # 0
        BY <4>1
      <4> QED BY <4>2, <4>3, Zenon
    <3>3. Last(Append(fed[Current], InHand)) = InHand
      BY ONLY <1>1, <3>1, LastOfAppend
    <3> QED BY <3>2, <3>3
  <2>2. \A c \in Channels : fed'[c] = IF c = Current THEN Append(fed[Current], InHand) ELSE fed[c]
    BY <1>1, <1>4
  <2>3. LastFed' = [LastFed EXCEPT ![Current] = InHand]
    BY <2>1, <2>2 DEF LastFed
  <2>4. Abstract!Deliver(f)
    BY <1>2, <2>3 DEF Abstract!Deliver
  <2> QED BY <1>2, <2>4
<1> QED BY <1>3, <1>4 DEF PubFeed

LEMMA EnqueueProduces ==
  ASSUME IndInv, NEW c \in Channels, DealerEnqueue(c)
  PROVE  Abstract!Produce(c)
BY DEF DealerEnqueue, mainVars, pubVars, FrameInHand, LastFed, Current, InHand, Abstract!Produce

LEMMA StepRefines ==
  IndInv /\ [Next]_vars => [Abstract!Next]_<<received, FrameInHand, LastFed>>
<1> SUFFICES ASSUME IndInv, [Next]_vars
             PROVE  Abstract!Next \/ UNCHANGED <<received, FrameInHand, LastFed>>
  OBVIOUS
<1>1. CASE Dealer
  <2>1. CASE \E c \in Channels : DealerEnqueue(c)
    BY <2>1, EnqueueProduces DEF Abstract!Next
  <2>2. CASE DealerCount \/ DealerNotify
    BY <2>2, QuietStutters DEF DealerCount, DealerNotify, NotifyPub, Handing, mainVars, pubVars
  <2> QED BY <1>1, <2>1, <2>2 DEF Dealer
<1>2. CASE PubLoop
  <2>1. CASE PubPop
    <3>1. Current \in Channels
      BY <2>1, FirstInQueueIsNewer DEF PubPop
    <3> QED BY <2>1, <3>1, PopTakes DEF Abstract!Next
  <2>2. CASE PubFeed
    BY <2>2, FeedDelivers DEF Abstract!Next
  <2>3. CASE PubSendHeader \/ PubSendPayload
    BY <2>3, QuietStutters DEF PubSendHeader, PubSendPayload, Handing, dealerVars
  <2>4. CASE PubLoopHead \/ PubTest \/ PubBlock \/ PubTimeout \/ PubWoken
    BY <2>4, QuietStutters DEF PubLoopHead, PubTest, PubBlock, PubTimeout, PubWoken, PubGoto,
       Handing, dealerVars, pubVars
  <2>5. CASE PubLock \/ PubNextQueue
    BY <2>5, QuietStutters DEF PubLock, PubNextQueue, Handing, dealerVars
  <2> QED BY <1>2, <2>1, <2>2, <2>3, <2>4, <2>5 DEF PubLoop
<1>3. CASE Startup
  <2>1. CASE StartPublisher
    BY <2>1, QuietStutters DEF StartPublisher, IndInv, PubInv, PubStarted, Handing, dealerVars, pubVars
  <2>2. CASE SetCallback
    BY <2>2, QuietStutters DEF SetCallback, Handing, dealerVars, pubVars
  <2> QED BY <1>3, <2>1, <2>2 DEF Startup
<1>4. CASE PublishShutdown \/ Stop
  BY <1>4, QuietStutters DEF PublishShutdown, Stop, StopClearRunning, StopNotify, NotifyPub,
     StopJoinAndClose, Handing, dealerVars, pubVars
<1>5. CASE UNCHANGED vars
  BY <1>5, QuietStutters DEF vars, dealerVars, pubVars, Handing
<1> QED BY <1>1, <1>2, <1>3, <1>4, <1>5 DEF Next

\* For any channels, depths and timing the pipeline is a lossy feed: whatever
\* the queues drop and whenever the callback is set, what the callback gets of
\* a channel was received by the dealer, in that order and once.
THEOREM Refinement == Spec => ImplementsLossyFeed
<1>1. Init => Abstract!Init
  BY DEF Init, Abstract!Init, Abstract!NoneYet, FrameInHand, LastFed
<1> QED BY <1>1, StepRefines, IndInvAlways, PTL
        DEF Spec, ImplementsLossyFeed, Abstract!Spec, Abstract!feedVars
================================================================================
