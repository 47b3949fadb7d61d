---------------------------- MODULE WSStreamProofs ----------------------------
(***************************************************************************)
(* Safety of what WSServer sends, for any types of data, any capacities    *)
(* and any number of frames: no frame is sent twice or out of order,       *)
(* although frames are told apart by addresses that are reused.            *)
(***************************************************************************)
EXTENDS WSStream, SequenceTheorems, FiniteSetTheorems, TLAPS

(* The send queue as data                                                  *)

\* Induction over the naturals with a set in the place of a predicate.
LEMMA SetInduction ==
  ASSUME NEW S, 0 \in S, \A n \in Nat : n \in S => n + 1 \in S
  PROVE  Nat \subseteq S
<1> DEFINE R == {ss \in Nat \X Nat : ss[1] < ss[2]}
           T == Nat \ S
<1>1. IsWellFoundedOn(R, Nat)
  BY NatLessThanWellFounded DEF OpToRel
<1> SUFFICES ASSUME T # {} PROVE FALSE
  OBVIOUS
<1>2. PICK x \in T : \A y \in T : ~(<<y, x>> \in R)
  <2> HIDE DEF R
  <2> QED BY <1>1, WFMin
<1>3. x # 0 /\ x - 1 \in Nat /\ x = (x - 1) + 1
  OBVIOUS
<1>4. <<x - 1, x>> \in R
  BY <1>3
<1> QED BY <1>2, <1>3, <1>4

\* f is the recursive function of Others, on the first n items of q.
IsKept(f, q, t, n) ==
  f = [i \in 0 .. n |-> IF i = 0 THEN <<>>
                        ELSE IF q[i].type = t THEN f[i - 1] ELSE Append(f[i - 1], q[i])]

\* The recursive definition of Others defines a function.
LEMMA KeptExists == ASSUME NEW q, NEW t PROVE \A n \in Nat : \E f : IsKept(f, q, t, n)
<1> DEFINE S == {n \in Nat : \E f : IsKept(f, q, t, n)}
<1>1. 0 \in S
  <2>1. IsKept([i \in 0 .. 0 |-> <<>>], q, t, 0)
    BY DEF IsKept
  <2> QED BY <2>1
<1>2. ASSUME NEW n \in Nat, n \in S PROVE n + 1 \in S
  <2>1. PICK f : IsKept(f, q, t, n)
    BY <1>2
  <2> DEFINE last == IF q[n + 1].type = t THEN f[n] ELSE Append(f[n], q[n + 1])
             g == [i \in 0 .. n + 1 |-> IF i = n + 1 THEN last ELSE f[i]]
  <2>2. \A i \in 0 .. n + 1 :
          g[i] = IF i = 0 THEN <<>>
                 ELSE IF q[i].type = t THEN g[i - 1] ELSE Append(g[i - 1], q[i])
    <3> SUFFICES ASSUME NEW i \in 0 .. n + 1
                 PROVE  g[i] = IF i = 0 THEN <<>>
                               ELSE IF q[i].type = t THEN g[i - 1] ELSE Append(g[i - 1], q[i])
      OBVIOUS
    <3>1. CASE i = n + 1
      <4>1. g[i] = last /\ i # 0 /\ i - 1 = n /\ g[n] = f[n]
        BY <3>1
      <4> QED BY <3>1, <4>1
    <3>2. CASE i \in 0 .. n
      <4>1. g[i] = f[i] /\ (i # 0 => g[i - 1] = f[i - 1])
        BY <3>2
      <4>2. f[i] = IF i = 0 THEN <<>>
                   ELSE IF q[i].type = t THEN f[i - 1] ELSE Append(f[i - 1], q[i])
        BY <2>1, <3>2 DEF IsKept
      <4> HIDE DEF g
      <4> QED BY <4>1, <4>2
    <3> QED BY <3>1, <3>2
  <2>3. IsKept(g, q, t, n + 1)
    <3>1. g = [i \in 0 .. n + 1 |-> g[i]]
      OBVIOUS
    <3> HIDE DEF g
    <3> QED BY <2>2, <3>1 DEF IsKept
  <2> QED BY <2>3
<1>3. Nat \subseteq S
  <2> HIDE DEF S
  <2> QED BY <1>1, <1>2, SetInduction
<1> QED BY <1>3

LEMMA OthersIsKept ==
  ASSUME NEW q, NEW t, Len(q) \in Nat
  PROVE  \E f : IsKept(f, q, t, Len(q)) /\ Others(q, t) = f[Len(q)]
<1> DEFINE kept == CHOOSE f : IsKept(f, q, t, Len(q))
<1>1. IsKept(kept, q, t, Len(q))
  BY KeptExists
<1>2. Others(q, t) = kept[Len(q)]
  BY DEF Others, IsKept
<1> HIDE DEF kept
<1> QED BY <1>1, <1>2

\* The items of a type are taken out; the others stay, and one per type.
LEMMA OthersProperties ==
  ASSUME NEW q \in Seq(Items), NEW t, OnePerType(q)
  PROVE  /\ Others(q, t) \in Seq(Items) /\ OnePerType(Others(q, t))
         /\ \A k \in DOMAIN Others(q, t) :
              Others(q, t)[k].type # t /\ \E j \in DOMAIN q : Others(q, t)[k] = q[j]
<1>1. PICK f : IsKept(f, q, t, Len(q)) /\ Others(q, t) = f[Len(q)]
  BY OthersIsKept
<1> DEFINE Good(n) == /\ f[n] \in Seq(Items) /\ OnePerType(f[n])
                      /\ \A k \in DOMAIN f[n] : f[n][k].type # t /\ \E j \in 1 .. n : f[n][k] = q[j]
           S == {n \in Nat : n <= Len(q) => Good(n)}
<1>2. \A n \in 0 .. Len(q) :
        f[n] = IF n = 0 THEN <<>> ELSE IF q[n].type = t THEN f[n - 1] ELSE Append(f[n - 1], q[n])
  BY <1>1 DEF IsKept
<1>3. 0 \in S
  <2>1. f[0] = <<>>
    BY <1>2
  <2>2. Good(0)
    BY <2>1 DEF OnePerType
  <2> QED BY <2>2
<1>4. ASSUME NEW n \in Nat, n \in S PROVE n + 1 \in S
  <2> SUFFICES ASSUME n + 1 <= Len(q) PROVE Good(n + 1)
    OBVIOUS
  <2>1. Good(n) /\ n + 1 \in 1 .. Len(q) /\ q[n + 1] \in Items
    BY <1>4
  <2>2. f[n + 1] = IF q[n + 1].type = t THEN f[n] ELSE Append(f[n], q[n + 1])
    BY <1>2, <2>1
  <2>3. CASE q[n + 1].type = t
    BY <2>1, <2>2, <2>3
  <2>4. CASE q[n + 1].type # t
    <3> PICK a : a = f[n]
      OBVIOUS
    <3> PICK b : b = Append(a, q[n + 1])
      OBVIOUS
    <3>1. /\ a \in Seq(Items) /\ OnePerType(a)
          /\ \A k \in DOMAIN a : a[k].type # t /\ \E j \in 1 .. n : a[k] = q[j]
      BY <2>1
    <3>2. /\ b \in Seq(Items) /\ DOMAIN b = 1 .. (Len(a) + 1) /\ DOMAIN a = 1 .. Len(a)
          /\ Len(a) \in Nat /\ b[Len(a) + 1] = q[n + 1] /\ \A k \in 1 .. Len(a) : b[k] = a[k]
      BY <2>1, <3>1
    <3>3. \A k \in DOMAIN a : a[k].type # q[n + 1].type
      <4> SUFFICES ASSUME NEW k \in DOMAIN a, a[k].type = q[n + 1].type PROVE FALSE
        OBVIOUS
      <4>1. PICK j \in 1 .. n : a[k] = q[j]
        BY <3>1
      <4>2. j \in DOMAIN q /\ n + 1 \in DOMAIN q /\ j # n + 1
        BY <2>1
      <4> QED BY <4>1, <4>2 DEF OnePerType
    <3>4. OnePerType(b)
      BY <3>1, <3>2, <3>3 DEF OnePerType
    <3>5. \A k \in DOMAIN b : b[k].type # t /\ \E j \in 1 .. n + 1 : b[k] = q[j]
      <4> SUFFICES ASSUME NEW k \in DOMAIN b
                   PROVE  b[k].type # t /\ \E j \in 1 .. n + 1 : b[k] = q[j]
        OBVIOUS
      <4>1. CASE k = Len(a) + 1
        BY <2>4, <3>2, <4>1
      <4>2. CASE k \in 1 .. Len(a)
        <5>1. a[k].type # t /\ \E j \in 1 .. n : a[k] = q[j]
          BY <3>1, <3>2, <4>2
        <5> QED BY <3>2, <4>2, <5>1
      <4> QED BY <3>2, <4>1, <4>2
    <3>6. f[n + 1] = b
      BY <2>2, <2>4
    <3> QED BY <3>2, <3>4, <3>5, <3>6
  <2> QED BY <2>3, <2>4
<1>5. Nat \subseteq S
  <2> HIDE DEF S
  <2> QED BY <1>3, <1>4, SetInduction
<1>6. Good(Len(q))
  BY <1>5
<1> QED BY <1>1, <1>6

\* A queue with one item per type is no longer than there are types.
LEMMA QueueBounded ==
  ASSUME NEW q \in Seq(Items), OnePerType(q)
  PROVE  Len(q) <= Cardinality(Types)
<1> DEFINE f == [i \in 1 .. Len(q) |-> q[i].type]
<1>1. Len(q) \in Nat /\ \A i \in 1 .. Len(q) : q[i] \in Items /\ q[i].type \in Types
  <2>1. Len(q) \in Nat /\ \A i \in 1 .. Len(q) : q[i] \in Items
    OBVIOUS
  <2>2. \A i \in Items : i.type \in Types
    BY DEF Items
  <2> QED BY <2>1, <2>2
<1>2. f \in Injection(1 .. Len(q), Types)
  BY <1>1 DEF OnePerType, Injection, IsInjective
<1>3. Cardinality(1 .. Len(q)) <= Cardinality(Types)
  <2> HIDE DEF f
  <2> QED BY <1>2, FS_Injection, StreamAssumption
<1>4. Cardinality(1 .. Len(q)) = Len(q)
  <2>1. 1 \in Int /\ Len(q) \in Int
    BY <1>1
  <2>2. Cardinality(1 .. Len(q)) = IF 1 > Len(q) THEN 0 ELSE Len(q) - 1 + 1
    BY <2>1, FS_Interval
  <2> QED BY <1>1, <2>2
<1> QED BY <1>3, <1>4
-----------------------------------------------------------------------------
(* The types                                                               *)

LEMMA DataFacts ==
  /\ \A b \in Bundles : b.n \in Nat /\ b.n > 0 /\ b.n \in Numbers /\ b.addr \in Addresses /\ b # Nothing
  /\ Nothing.n = 0 /\ Nothing.addr = NoAddress
  /\ \A i \in Items : i.type \in Types /\ i.bundle \in Bundles /\ i # NoItem
  /\ \A t \in Types, b \in Bundles : [type |-> t, bundle |-> b] \in Items
  /\ Numbers \subseteq Nat
<1>1. \A n \in Numbers : n \in Nat /\ n > 0
  BY StreamAssumption DEF Numbers
<1>2. Nothing.n = 0 /\ Nothing.addr = NoAddress
  BY DEF Nothing
<1>3. \A b \in Bundles : b.n \in Numbers /\ b.addr \in Addresses
  BY DEF Bundles
<1>4. \A b \in Bundles : b # Nothing
  BY <1>1, <1>2, <1>3
<1>5. \A i \in Items : i.type \in Types /\ i.bundle \in Bundles
  BY DEF Items
<1>6. \A i \in Items : i # NoItem
  <2>1. NoItem.bundle = Nothing
    BY DEF NoItem
  <2> QED BY <1>4, <1>5, <2>1
<1>7. \A t \in Types, b \in Bundles : [type |-> t, bundle |-> b] \in Items
  BY DEF Items
<1> QED BY <1>1, <1>2, <1>3, <1>4, <1>5, <1>6, <1>7

LEMMA AllocatedType ==
  ASSUME TypeOK, NEW kind \in Types \union {"jpeg"}, NEW n \in Numbers, NEW a \in Allocated(kind, n)
  PROVE  a \in Addresses /\ [n |-> n, addr |-> a] \in Bundles
<1>1. \A r \in Remembered : r \in Addresses \union {NoAddress}
  <2>1. \A t \in Types : lastSent[t] \in Bundles \union {Nothing}
    BY DEF TypeOK
  <2>2. \A t \in Types : lastSent[t].addr \in Addresses \union {NoAddress}
    BY <2>1, DataFacts
  <2>3. lastEncoded \in Addresses \union {NoAddress}
    BY DEF TypeOK
  <2> QED BY <2>2, <2>3 DEF Remembered
<1>2. <<kind, n>> \in Addresses
  BY DEF Addresses
<1>3. a \in Addresses
  BY <1>1, <1>2 DEF Allocated
<1> QED BY <1>3 DEF Bundles

LEMMA LatestType ==
  ASSUME TypeOK, NEW t \in Types
  PROVE  /\ Latest(t) \in Bundles \union {Nothing} /\ Newest(t) \in Bundles \union {Nothing}
         /\ Latest(t).n \in Nat /\ Newest(t).n \in Nat /\ lastSent[t].n \in Nat
         /\ Newest(t).n = 0 => Newest(t) = Nothing
<1>1. ring[t] \in Seq(Bundles)
  BY DEF TypeOK
<1>2. Latest(t) \in Bundles \union {Nothing}
  BY <1>1 DEF Latest, Last
<1>3. Newest(t) \in Bundles \union {Nothing}
  BY <1>2 DEF Newest, TypeOK
<1>4. lastSent[t] \in Bundles \union {Nothing}
  BY DEF TypeOK
<1> QED BY <1>2, <1>3, <1>4, DataFacts

LEMMA RingPushProperties ==
  ASSUME NEW r \in Seq(Bundles), Len(r) <= Capacity, NEW b \in Bundles
  PROVE  /\ RingPush(r, b) \in Seq(Bundles) /\ Len(RingPush(r, b)) <= Capacity
         /\ RingPush(r, b) # <<>> /\ Last(RingPush(r, b)) = b
<1>1. ASSUME NEW s \in Seq(Bundles), Len(s) < Capacity
      PROVE  /\ Append(s, b) \in Seq(Bundles) /\ Len(Append(s, b)) <= Capacity
             /\ Append(s, b) # <<>> /\ Last(Append(s, b)) = b
  BY <1>1, StreamAssumption DEF Last
<1>2. CASE Len(r) = Capacity
  <2>1. r # <<>>
    BY <1>2, StreamAssumption
  <2>2. Tail(r) \in Seq(Bundles) /\ Len(Tail(r)) < Capacity
    BY <1>2, <2>1, StreamAssumption
  <2> QED BY <1>1, <1>2, <2>2 DEF RingPush
<1>3. CASE Len(r) # Capacity
  <2>1. Len(r) < Capacity
    BY <1>3, StreamAssumption
  <2> QED BY <1>1, <1>3, <2>1 DEF RingPush
<1> QED BY <1>2, <1>3

LEMMA InitIndInv == Init => IndInv
<1> SUFFICES ASSUME Init PROVE IndInv
  OBVIOUS
<1>1. <<>> \in Seq(Bundles) /\ <<>> \in Seq(Items) /\ Len(<<>>) = 0 /\ 0 <= Capacity /\ 0 <= QueueDepth
  BY StreamAssumption
<1>2. Cardinality(Types) \in Nat
  BY StreamAssumption, FS_CardinalityType
<1>3. TypeOK
  <2>1. produced \in [Types -> Nat] /\ \A t \in Types : produced[t] <= MaxFrames[t]
    BY StreamAssumption DEF Init
  <2>2. ring \in [Types -> Seq(Bundles)] /\ \A t \in Types : Len(ring[t]) <= Capacity
    BY <1>1 DEF Init
  <2>3. lastSent \in [Types -> Bundles \union {Nothing}] /\ wire \in [Types -> Numbers \union {0}]
    BY DEF Init
  <2>4. waiting \in BOOLEAN
    BY DEF Init
  <2> QED BY <1>1, <1>2, <2>1, <2>2, <2>3, <2>4, SMTT(30) DEF Init, TypeOK
<1>4. EncodeOrder
  BY DataFacts, StreamAssumption DEF Init, EncodeOrder
<1>5. SentOrder
  <2>1. \A t \in Types : Latest(t) = Nothing /\ Newest(t) = Nothing /\ lastSent[t] = Nothing
    BY DEF Init, Latest, Newest
  <2> QED BY <2>1, DataFacts DEF Init, SentOrder
<1>6. PathOrder /\ SendLoopOnly /\ FramesInOrder
  BY DataFacts DEF Init, PathOrder, SendLoopOnly, FramesInOrder, OnePerType
<1> QED BY <1>3, <1>4, <1>5, <1>6 DEF IndInv
-----------------------------------------------------------------------------
(* The publisher's callback                                                *)

LEMMA FeedIndInv ==
  ASSUME IndInv, NEW t \in Types, Feed(t)
  PROVE  IndInv'
<1> USE DEF IndInv
<1>1. PICK b : /\ \E a \in Allocated(t, produced[t] + 1) : b = [n |-> produced[t] + 1, addr |-> a]
               /\ ring' = [ring EXCEPT ![t] = RingPush(ring[t], b)] /\ PushEncode(t, b)
  BY DEF Feed
<1>2. /\ produced[t] \in Nat /\ produced[t] + 1 \in Nat /\ produced[t] + 1 <= MaxFrames[t]
      /\ produced[t] + 1 \in Numbers
  <2>1. produced[t] \in Nat /\ MaxFrames[t] \in Nat /\ produced[t] < MaxFrames[t]
    BY StreamAssumption DEF Feed, TypeOK
  <2>2. produced[t] + 1 \in 1 .. MaxFrames[t]
    BY <2>1
  <2> QED BY <2>1, <2>2 DEF Numbers
<1>3. b \in Bundles /\ b.n = produced[t] + 1
  BY <1>1, <1>2, AllocatedType
<1>4. /\ produced' \in [Types -> Nat] /\ produced'[t] = produced[t] + 1
      /\ \A u \in Types \ {t} : produced'[u] = produced[u]
      /\ \A u \in Types : produced'[u] <= MaxFrames[u]
  BY <1>2 DEF Feed, TypeOK
<1>5. /\ ring' \in [Types -> Seq(Bundles)] /\ \A u \in Types : Len(ring'[u]) <= Capacity
      /\ \A u \in Types \ {t} : ring'[u] = ring[u]
      /\ ring'[t] # <<>> /\ Last(ring'[t]) = b
  <2>1. /\ ring \in [Types -> Seq(Bundles)] /\ \A u \in Types : Len(ring[u]) <= Capacity
    BY DEF TypeOK
  <2> PICK r : r = RingPush(ring[t], b)
    OBVIOUS
  <2>2. r \in Seq(Bundles) /\ Len(r) <= Capacity /\ r # <<>> /\ Last(r) = b
    BY <1>3, <2>1, RingPushProperties
  <2> QED BY <1>1, <2>1, <2>2
<1>6. \/ encodeQueue' = encodeQueue
      \/ t = StereoImage /\ Len(encodeQueue) < QueueDepth /\ encodeQueue' = Append(encodeQueue, b)
  BY <1>1 DEF PushEncode
<1>7. encodeQueue \in Seq(Bundles) /\ Len(encodeQueue) <= QueueDepth /\ Len(encodeQueue) \in Nat
  BY DEF TypeOK
<1>8. /\ encodeQueue' \in Seq(Bundles) /\ Len(encodeQueue') <= QueueDepth
  BY <1>3, <1>6, <1>7, StreamAssumption
<1>9. TypeOK'
  BY <1>4, <1>5, <1>8 DEF Feed, TypeOK, clientVars, sendVars
<1>10. EncodeOrder'
  <2>1. /\ encoding' = encoding /\ encoded' = encoded
        /\ encoding.n \in Nat /\ encoded.n \in Nat /\ \A i \in DOMAIN encodeQueue : encodeQueue[i].n \in Nat
        /\ produced[StereoImage] \in Nat /\ produced'[StereoImage] \in Nat
        /\ produced[StereoImage] <= produced'[StereoImage]
    BY <1>2, <1>4, <1>7, DataFacts, StreamAssumption DEF Feed, TypeOK
  <2>2. /\ encoding.n <= produced[StereoImage] /\ encoded.n <= produced[StereoImage]
        /\ encoding # Nothing => encoded.n < encoding.n
        /\ \A i \in DOMAIN encodeQueue :
             /\ encoding.n < encodeQueue[i].n /\ encoded.n < encodeQueue[i].n
             /\ encodeQueue[i].n <= produced[StereoImage]
        /\ \A i, j \in DOMAIN encodeQueue : i < j => encodeQueue[i].n < encodeQueue[j].n
    BY DEF EncodeOrder
  <2>3. CASE encodeQueue' = encodeQueue
    BY <2>1, <2>2, <2>3 DEF EncodeOrder
  <2>4. CASE t = StereoImage /\ encodeQueue' = Append(encodeQueue, b)
    <3>1. /\ DOMAIN encodeQueue' = 1 .. Len(encodeQueue) + 1 /\ DOMAIN encodeQueue = 1 .. Len(encodeQueue)
          /\ encodeQueue'[Len(encodeQueue) + 1] = b
          /\ \A i \in 1 .. Len(encodeQueue) : encodeQueue'[i] = encodeQueue[i]
      BY <1>3, <1>7, <2>4
    <3>2. b.n = produced'[StereoImage] /\ b.n = produced[StereoImage] + 1
      BY <1>3, <1>4, <2>4
    <3>3. \A i \in DOMAIN encodeQueue' :
             /\ encoding.n < encodeQueue'[i].n /\ encoded.n < encodeQueue'[i].n
             /\ encodeQueue'[i].n <= produced'[StereoImage]
      <4> SUFFICES ASSUME NEW i \in DOMAIN encodeQueue'
                   PROVE  /\ encoding.n < encodeQueue'[i].n /\ encoded.n < encodeQueue'[i].n
                          /\ encodeQueue'[i].n <= produced'[StereoImage]
        OBVIOUS
      <4>1. CASE i = Len(encodeQueue) + 1
        BY <2>1, <2>2, <3>1, <3>2, <4>1
      <4>2. CASE i \in DOMAIN encodeQueue
        BY <2>1, <2>2, <3>1, <4>2
      <4> QED BY <1>7, <3>1, <4>1, <4>2
    <3>4. ASSUME NEW i \in DOMAIN encodeQueue', NEW j \in DOMAIN encodeQueue', i < j
          PROVE  encodeQueue'[i].n < encodeQueue'[j].n
      <4>1. i \in DOMAIN encodeQueue
        BY <1>7, <3>1, <3>4
      <4>2. CASE j = Len(encodeQueue) + 1
        BY <2>1, <2>2, <3>1, <3>2, <4>1, <4>2
      <4>3. CASE j \in DOMAIN encodeQueue
        BY <2>2, <3>1, <3>4, <4>1, <4>3
      <4> QED BY <1>7, <3>1, <4>2, <4>3
    <3> QED BY <2>1, <2>2, <3>3, <3>4 DEF EncodeOrder
  <2> QED BY <1>6, <2>3, <2>4
<1>11. SentOrder'
  <2> SUFFICES ASSUME NEW u \in Types
               PROVE  /\ Latest(u)'.n <= produced'[u] /\ lastSent[u].n <= Newest(u)'.n
                      /\ lastSent[u].n = Newest(u)'.n => lastSent[u] = Newest(u)'
    BY DEF SentOrder, Feed, clientVars
  <2>1. /\ Latest(u).n <= produced[u] /\ lastSent[u].n <= Newest(u).n
        /\ lastSent[u].n = Newest(u).n => lastSent[u] = Newest(u)
        /\ Latest(u).n \in Nat /\ lastSent[u].n \in Nat
    BY LatestType DEF SentOrder
  <2>2. CASE u # t
    <3>1. Latest(u)' = Latest(u) /\ Newest(u)' = Newest(u)
      BY <1>5, <2>2 DEF Latest, Newest, Feed
    <3> QED BY <1>4, <2>1, <2>2, <3>1
  <2>3. CASE u = t
    <3>1. Latest(u)' = b
      BY <1>5, <2>3 DEF Latest
    <3>2. Latest(u)'.n = produced'[u]
      BY <1>3, <1>4, <2>3, <3>1
    <3>3. CASE u = StereoImage
      <4>1. Newest(u)' = Newest(u)
        BY <3>3 DEF Newest, Feed
      <4> QED BY <1>2, <1>4, <2>1, <2>3, <3>2, <4>1
    <3>4. CASE u # StereoImage
      <4>1. Newest(u)' = b /\ Newest(u) = Latest(u)
        BY <3>1, <3>4 DEF Newest
      <4>2. lastSent[u].n < b.n
        BY <1>2, <1>3, <2>1, <2>3, <4>1
      <4> QED BY <1>2, <1>3, <1>4, <2>1, <2>3, <3>2, <4>1, <4>2
    <3> QED BY <3>3, <3>4
  <2> QED BY <2>2, <2>3
<1>12. PathOrder' /\ SendLoopOnly' /\ FramesInOrder'
  BY DEF Feed, PathOrder, SendLoopOnly, FramesInOrder, clientVars, sendVars
<1> QED BY <1>9, <1>10, <1>11, <1>12
-----------------------------------------------------------------------------
(* encode_loop                                                             *)

\* What encode_loop leaves alone.
LEMMA PathUntouched ==
  ASSUME IndInv, UNCHANGED <<lastSent, sendVars, client>>
  PROVE  PathOrder' /\ SendLoopOnly' /\ FramesInOrder'
BY DEF IndInv, PathOrder, SendLoopOnly, FramesInOrder, sendVars

LEMMA EncodePopIndInv ==
  ASSUME IndInv, EncodePop
  PROVE  IndInv'
<1> USE DEF IndInv
<1> PICK q : q = encodeQueue
  OBVIOUS
<1> PICK r : r = Tail(encodeQueue)
  OBVIOUS
<1>1. /\ q \in Seq(Bundles) /\ q # <<>> /\ Len(q) <= QueueDepth /\ Len(q) \in Nat
      /\ encodeQueue' = r /\ r = Tail(q) /\ encoding = Nothing
      /\ \/ UNCHANGED <<encoding, lastEncoded>>
         \/ encoding' = Head(q) /\ lastEncoded' = Head(q).addr
  BY DEF EncodePop, TypeOK
<1>2. /\ r \in Seq(Bundles) /\ Len(r) = Len(q) - 1 /\ Head(q) = q[1] /\ q[1] \in Bundles
      /\ DOMAIN q = 1 .. Len(q) /\ DOMAIN r = 1 .. Len(q) - 1
      /\ \A i \in 1 .. Len(q) - 1 : r[i] = q[i + 1] /\ i + 1 \in DOMAIN q /\ 1 \in DOMAIN q
      /\ 1 \in DOMAIN q
  BY <1>1
<1>3. Len(r) <= QueueDepth
  BY <1>1, <1>2, StreamAssumption
<1>4. TypeOK'
  <2>1. q[1].addr \in Addresses
    BY <1>2, DataFacts
  <2>2. encoding' \in Bundles \union {Nothing} /\ lastEncoded' \in Addresses \union {NoAddress}
    BY <1>1, <1>2, <2>1 DEF TypeOK
  <2> QED BY <1>1, <1>2, <1>3, <2>2 DEF EncodePop, TypeOK, sourceVars, clientVars, sendVars
<1>5. EncodeOrder'
  <2>1. /\ \A i \in DOMAIN q : /\ encoding.n < q[i].n /\ encoded.n < q[i].n
                             /\ q[i].n <= produced[StereoImage]
        /\ \A i, j \in DOMAIN q : i < j => q[i].n < q[j].n
        /\ encoding.n <= produced[StereoImage] /\ encoded.n <= produced[StereoImage]
    BY DEF EncodeOrder
  <2>2. produced' = produced /\ encoded' = encoded
    BY DEF EncodePop, sourceVars
  <2>3. \A i \in DOMAIN r : q[1].n < r[i].n /\ encoding.n < r[i].n /\ encoded.n < r[i].n
                          /\ r[i].n <= produced[StereoImage]
    <3> SUFFICES ASSUME NEW i \in DOMAIN r
                 PROVE  q[1].n < r[i].n /\ encoding.n < r[i].n /\ encoded.n < r[i].n
                        /\ r[i].n <= produced[StereoImage]
      OBVIOUS
    <3>1. r[i] = q[i + 1] /\ i + 1 \in DOMAIN q /\ 1 \in DOMAIN q /\ 1 < i + 1
      BY <1>2
    <3> QED BY <2>1, <3>1
  <2>4. \A i, j \in DOMAIN r : i < j => r[i].n < r[j].n
    <3> SUFFICES ASSUME NEW i \in DOMAIN r, NEW j \in DOMAIN r, i < j PROVE r[i].n < r[j].n
      OBVIOUS
    <3>1. r[i] = q[i + 1] /\ r[j] = q[j + 1] /\ i + 1 \in DOMAIN q /\ j + 1 \in DOMAIN q /\ i + 1 < j + 1
      BY <1>2
    <3> QED BY <2>1, <3>1
  <2>5. CASE encoding' = encoding
    BY <1>1, <2>1, <2>2, <2>3, <2>4, <2>5 DEF EncodeOrder
  <2>6. CASE encoding' = q[1]
    BY <1>1, <1>2, <2>1, <2>2, <2>3, <2>4, <2>6 DEF EncodeOrder
  <2> QED BY <1>1, <1>2, <2>5, <2>6
<1>6. SentOrder'
  BY DEF EncodePop, SentOrder, Newest, Latest, sourceVars, clientVars
<1>7. PathOrder' /\ SendLoopOnly' /\ FramesInOrder'
  BY PathUntouched DEF EncodePop, clientVars
<1> QED BY <1>4, <1>5, <1>6, <1>7

LEMMA EncodeDoneIndInv ==
  ASSUME IndInv, EncodeDone
  PROVE  IndInv'
<1> USE DEF IndInv
<1>1. PICK a \in Allocated("jpeg", encoding.n) : encoded' = [n |-> encoding.n, addr |-> a]
  BY DEF EncodeDone
<1>2. encoding \in Bundles /\ encoding # Nothing /\ encoding.n \in Numbers
  BY DataFacts DEF EncodeDone, TypeOK
<1>3. encoded' \in Bundles /\ encoded'.n = encoding.n /\ encoding' = Nothing
  BY <1>1, <1>2, AllocatedType DEF EncodeDone
<1>4. TypeOK'
  BY <1>3 DEF EncodeDone, TypeOK, sourceVars, clientVars, sendVars
<1>5. /\ encoded.n < encoding.n /\ encoded.n \in Nat /\ encoding.n \in Nat
      /\ produced' = produced /\ encodeQueue' = encodeQueue
  BY <1>2, DataFacts DEF EncodeOrder, TypeOK, EncodeDone, sourceVars
<1>6. EncodeOrder'
  <2>1. \A i \in DOMAIN encodeQueue : encodeQueue[i].n \in Nat /\ encodeQueue[i].n > 0
    BY DataFacts DEF TypeOK
  <2>2. produced[StereoImage] \in Nat
    BY StreamAssumption DEF TypeOK
  <2> QED BY <1>3, <1>5, <2>1, <2>2, DataFacts DEF EncodeOrder
<1>7. SentOrder'
  <2> SUFFICES ASSUME NEW u \in Types
               PROVE  /\ Latest(u)'.n <= produced[u] /\ lastSent[u].n <= Newest(u)'.n
                      /\ lastSent[u].n = Newest(u)'.n => lastSent[u] = Newest(u)'
    BY DEF SentOrder, EncodeDone, sourceVars, clientVars
  <2>1. /\ Latest(u).n <= produced[u] /\ lastSent[u].n <= Newest(u).n /\ lastSent[u].n \in Nat
        /\ lastSent[u].n = Newest(u).n => lastSent[u] = Newest(u)
    BY LatestType DEF SentOrder
  <2>2. Latest(u)' = Latest(u)
    BY DEF Latest, EncodeDone, sourceVars
  <2>3. CASE u = StereoImage
    <3>1. Newest(u)' = encoded' /\ Newest(u) = encoded
      BY <2>3 DEF Newest
    <3>2. lastSent[u].n < encoding.n
      BY <1>5, <2>1, <3>1
    <3>3. encoding.n = Newest(u)'.n
      BY <1>3, <3>1
    <3> QED BY <1>5, <2>1, <2>2, <3>2, <3>3
  <2>4. CASE u # StereoImage
    <3>1. Newest(u)' = Newest(u)
      BY <2>2, <2>4 DEF Newest
    <3> QED BY <2>1, <2>2, <3>1
  <2> QED BY <2>3, <2>4
<1>8. PathOrder' /\ SendLoopOnly' /\ FramesInOrder'
  BY PathUntouched DEF EncodeDone, clientVars
<1> QED BY <1>4, <1>6, <1>7, <1>8

LEMMA EncodeFailsIndInv ==
  ASSUME IndInv, EncodeFails
  PROVE  IndInv'
<1> USE DEF IndInv
<1>1. TypeOK'
  BY DEF EncodeFails, TypeOK, sourceVars, clientVars, sendVars
<1>2. EncodeOrder'
  <2>1. \A i \in DOMAIN encodeQueue : encodeQueue[i].n \in Nat /\ encodeQueue[i].n > 0
    BY DataFacts DEF TypeOK
  <2>2. produced[StereoImage] \in Nat
    BY StreamAssumption DEF TypeOK
  <2> QED BY <2>1, <2>2, DataFacts DEF EncodeOrder, EncodeFails, sourceVars
<1>3. SentOrder'
  BY DEF EncodeFails, SentOrder, Newest, Latest, sourceVars, clientVars
<1>4. PathOrder' /\ SendLoopOnly' /\ FramesInOrder'
  BY PathUntouched DEF EncodeFails, clientVars
<1> QED BY <1>1, <1>2, <1>3, <1>4
-----------------------------------------------------------------------------
(* client_loop                                                             *)

\* What client_loop and send_loop leave alone, when nothing is queued.
LEMMA SourceUntouched ==
  ASSUME IndInv, UNCHANGED <<sourceVars, encodeVars, lastSent>>
  PROVE  EncodeOrder' /\ SentOrder'
BY DEF IndInv, EncodeOrder, SentOrder, Newest, Latest, sourceVars, encodeVars

LEMMA RoundIndInv ==
  ASSUME IndInv, Read \/ RoundDone \/ Leave
  PROVE  IndInv'
<1> USE DEF IndInv
<1>1. /\ UNCHANGED <<sourceVars, encodeVars, lastSent, sendVars>>
      /\ client # "none" /\ client' \in {"read", "visit", "closed"}
      /\ toVisit' \subseteq Types /\ subscriptions' \subseteq Types \union {"all"}
  <2>1. CASE Read
    <3>1. subscriptions' \in {subscriptions, subscriptions \union {"all"}}
            \union {subscriptions \union {t} : t \in Topics} \union {subscriptions \ {t} : t \in Topics}
      BY <2>1 DEF Read
    <3>2. subscriptions' \subseteq Types \union {"all"}
      BY <3>1, StreamAssumption DEF TypeOK
    <3> QED BY <2>1, <3>2 DEF Read, TypeOK
  <2>2. CASE RoundDone \/ Leave
    BY <2>2 DEF RoundDone, Leave, TypeOK
  <2> QED BY <2>1, <2>2
<1>2. TypeOK'
  BY <1>1 DEF TypeOK, sourceVars, encodeVars, sendVars
<1>3. EncodeOrder' /\ SentOrder'
  BY <1>1, SourceUntouched
<1>4. PathOrder' /\ FramesInOrder' /\ SendLoopOnly'
  BY <1>1 DEF PathOrder, FramesInOrder, SendLoopOnly, sendVars
<1> QED BY <1>2, <1>3, <1>4

\* What Visit shows is the newest bundle, and newer than the last one sent.
LEMMA ShownIsNewer ==
  ASSUME IndInv, NEW t \in Types, Shown(t) # Nothing, Shown(t).addr # lastSent[t].addr
  PROVE  /\ Shown(t) = Newest(t) /\ Shown(t) \in Bundles
         /\ lastSent[t].n < Shown(t).n /\ lastSent[t].n \in Nat /\ Shown(t).n \in Nat
<1>1. Shown(t) = Newest(t)
  BY DEF Shown, Newest, Latest
<1>2. Shown(t) \in Bundles /\ lastSent[t].n \in Nat /\ Shown(t).n \in Nat
  BY <1>1, LatestType DEF IndInv
<1>3. lastSent[t].n <= Shown(t).n /\ lastSent[t].n # Shown(t).n
  BY <1>1 DEF IndInv, SentOrder
<1> QED BY <1>1, <1>2, <1>3

LEMMA EnqueueIndInv ==
  ASSUME IndInv, NEW t \in Types, Visit(t),
         Shown(t) # Nothing, Shown(t).addr # lastSent[t].addr,
         lastSent' = [lastSent EXCEPT ![t] = Shown(t)], Enqueue(t, Shown(t))
  PROVE  IndInv'
<1> USE DEF IndInv
<1> PICK b : b = Shown(t)
  OBVIOUS
<1> PICK item : item = [type |-> t, bundle |-> b]
  OBVIOUS
<1> PICK rest : rest = Others(sendQueue, t)
  OBVIOUS
<1> PICK q : q = Append(rest, item)
  OBVIOUS
<1>1. /\ b = Newest(t) /\ b \in Bundles /\ lastSent[t].n < b.n /\ lastSent[t].n \in Nat /\ b.n \in Nat
      /\ item \in Items /\ item.type = t /\ item.bundle = b
  BY ShownIsNewer, DataFacts
<1>2. /\ sendQueue \in Seq(Items) /\ OnePerType(sendQueue) /\ sendQueue' = q
      /\ lastSent \in [Types -> Bundles \union {Nothing}] /\ wire \in [Types -> Numbers \union {0}]
      /\ sending \in Items \union {NoItem}
  BY DEF TypeOK, FramesInOrder, Enqueue
<1>3. /\ rest \in Seq(Items) /\ OnePerType(rest)
      /\ \A k \in DOMAIN rest : rest[k].type # t /\ \E j \in DOMAIN sendQueue : rest[k] = sendQueue[j]
  BY <1>2, OthersProperties
<1>4. /\ q \in Seq(Items) /\ DOMAIN q = 1 .. (Len(rest) + 1) /\ DOMAIN rest = 1 .. Len(rest)
      /\ Len(rest) \in Nat /\ q[Len(rest) + 1] = item /\ \A k \in DOMAIN rest : q[k] = rest[k]
  BY <1>1, <1>3
<1>5. \A k \in DOMAIN q :
        \/ q[k] = item
        \/ q[k].type # t /\ q[k].type \in Types /\ \E j \in DOMAIN sendQueue : q[k] = sendQueue[j]
  <2> SUFFICES ASSUME NEW k \in DOMAIN q
               PROVE  \/ q[k] = item
                      \/ q[k].type # t /\ q[k].type \in Types /\ \E j \in DOMAIN sendQueue : q[k] = sendQueue[j]
    OBVIOUS
  <2>1. CASE k = Len(rest) + 1
    BY <1>4, <2>1
  <2>2. CASE k \in DOMAIN rest
    <3>1. q[k] = rest[k] /\ rest[k] \in Items
      BY <1>3, <1>4, <2>2
    <3> QED BY <1>3, <2>2, <3>1, DataFacts
  <2> QED BY <1>4, <2>1, <2>2
<1>6. OnePerType(q)
  <2> SUFFICES ASSUME NEW i \in DOMAIN q, NEW j \in DOMAIN q, q[i].type = q[j].type PROVE i = j
    BY DEF OnePerType
  <2>1. CASE i \in DOMAIN rest /\ j \in DOMAIN rest
    BY <1>3, <1>4, <2>1 DEF OnePerType
  <2>2. CASE i \notin DOMAIN rest /\ j \notin DOMAIN rest
    BY <1>4, <2>2
  <2>3. CASE i \in DOMAIN rest /\ j \notin DOMAIN rest
    <3>1. j = Len(rest) + 1
      BY <1>4, <2>3
    <3> QED BY <1>1, <1>3, <1>4, <2>3, <3>1
  <2>4. CASE i \notin DOMAIN rest /\ j \in DOMAIN rest
    <3>1. i = Len(rest) + 1
      BY <1>4, <2>4
    <3> QED BY <1>1, <1>3, <1>4, <2>4, <3>1
  <2> QED BY <2>1, <2>2, <2>3, <2>4
<1>7. /\ lastSent' \in [Types -> Bundles \union {Nothing}] /\ lastSent'[t] = b
      /\ \A u \in Types \ {t} : lastSent'[u] = lastSent[u]
  BY <1>1, <1>2
<1>8. UNCHANGED <<sourceVars, encodeVars, client, subscriptions, waiting, sending, wire>> /\ toVisit' \subseteq Types
  BY DEF Visit, TypeOK
<1>9. TypeOK'
  <2>1. Len(q) <= Cardinality(Types)
    BY <1>4, <1>6, QueueBounded
  <2> QED BY <1>2, <1>4, <1>7, <1>8, <2>1 DEF TypeOK, sourceVars, encodeVars
<1>10. EncodeOrder' /\ SendLoopOnly'
  BY <1>8 DEF EncodeOrder, SendLoopOnly, sourceVars, encodeVars
<1>11. SentOrder'
  <2>1. \A u \in Types : Latest(u)' = Latest(u) /\ Newest(u)' = Newest(u)
    BY <1>8 DEF Latest, Newest, sourceVars, encodeVars
  <2>2. \A u \in Types : lastSent'[u].n <= Newest(u).n /\ (lastSent'[u].n = Newest(u).n => lastSent'[u] = Newest(u))
    BY <1>1, <1>7 DEF SentOrder
  <2> QED BY <1>8, <2>1, <2>2 DEF SentOrder, sourceVars
<1>12. \A u \in Types : wire[u] <= lastSent[u].n /\ lastSent[u].n <= lastSent'[u].n
                        /\ wire[u] \in Nat /\ lastSent[u].n \in Nat /\ lastSent'[u].n \in Nat
  <2> SUFFICES ASSUME NEW u \in Types
               PROVE  wire[u] <= lastSent[u].n /\ lastSent[u].n <= lastSent'[u].n
                      /\ wire[u] \in Nat /\ lastSent[u].n \in Nat /\ lastSent'[u].n \in Nat
    OBVIOUS
  <2>1. wire[u] \in Nat /\ lastSent[u].n \in Nat
    <3>1. wire[u] \in Numbers \union {0}
      BY <1>2
    <3>2. \A n \in Numbers \union {0} : n \in Nat
      <4>1. \A n \in Numbers : n \in Nat
        BY DataFacts
      <4> QED BY <4>1
    <3>3. wire[u] \in Nat
      BY ONLY <3>1, <3>2, Zenon
    <3> QED BY <3>3, LatestType
  <2>2. lastSent[u].n <= lastSent'[u].n /\ lastSent'[u].n \in Nat
    BY <1>1, <1>7, <2>1
  <2> QED BY <2>1, <2>2 DEF PathOrder
<1>13. sending # NoItem =>
         /\ sending.type \in Types /\ sending.bundle.n \in Nat
         /\ sending.bundle.n <= lastSent[sending.type].n /\ wire[sending.type] < sending.bundle.n
  BY <1>2, DataFacts DEF PathOrder, FramesInOrder
<1>14. \A j \in DOMAIN sendQueue :
         /\ sendQueue[j].type \in Types /\ sendQueue[j].bundle.n \in Nat
         /\ sendQueue[j].bundle.n <= lastSent[sendQueue[j].type].n
         /\ wire[sendQueue[j].type] < sendQueue[j].bundle.n
         /\ sending # NoItem /\ sending.type = sendQueue[j].type => sending.bundle.n < sendQueue[j].bundle.n
  BY <1>2, DataFacts DEF PathOrder, FramesInOrder
<1>15. PathOrder'
  <2>1. \A u \in Types : wire[u] <= lastSent'[u].n
    BY <1>12
  <2>2. sending # NoItem => sending.bundle.n <= lastSent'[sending.type].n
    BY <1>12, <1>13
  <2>3. \A k \in DOMAIN q : q[k].bundle.n <= lastSent'[q[k].type].n
    BY <1>1, <1>5, <1>7, <1>14
  <2> QED BY <1>2, <1>8, <2>1, <2>2, <2>3 DEF PathOrder
<1>16. FramesInOrder'
  <2> SUFFICES ASSUME NEW k \in DOMAIN q
               PROVE  /\ wire[q[k].type] < q[k].bundle.n
                      /\ sending # NoItem /\ sending.type = q[k].type => sending.bundle.n < q[k].bundle.n
    BY <1>2, <1>6, <1>8, <1>13 DEF FramesInOrder
  <2>1. CASE q[k] = item
    BY <1>1, <1>12, <1>13, <2>1
  <2>2. CASE \E j \in DOMAIN sendQueue : q[k] = sendQueue[j]
    BY <1>14, <2>2
  <2> QED BY <1>5, <2>1, <2>2
<1> QED BY <1>9, <1>10, <1>11, <1>15, <1>16

LEMMA VisitIndInv ==
  ASSUME IndInv, NEW t \in Types, Visit(t)
  PROVE  IndInv'
<1>1. CASE Shown(t) # Nothing /\ Shown(t).addr # lastSent[t].addr
           /\ lastSent' = [lastSent EXCEPT ![t] = Shown(t)] /\ Enqueue(t, Shown(t))
  BY <1>1, EnqueueIndInv
<1>2. CASE UNCHANGED <<lastSent, sendQueue>>
  <2>1. /\ UNCHANGED <<sourceVars, encodeVars, lastSent, sendVars, client, subscriptions>>
        /\ toVisit' \subseteq Types
    BY <1>2 DEF Visit, IndInv, TypeOK, sendVars
  <2>2. TypeOK'
    BY <2>1 DEF IndInv, TypeOK, sourceVars, encodeVars, sendVars
  <2> QED BY <2>1, <2>2, SourceUntouched, PathUntouched DEF IndInv
<1> QED BY <1>1, <1>2 DEF Visit
-----------------------------------------------------------------------------
(* send_loop and accept_loop                                               *)

LEMMA WaitingIndInv ==
  ASSUME IndInv, SendHead \/ SendTimeout
  PROVE  IndInv'
<1> USE DEF IndInv
<1>1. /\ UNCHANGED <<sourceVars, encodeVars, clientVars, sendQueue, sending, wire>>
      /\ waiting' \in BOOLEAN /\ (waiting' => sending = NoItem /\ client # "none")
  BY DEF SendHead, SendTimeout, Closed
<1>2. TypeOK'
  BY <1>1 DEF TypeOK, sourceVars, encodeVars, clientVars
<1>3. EncodeOrder' /\ SentOrder'
  BY <1>1, SourceUntouched DEF clientVars
<1>4. PathOrder' /\ FramesInOrder' /\ SendLoopOnly'
  BY <1>1 DEF PathOrder, FramesInOrder, SendLoopOnly, clientVars
<1> QED BY <1>2, <1>3, <1>4

LEMMA SendPopIndInv ==
  ASSUME IndInv, SendPop
  PROVE  IndInv'
<1> USE DEF IndInv
<1> PICK q : q = sendQueue
  OBVIOUS
<1> PICK r : r = Tail(q)
  OBVIOUS
<1>1. /\ q \in Seq(Items) /\ q # <<>> /\ Len(q) <= Cardinality(Types) /\ Len(q) \in Nat
      /\ sendQueue' = r /\ sending = NoItem /\ sending' = Head(q) /\ client # "none" /\ waiting' = FALSE
      /\ UNCHANGED <<sourceVars, encodeVars, clientVars, wire>>
  BY DEF SendPop, TypeOK, SendLoopOnly
<1>2. /\ r \in Seq(Items) /\ Len(r) = Len(q) - 1 /\ Head(q) = q[1] /\ q[1] \in Items
      /\ DOMAIN q = 1 .. Len(q) /\ DOMAIN r = 1 .. Len(q) - 1 /\ 1 \in DOMAIN q
      /\ \A i \in DOMAIN r : r[i] = q[i + 1] /\ i + 1 \in DOMAIN q /\ i + 1 # 1
  BY <1>1
<1>3. /\ OnePerType(q)
      /\ \A i \in DOMAIN q : wire[q[i].type] < q[i].bundle.n /\ q[i].bundle.n <= lastSent[q[i].type].n
  BY DEF FramesInOrder, PathOrder
<1>4. TypeOK'
  <2>1. Len(r) <= Cardinality(Types)
    <3>1. Cardinality(Types) \in Nat
      BY StreamAssumption, FS_CardinalityType
    <3> QED BY <1>1, <1>2, <3>1
  <2> QED BY <1>1, <1>2, <2>1 DEF TypeOK, sourceVars, encodeVars, clientVars
<1>5. EncodeOrder' /\ SentOrder'
  BY <1>1, SourceUntouched DEF clientVars
<1>6. SendLoopOnly'
  BY <1>1 DEF SendLoopOnly, clientVars
<1>7. UNCHANGED <<lastSent, wire>>
  BY <1>1 DEF clientVars
<1>8. PathOrder'
  <2>1. \A i \in DOMAIN r : r[i].bundle.n <= lastSent[r[i].type].n
    BY <1>2, <1>3
  <2>2. sending'.bundle.n <= lastSent[sending'.type].n
    BY <1>1, <1>2, <1>3
  <2> QED BY <1>1, <1>7, <2>1, <2>2 DEF PathOrder
<1>9. FramesInOrder'
  <2>1. OnePerType(r)
    <3> SUFFICES ASSUME NEW i \in DOMAIN r, NEW j \in DOMAIN r, r[i].type = r[j].type PROVE i = j
      BY DEF OnePerType
    <3>1. i + 1 = j + 1
      BY <1>2, <1>3 DEF OnePerType
    <3> QED BY <1>1, <1>2, <3>1
  <2>2. wire[sending'.type] < sending'.bundle.n
    BY <1>1, <1>2, <1>3
  <2>3. \A i \in DOMAIN r : wire[r[i].type] < r[i].bundle.n /\ r[i].type # sending'.type
    <3> SUFFICES ASSUME NEW i \in DOMAIN r
                 PROVE  wire[r[i].type] < r[i].bundle.n /\ r[i].type # sending'.type
      OBVIOUS
    <3>1. r[i] = q[i + 1] /\ i + 1 \in DOMAIN q /\ i + 1 # 1
      BY <1>2
    <3>2. q[i + 1].type # q[1].type
      BY <1>2, <1>3, <3>1 DEF OnePerType
    <3> QED BY <1>1, <1>2, <1>3, <3>1, <3>2
  <2> QED BY <1>1, <1>7, <2>1, <2>2, <2>3 DEF FramesInOrder
<1> QED BY <1>4, <1>5, <1>6, <1>8, <1>9

LEMMA SendIndInv ==
  ASSUME IndInv, Send
  PROVE  IndInv'
<1> USE DEF IndInv
<1> PICK item : item = sending
  OBVIOUS
<1>1. /\ item \in Items /\ item = sending /\ sending' = NoItem
      /\ UNCHANGED <<sourceVars, encodeVars, subscriptions, toVisit, lastSent, sendQueue, waiting>>
      /\ \/ wire' = [wire EXCEPT ![item.type] = item.bundle.n] /\ client' = client
         \/ wire' = wire /\ client' = "closed"
  BY DEF Send, TypeOK
<1>2. item.type \in Types /\ item.bundle.n \in Numbers
  BY <1>1, DataFacts
<1>3. /\ \A u \in Types : wire[u] <= lastSent[u].n
      /\ item.bundle.n <= lastSent[item.type].n
      /\ wire \in [Types -> Numbers \union {0}]
      /\ \A i \in DOMAIN sendQueue :
           /\ wire[sendQueue[i].type] < sendQueue[i].bundle.n
           /\ item.type = sendQueue[i].type => item.bundle.n < sendQueue[i].bundle.n
           /\ sendQueue[i].type \in Types
  <2>1. \A i \in DOMAIN sendQueue : sendQueue[i] \in Items
    BY DEF TypeOK
  <2> QED BY <1>1, <2>1, DataFacts DEF Send, PathOrder, FramesInOrder, TypeOK
<1>4. /\ wire' \in [Types -> Numbers \union {0}]
      /\ \A u \in Types : wire'[u] = wire[u] \/ (u = item.type /\ wire'[u] = item.bundle.n)
  BY <1>1, <1>2, <1>3
<1>5. TypeOK'
  BY <1>1, <1>4 DEF TypeOK, sourceVars, encodeVars
<1>6. EncodeOrder' /\ SentOrder'
  BY <1>1, SourceUntouched
<1>7. SendLoopOnly'
  BY <1>1, DataFacts DEF SendLoopOnly, TypeOK
<1>8. PathOrder'
  BY <1>1, <1>3, <1>4 DEF PathOrder
<1>9. FramesInOrder'
  BY <1>1, <1>3, <1>4 DEF FramesInOrder
<1> QED BY <1>5, <1>6, <1>7, <1>8, <1>9

LEMMA NewSessionIndInv ==
  ASSUME IndInv, Connect \/ Erase
  PROVE  IndInv'
<1> USE DEF IndInv
<1>1. /\ NewSession /\ UNCHANGED <<produced, encodeVars, waiting, sending>> /\ sending = NoItem /\ ~waiting
      /\ client' \in {"none", "read"} /\ ring' \in {ring, [t \in Types |-> <<>>]}
  BY DEF Connect, Erase, SendLoopOnly, sourceVars
<1>2. /\ lastSent' \in [Types -> Bundles \union {Nothing}] /\ wire' \in [Types -> Numbers \union {0}]
      /\ \A t \in Types : lastSent'[t] = Nothing /\ wire'[t] = 0
      /\ sendQueue' = <<>> /\ subscriptions' = {} /\ toVisit' = {}
  BY <1>1 DEF NewSession
<1>3. ring' \in [Types -> Seq(Bundles)] /\ \A t \in Types : Len(ring'[t]) <= Capacity
  <2>1. <<>> \in Seq(Bundles) /\ Len(<<>>) <= Capacity
    BY StreamAssumption
  <2> QED BY <1>1, <2>1 DEF TypeOK
<1>4. TypeOK'
  <2>1. <<>> \in Seq(Items) /\ Len(<<>>) <= Cardinality(Types)
    BY StreamAssumption, FS_CardinalityType
  <2> QED BY <1>1, <1>2, <1>3, <2>1 DEF TypeOK, encodeVars
<1>5. EncodeOrder'
  BY <1>1 DEF EncodeOrder, encodeVars
<1>6. SentOrder'
  <2> SUFFICES ASSUME NEW t \in Types
               PROVE  /\ Latest(t)'.n <= produced[t]
                      /\ 0 <= Newest(t)'.n /\ (0 = Newest(t)'.n => Nothing = Newest(t)')
    BY <1>1, <1>2, DataFacts DEF SentOrder
  <2>1. /\ Latest(t).n <= produced[t] /\ Newest(t).n \in Nat /\ produced[t] \in Nat
        /\ Newest(t).n = 0 => Newest(t) = Nothing
    BY LatestType DEF SentOrder, TypeOK
  <2>2. encoded' = encoded
    BY <1>1 DEF encodeVars
  <2>3. CASE ring' = ring
    <3>1. Latest(t)' = Latest(t) /\ Newest(t)' = Newest(t)
      BY <2>2, <2>3 DEF Latest, Newest
    <3> QED BY <2>1, <3>1
  <2>4. CASE ring' = [u \in Types |-> <<>>]
    <3>1. Latest(t)' = Nothing
      BY <2>4 DEF Latest
    <3>2. Newest(t)' = Newest(t) \/ Newest(t)' = Nothing
      BY <2>2, <3>1 DEF Newest
    <3> QED BY <2>1, <3>1, <3>2, DataFacts
  <2> QED BY <1>1, <2>3, <2>4
<1>7. PathOrder' /\ SendLoopOnly' /\ FramesInOrder'
  BY <1>1, <1>2, DataFacts DEF PathOrder, SendLoopOnly, FramesInOrder, OnePerType
<1> QED BY <1>4, <1>5, <1>6, <1>7
-----------------------------------------------------------------------------
(* The theorems                                                            *)

LEMMA NextIndInv == IndInv /\ [Next]_vars => IndInv'
<1> SUFFICES ASSUME IndInv, [Next]_vars PROVE IndInv'
  OBVIOUS
<1>1. CASE UNCHANGED vars
  BY <1>1 DEF vars, sourceVars, encodeVars, clientVars, sendVars, IndInv, TypeOK, EncodeOrder, SentOrder,
     Newest, Latest, PathOrder, SendLoopOnly, FramesInOrder
<1>2. CASE \E t \in Types : Feed(t)
  BY <1>2, FeedIndInv
<1>3. CASE EncodeLoop
  BY <1>3, EncodePopIndInv, EncodeDoneIndInv, EncodeFailsIndInv DEF EncodeLoop
<1>4. CASE ClientLoop
  BY <1>4, RoundIndInv, VisitIndInv DEF ClientLoop
<1>5. CASE SendLoop
  BY <1>5, WaitingIndInv, SendPopIndInv, SendIndInv DEF SendLoop
<1>6. CASE Connect \/ Erase
  BY <1>6, NewSessionIndInv
<1> QED BY <1>1, <1>2, <1>3, <1>4, <1>5, <1>6 DEF Next

LEMMA IndInvAlways == Spec => []IndInv
BY InitIndInv, NextIndInv, PTL DEF Spec

\* The types; a ring, the encode queue and a send queue never outgrow their
\* bounds, that of the send queue being one bundle for each type.
THEOREM StreamTypeCorrect == Spec => []TypeOK
<1>1. IndInv => TypeOK
  BY DEF IndInv
<1> QED BY <1>1, IndInvAlways, PTL

\* No frame is sent to a peer twice or out of order, although what is new is
\* told by addresses that the allocator uses again.
THEOREM FramesSentInOrder == Spec => []FramesInOrder
<1>1. IndInv => FramesInOrder
  BY DEF IndInv
<1> QED BY <1>1, IndInvAlways, PTL
-----------------------------------------------------------------------------
(* Refinement                                                              *)

\* What waits for a peer was produced.
LEMMA SentWasProduced ==
  ASSUME IndInv, NEW t \in Types
  PROVE  lastSent[t].n <= produced[t] /\ lastSent[t].n \in Nat
<1>1. /\ Latest(t).n <= produced[t] /\ lastSent[t].n <= Newest(t).n
      /\ encoded.n <= produced[StereoImage] /\ produced[t] \in Nat
  BY DEF IndInv, SentOrder, EncodeOrder, TypeOK
<1>2. Newest(t).n <= produced[t]
  BY <1>1 DEF Newest
<1>3. Newest(t).n \in Nat /\ lastSent[t].n \in Nat
  BY LatestType DEF IndInv
<1> QED BY <1>1, <1>2, <1>3

LEMMA SendPopTakes ==
  ASSUME IndInv, SendPop
  PROVE  \E t \in Types : Abstract!Take(t)
<1> PICK item : item = Head(sendQueue)
  OBVIOUS
<1> PICK t : t = item.type
  OBVIOUS
<1>1. /\ sendQueue \in Seq(Items) /\ sendQueue # <<>> /\ sending = NoItem /\ sending' = item
      /\ UNCHANGED <<produced, wire>>
  BY DEF SendPop, IndInv, TypeOK, SendLoopOnly, sourceVars
<1>2. 1 \in DOMAIN sendQueue /\ item = sendQueue[1] /\ item \in Items
  BY <1>1
<1>3. t \in Types /\ item.bundle.n \in Nat /\ item # NoItem
  BY <1>2, DataFacts
<1>4. wire[t] < item.bundle.n /\ item.bundle.n <= lastSent[t].n
  BY <1>2 DEF IndInv, FramesInOrder, PathOrder
<1>5. wire[t] \in Nat /\ produced[t] \in Nat
  <2>1. \A n \in Numbers \union {0} : n \in Nat
    <3>1. \A n \in Numbers : n \in Nat
      BY DataFacts
    <3> QED BY <3>1
  <2>2. wire[t] \in Numbers \union {0} /\ produced[t] \in Nat
    BY <1>3 DEF IndInv, TypeOK
  <2> QED BY <2>1, <2>2, Zenon
<1>6. item.bundle.n \in wire[t] + 1 .. produced[t]
  BY <1>3, <1>4, <1>5, SentWasProduced
<1>7. InHand = {} /\ InHand' = {[stream |-> t, number |-> item.bundle.n]}
  BY <1>1, <1>3 DEF InHand
<1> QED BY <1>1, <1>3, <1>6, <1>7 DEF Abstract!Take

LEMMA SendDelivers ==
  ASSUME IndInv, Send
  PROVE  Abstract!Lose \/ \E f \in InHand : Abstract!Deliver(f)
<1> DEFINE f == [stream |-> sending.type, number |-> sending.bundle.n]
<1>1. InHand = {f} /\ InHand' = {} /\ produced' = produced
  BY DEF Send, InHand, sourceVars
<1>2. CASE wire' = [wire EXCEPT ![sending.type] = sending.bundle.n]
  <2>1. Abstract!Deliver(f)
    BY <1>1, <1>2 DEF Abstract!Deliver
  <2> QED BY <1>1, <2>1
<1>3. CASE wire' = wire
  BY <1>1, <1>3 DEF Abstract!Lose
<1> QED BY <1>2, <1>3 DEF Send

LEMMA StepRefines ==
  IndInv /\ [Next]_vars => [Abstract!Next \/ Abstract!NewReceiver]_<<produced, InHand, wire>>
<1> SUFFICES ASSUME IndInv, [Next]_vars
             PROVE  Abstract!Next \/ Abstract!NewReceiver \/ UNCHANGED <<produced, InHand, wire>>
  OBVIOUS
<1>1. CASE \E t \in Types : Feed(t)
  <2>1. PICK t \in Types : Feed(t)
    BY <1>1
  <2>2. Abstract!Produce(t)
    BY <2>1 DEF Feed, Abstract!Produce, InHand, sendVars
  <2> QED BY <2>2 DEF Abstract!Next
<1>2. CASE EncodeLoop
  BY <1>2 DEF EncodeLoop, EncodePop, EncodeDone, EncodeFails, InHand, sourceVars, sendVars
<1>3. CASE ClientLoop
  BY <1>3 DEF ClientLoop, Read, Visit, RoundDone, Leave, InHand, sourceVars, sendVars
<1>4. CASE SendLoop
  <2>1. CASE SendHead \/ SendTimeout
    BY <2>1 DEF SendHead, SendTimeout, InHand, sourceVars
  <2> QED BY <1>4, <2>1, SendPopTakes, SendDelivers DEF SendLoop, Abstract!Next
<1>5. CASE Connect \/ Erase
  <2>1. sending = NoItem /\ UNCHANGED <<produced, sending>> /\ wire' = [t \in Types |-> 0]
    BY <1>5 DEF Connect, Erase, NewSession, IndInv, SendLoopOnly, sourceVars
  <2> QED BY <2>1 DEF InHand, Abstract!NewReceiver, Abstract!NoneYet
<1>6. CASE UNCHANGED vars
  BY <1>6 DEF vars, sourceVars, sendVars, InHand
<1> QED BY <1>1, <1>2, <1>3, <1>4, <1>5, <1>6 DEF Next

\* For any types, capacities and reuse of addresses the stream is a lossy feed:
\* what a peer gets was pushed into the rings, in that order, each frame once.
THEOREM Refinement == Spec => ImplementsLossyFeed
<1>1. Init => Abstract!Init
  BY DEF Init, Abstract!Init, Abstract!NoneYet, InHand
<1> QED BY <1>1, StepRefines, IndInvAlways, PTL
        DEF Spec, ImplementsLossyFeed, Abstract!SessionSpec, Abstract!feedVars
===============================================================================
