------------------------------ MODULE RingIndex ------------------------------
(***************************************************************************)
(* Positions of SPSCQueue and RingBuffer only grow; `pos & mask` picks the *)
(* cell.  The mask is capacity - 1 with capacity a power of two, so the    *)
(* cell is the position modulo the capacity.                               *)
(*                                                                         *)
(* The facts about cells, and about sequences as the functions a ring's    *)
(* cells are compared with, are what the proofs about both rings rest on.  *)
(***************************************************************************)
EXTENDS Integers, Sequences, SequenceTheorems, TLAPS

Cell(pos, capacity) == pos % capacity
-----------------------------------------------------------------------------
\* A position always picks a cell that exists.
LEMMA CellInRange ==
  ASSUME NEW pos \in Int, NEW capacity \in Nat \ {0}
  PROVE  Cell(pos, capacity) \in 0 .. capacity - 1
BY DEF Cell

LEMMA CellDivision ==
  ASSUME NEW pos \in Int, NEW capacity \in Nat \ {0}
  PROVE  /\ pos \div capacity \in Int
         /\ pos = capacity * (pos \div capacity) + Cell(pos, capacity)
BY DEF Cell

\* Two positions less than a capacity apart pick different cells: a window of
\* at most capacity positions never uses a cell twice.
THEOREM CellsDistinct ==
  ASSUME NEW capacity \in Nat \ {0}, NEW p \in Int, NEW q \in Int,
         p < q, q - p < capacity
  PROVE  Cell(p, capacity) # Cell(q, capacity)
<1> DEFINE a == p \div capacity
           b == q \div capacity
<1>1. SUFFICES ASSUME Cell(p, capacity) = Cell(q, capacity) PROVE FALSE
  OBVIOUS
<1>2. a \in Int /\ b \in Int
  BY CellDivision
<1>3. q - p = capacity * b - capacity * a
  <2>1. p = capacity * a + Cell(p, capacity) /\ q = capacity * b + Cell(q, capacity)
    BY CellDivision
  <2>2. Cell(p, capacity) \in Int
    BY CellInRange
  <2> QED BY <1>1, <1>2, <2>1, <2>2
<1> HIDE DEF a, b
<1>4. CASE b <= a
  BY <1>2, <1>3, <1>4, SMTT(30)
<1>5. CASE b >= a + 1
  BY <1>2, <1>3, <1>5, SMTT(30)
<1> QED BY <1>2, <1>4, <1>5
-----------------------------------------------------------------------------
\* A sequence is the function of its elements.
LEMMA SeqIsFunction ==
  ASSUME NEW S, NEW s \in Seq(S)
  PROVE  s = [i \in 1 .. Len(s) |-> s[i]]
<1>1. PICK n \in Nat : s \in [1 .. n -> S]
  BY SeqDef
<1>2. Len(s) = n
  BY <1>1
<1> QED BY <1>1, <1>2

\* Append and Tail as functions, to compare with sequences read from a ring.
LEMMA AppendShape ==
  ASSUME NEW S, NEW s \in Seq(S), NEW e \in S
  PROVE  Append(s, e) = [i \in 1 .. Len(s) + 1 |-> IF i <= Len(s) THEN s[i] ELSE e]
<1> DEFINE t == Append(s, e)
<1>1. t = [i \in 1 .. Len(t) |-> t[i]]
  <2>1. t \in Seq(S)
    BY AppendProperties
  <2> HIDE DEF t
  <2> QED BY <2>1, SeqIsFunction
<1>2. Len(t) = Len(s) + 1 /\ Len(s) \in Nat
  BY AppendProperties, LenProperties
<1>3. ASSUME NEW i \in 1 .. Len(s) + 1
      PROVE  t[i] = IF i <= Len(s) THEN s[i] ELSE e
  <2>1. CASE i \in 1 .. Len(s)
    BY <2>1, <1>2, AppendProperties
  <2>2. CASE i = Len(s) + 1
    BY <2>2, <1>2, AppendProperties
  <2> QED BY <1>2, <2>1, <2>2
<1> HIDE DEF t
<1>4. t = [i \in 1 .. Len(s) + 1 |-> IF i <= Len(s) THEN s[i] ELSE e]
  BY <1>1, <1>2, <1>3
<1> QED BY <1>4 DEF t

LEMMA TailShape ==
  ASSUME NEW S, NEW s \in Seq(S), s # <<>>
  PROVE  Tail(s) = [i \in 1 .. Len(s) - 1 |-> s[i + 1]]
<1> DEFINE t == Tail(s)
<1>1. t = [i \in 1 .. Len(t) |-> t[i]]
  BY HeadTailProperties, SeqIsFunction
<1>2. Len(t) = Len(s) - 1 /\ \A i \in 1 .. Len(t) : t[i] = s[i + 1]
  BY HeadTailProperties
<1> HIDE DEF t
<1>3. t = [i \in 1 .. Len(s) - 1 |-> s[i + 1]]
  BY <1>1, <1>2
<1> QED BY <1>3 DEF t
==============================================================================
