------------------------- MODULE ConfigurationProofs -------------------------
(***************************************************************************)
(* The parameters of Configuration keep their types, and what was saved    *)
(* last is what the next start finds.                                      *)
(***************************************************************************)
EXTENDS Configuration, SequenceTheorems, FiniteSetTheorems, WellFoundedInduction, TLAPS

(* Positions and items                                                     *)

\* A set of positions that is not empty has its maximum in it.
LEMMA MaxOfPositions ==
  ASSUME NEW n \in Nat, NEW S \in SUBSET (1 .. n), S # {}
  PROVE  Max(S) \in S
<1> DEFINE R == {ss \in Nat \X Nat : ss[1] < ss[2]}
           T == {k \in Nat : \A x \in S : x <= k}
<1>1. IsWellFoundedOn(R, Nat)
  BY NatLessThanWellFounded DEF OpToRel
<1>2. n \in T
  OBVIOUS
<1>3. PICK k \in T : \A l \in T : ~(<<l, k>> \in R)
  <2> HIDE DEF R
  <2>1. T \subseteq Nat /\ T # {}
    BY <1>2
  <2> HIDE DEF T
  <2> QED BY <1>1, <2>1, WFMin
<1>4. k \in S
  <2> SUFFICES ASSUME k \notin S PROVE FALSE
    OBVIOUS
  <2>1. \A x \in S : x \in Nat /\ x >= 1 /\ x <= k /\ x # k
    OBVIOUS
  <2>2. k \in Nat /\ k >= 1
    <3> PICK x \in S : TRUE
      OBVIOUS
    <3> QED BY <2>1
  <2>3. \A x \in S : x <= k - 1
    BY <2>1, <2>2
  <2>4. k - 1 \in T
    BY <2>2, <2>3
  <2>5. <<k - 1, k>> \in R
    BY <2>2
  <2> QED BY <1>3, <2>4, <2>5
<1>5. \A y \in S : k >= y
  OBVIOUS
<1> QED BY <1>4, <1>5 DEF Max

\* The items of a name that a load applies are items of the file.
LEMMA ItemsOfFile ==
  ASSUME NEW items \in Seq(Items \union {Malformed}), NEW n \in Names
  PROVE  /\ ItemsOf(n, items) \subseteq DOMAIN items
         /\ \A i \in ItemsOf(n, items) : items[i] \in Items /\ items[i].name = n
         /\ ItemsOf(n, items) # {} => Max(ItemsOf(n, items)) \in ItemsOf(n, items)
<1>1. ItemsOf(n, items) \subseteq 1 .. Len(items) /\ DOMAIN items = 1 .. Len(items) /\ Len(items) \in Nat
  BY DEF ItemsOf, Accepted
<1>2. \A i \in ItemsOf(n, items) : items[i] \in Items /\ items[i].name = n
  <2> SUFFICES ASSUME NEW i \in ItemsOf(n, items) PROVE items[i] \in Items /\ items[i].name = n
    OBVIOUS
  <2>1. i \in 1 .. i /\ i \in DOMAIN items
    BY <1>1
  <2>2. items[i] # Malformed /\ items[i].name = n
    BY <2>1 DEF ItemsOf, Accepted
  <2>3. items[i] \in Items \union {Malformed}
    BY <1>1, ElementOfSeq
  <2> QED BY <2>2, <2>3
<1> QED BY <1>1, <1>2, MaxOfPositions

\* What an item becomes, and what a client may read of it.
LEMMA FromJsonProperties ==
  ASSUME NEW j \in Items, NEW garbage \in Kinds \union {NoKind}
  PROVE  /\ FromJson(j, garbage) \in Entries
         /\ j.kind \in Kinds =>
              Content(FromJson(j, garbage)) = [kind |-> j.kind, datum |-> j.datum, flags |-> j.flags]
<1> DEFINE v == [k \in Kinds |-> IF k = j.kind THEN j.datum ELSE Default]
           g == IF j.kind = OtherType THEN garbage ELSE j.kind
           p == [kind |-> g, value |-> v, flags |-> j.flags]
<1>1. v \in Values
  BY ConfigurationAssumption DEF Items, Values
<1>2. g \in Kinds \union {NoKind} /\ j.flags \in Flags
  BY DEF Items
<1>3. FromJson(j, garbage) = p
  BY DEF FromJson
<1>4. p \in Entries
  <2> HIDE DEF v, g
  <2> QED BY <1>1, <1>2 DEF Entries
<1>5. ASSUME j.kind \in Kinds
      PROVE  Content(p) = [kind |-> j.kind, datum |-> j.datum, flags |-> j.flags]
  <2>1. g = j.kind /\ g # NoKind
    BY <1>5, ConfigurationAssumption
  <2>2. v[j.kind] = j.datum
    BY <1>5
  <2>3. p # Absent
    BY <1>4, ConfigurationAssumption
  <2> HIDE DEF v, g
  <2> QED BY <2>1, <2>2, <2>3 DEF Content
<1> QED BY <1>3, <1>4, <1>5

\* What a load leaves has its types.
LEMMA LoadedType ==
  ASSUME TypeOK, NEW garbage \in [Names -> Kinds \union {NoKind}]
  PROVE  Loaded(garbage) \in [Names -> Entries \union {Absent}]
<1>1. CASE file.state = "whole"
  <2>1. file.items \in Seq(Items \union {Malformed})
    BY <1>1 DEF TypeOK, Missing, Torn
  <2>2. \A n \in Names : ItemsOf(n, file.items) # {} =>
          FromJson(file.items[Max(ItemsOf(n, file.items))], garbage[n]) \in Entries
    BY <2>1, ItemsOfFile, FromJsonProperties
  <2> QED BY <1>1, <2>2 DEF Loaded, Applied
<1>2. CASE file.state # "whole"
  BY <1>2 DEF Loaded, Undefined
<1> QED BY <1>1, <1>2
-----------------------------------------------------------------------------
(* What save writes                                                        *)

\* An order of a finite set has each of its elements once.
LEMMA OrderOfSet ==
  ASSUME NEW S, IsFiniteSet(S), NEW order \in SetToSeqs(S)
  PROVE  /\ order \in Seq(S)
         /\ \A i, j \in DOMAIN order : order[i] = order[j] => i = j
         /\ \A x \in S : \E i \in DOMAIN order : order[i] = x
<1> DEFINE c == Cardinality(S)
           D == 1 .. c
<1>1. c \in Nat
  BY FS_CardinalityType
<1>2. order \in [D -> S] /\ \A i, j \in D : i # j => order[i] # order[j]
  BY DEF SetToSeqs
<1>3. IsFiniteSet(D) /\ Cardinality(D) = c
  BY <1>1, FS_Interval
<1>4. order \in Injection(D, S)
  <2> HIDE DEF D
  <2> QED BY <1>2 DEF Injection, IsInjective
<1>5. order \in Surjection(D, S)
  <2> HIDE DEF D, c
  <2>1. Cardinality(D) = Cardinality(S)
    BY <1>3 DEF c
  <2> QED BY <2>1, <1>4, FS_Injection
<1>6. order \in Seq(S)
  BY <1>1, <1>2, SeqDef
<1>7. \A x \in S : \E i \in D : order[i] = x
  BY <1>5 DEF Surjection
<1> QED BY <1>2, <1>6, <1>7

\* A parameter is written as what a client may read of it, under its name.
LEMMA ToJsonProperties ==
  ASSUME TypeOK, NEW n \in Defined
  PROVE  /\ ToJson(n) \in Items \union {Malformed}
         /\ Content(params[n]) \in Contents /\ Content(params[n]) # Absent
         /\ ~Lost(Content(params[n])) =>
              /\ ToJson(n) \in Items
              /\ ToJson(n) = [name |-> n, kind |-> Content(params[n]).kind,
                              datum |-> Content(params[n]).datum, flags |-> Content(params[n]).flags]
<1>1. n \in Names /\ params[n] \in Entries /\ params[n] # Absent
  BY DEF Defined, TypeOK
<1>2. Content(params[n]) \in Contents
  <2>1. CASE params[n].kind = NoKind
    <3>1. Content(params[n]) = [kind |-> NoKind, flags |-> params[n].flags, datum |-> Default]
      BY <1>1, <2>1 DEF Content
    <3> QED BY <1>1, <3>1, ConfigurationAssumption DEF Entries, Contents
  <2>2. CASE params[n].kind # NoKind
    <3> DEFINE datum == params[n].value[params[n].kind]
    <3>1. params[n].kind \in Kinds /\ datum \in Data /\ params[n].flags \in Flags
      BY <1>1, <2>2 DEF Entries, Values
    <3>2. Content(params[n]) = [kind |-> params[n].kind, flags |-> params[n].flags, datum |-> datum]
      BY <1>1, <2>2 DEF Content
    <3> HIDE DEF datum
    <3> QED BY <3>1, <3>2 DEF Contents
  <2> QED BY <2>1, <2>2
<1>3. Content(params[n]) # Absent
  BY <1>2, ConfigurationAssumption
<1>4. CASE Lost(Content(params[n]))
  BY <1>2, <1>3, <1>4 DEF ToJson
<1>5. CASE ~Lost(Content(params[n]))
  <2> PICK c : c = Content(params[n])
    OBVIOUS
  <2>1. c.kind \in Kinds /\ c.datum \in Data /\ c.flags \in Flags
    BY <1>2, <1>5 DEF Contents, Lost
  <2>2. ToJson(n) = [name |-> n, kind |-> c.kind, datum |-> c.datum, flags |-> c.flags]
    BY <1>5 DEF ToJson
  <2>3. ToJson(n) \in Items
    BY <1>1, <2>1, <2>2 DEF Items
  <2> QED BY <1>2, <1>3, <2>2, <2>3
<1> QED BY <1>4, <1>5

LEMMA DefinedFinite == IsFiniteSet(Defined)
BY ConfigurationAssumption, FS_Subset DEF Defined

\* The file that save leaves.
LEMMA SavedFile ==
  ASSUME TypeOK, SaveWrite
  PROVE  \E order \in Seq(Defined) :
           /\ \A i, j \in DOMAIN order : order[i] = order[j] => i = j
           /\ \A n \in Defined : \E i \in DOMAIN order : order[i] = n
           /\ file'.state = "whole"
           /\ file'.items \in Seq(Items \union {Malformed})
           /\ DOMAIN file'.items = DOMAIN order
           /\ \A i \in DOMAIN order : file'.items[i] = ToJson(order[i])
           /\ file' = [state |-> "whole", items |-> file'.items]
<1>1. PICK order \in SetToSeqs(Defined) : file' = Whole([i \in DOMAIN order |-> ToJson(order[i])])
  BY DEF SaveWrite
<1> DEFINE items == [i \in DOMAIN order |-> ToJson(order[i])]
<1>2. order \in Seq(Defined) /\ (\A i, j \in DOMAIN order : order[i] = order[j] => i = j)
      /\ (\A n \in Defined : \E i \in DOMAIN order : order[i] = n)
  BY DefinedFinite, OrderOfSet
<1>3. file'.items = items /\ file' = [state |-> "whole", items |-> items]
  BY <1>1 DEF Whole
<1>4. \A i \in DOMAIN order : ToJson(order[i]) \in Items \union {Malformed}
  BY <1>2, ElementOfSeq, ToJsonProperties
<1>5. DOMAIN order = 1 .. Len(order) /\ Len(order) \in Nat
  BY <1>2
<1>6. items \in Seq(Items \union {Malformed})
  BY <1>4, <1>5, SeqDef
<1> QED BY <1>2, <1>3, <1>6
-----------------------------------------------------------------------------
(* The inductive invariant                                                 *)

LEMMA InitIndInv == ASSUME Init PROVE IndInv
<1>1. Undefined \in [Names -> Entries \union {Absent}] /\ Undefined \in [Names -> Contents \union {Absent}]
  BY DEF Undefined
<1>2. TypeOK
  BY <1>1 DEF Init, TypeOK
<1> QED BY <1>2 DEF Init, IndInv, FileKeeps

LEMMA StartIndInv == ASSUME IndInv, Start PROVE IndInv'
<1>1. params' \in [Names -> Entries \union {Absent}]
  BY LoadedType DEF IndInv, Start
<1>2. TypeOK'
  BY <1>1 DEF IndInv, TypeOK, Start, Missing, Torn
<1> QED BY <1>2 DEF Start, IndInv, FileKeeps, Readable, FileIsWhole, ItemFor

LEMMA ChangeIndInv ==
  ASSUME IndInv, NEW n \in Names, Define(n) \/ Set(n)
  PROVE  IndInv'
<1>1. params' \in [Names -> Entries \union {Absent}]
  <2>1. CASE Define(n)
    <3>1. Parameters \subseteq Entries
      BY DEF Parameters, Entries
    <3> QED BY <2>1, <3>1 DEF Define, IndInv, TypeOK
  <2>2. CASE Set(n)
    <3>1. PICK v \in Values : params' = [params EXCEPT ![n].value = v]
      BY <2>2 DEF Set
    <3>2. params[n] \in Entries
      BY <2>2 DEF Set, MayBeSet, IndInv, TypeOK
    <3>3. [params[n] EXCEPT !.value = v] \in Entries
      BY <3>2 DEF Entries
    <3>4. params' = [params EXCEPT ![n] = [params[n] EXCEPT !.value = v]]
      BY <3>1
    <3> QED BY <3>3, <3>4 DEF IndInv, TypeOK
  <2> QED BY <2>1, <2>2
<1>2. process = "up" /\ UNCHANGED <<process, file, kept>>
  BY DEF Define, Set
<1>3. TypeOK'
  BY <1>1, <1>2 DEF IndInv, TypeOK, Missing, Torn
<1> QED BY <1>2, <1>3 DEF IndInv, FileKeeps, Readable, FileIsWhole, ItemFor

\* The file keeps nothing while it is written, after it was edited, or when a
\* write failed before.
LEMMA OpenIndInv == ASSUME IndInv, SaveOpen PROVE IndInv'
<1>1. TypeOK'
  BY DEF IndInv, TypeOK, SaveOpen, Missing, Torn
<1> QED BY <1>1 DEF SaveOpen, IndInv, FileKeeps

LEMMA FailureIndInv == ASSUME IndInv, WriteFails PROVE IndInv'
<1>1. TypeOK'
  BY DEF IndInv, TypeOK, WriteFails, Missing, Torn
<1> QED BY <1>1 DEF WriteFails, IndInv, FileKeeps, Readable, FileIsWhole, ItemFor

LEMMA EndIndInv == ASSUME IndInv, End PROVE IndInv'
<1>1. TypeOK'
  BY DEF IndInv, TypeOK, End, Missing, Torn, Undefined
<1> QED BY <1>1 DEF End, IndInv, FileKeeps, Readable, FileIsWhole, ItemFor

LEMMA EditIndInv == ASSUME IndInv, Edit PROVE IndInv'
<1>1. file.items \in Seq(Items \union {Malformed})
  BY DEF IndInv, TypeOK, Edit, Missing, Torn
<1>2. PICK i \in DOMAIN file.items : 
        /\ file.items[i] # Malformed
        /\ \E j \in {Malformed, [file.items[i] EXCEPT !.kind = OtherType]} :
             file' = Whole([file.items EXCEPT ![i] = j])
  BY DEF Edit
<1>3. PICK j \in {Malformed, [file.items[i] EXCEPT !.kind = OtherType]} :
        file' = Whole([file.items EXCEPT ![i] = j])
  BY <1>2
<1>4. file.items[i] \in Items
  BY <1>1, <1>2, ElementOfSeq
<1>5. j \in Items \union {Malformed}
  BY <1>4 DEF Items
<1>6. [file.items EXCEPT ![i] = j] \in Seq(Items \union {Malformed})
  BY <1>1, <1>5, ExceptSeq
<1>7. file' \in [state : {"whole"}, items : Seq(Items \union {Malformed})]
  BY <1>3, <1>6 DEF Whole
<1>8. TypeOK'
  BY <1>7 DEF IndInv, TypeOK, Edit, Undefined
<1> QED BY <1>8 DEF Edit, IndInv, FileKeeps

LEMMA WriteIndInv == ASSUME IndInv, SaveWrite PROVE IndInv'
<1>1. PICK order \in Seq(Defined) :
        /\ \A i, j \in DOMAIN order : order[i] = order[j] => i = j
        /\ \A n \in Defined : \E i \in DOMAIN order : order[i] = n
        /\ file'.state = "whole"
        /\ file'.items \in Seq(Items \union {Malformed})
        /\ DOMAIN file'.items = DOMAIN order
        /\ \A i \in DOMAIN order : file'.items[i] = ToJson(order[i])
        /\ file' = [state |-> "whole", items |-> file'.items]
  BY SavedFile DEF IndInv
<1>2. kept' = [n \in Names |-> Content(params[n])] /\ process = "saving" /\ process' = "up" /\ params' = params
  BY DEF SaveWrite
<1>3. \A n \in Names \ Defined : kept'[n] = Absent
  BY <1>2 DEF Defined, Content
<1>4. \A n \in Defined : kept'[n] = Content(params[n]) /\ kept'[n] \in Contents /\ kept'[n] # Absent
  BY <1>2, ToJsonProperties DEF IndInv, Defined
<1>5. TypeOK'
  <2>1. kept' \in [Names -> Contents \union {Absent}]
    BY <1>2, <1>3, <1>4
  <2>2. file' \in [state : {"whole"}, items : Seq(Items \union {Malformed})]
    BY <1>1
  <2> QED BY <1>2, <2>1, <2>2 DEF IndInv, TypeOK
<1>6. ASSUME Readable' PROVE FileIsWhole'
  <2>1. \A i \in DOMAIN order : order[i] \in Defined /\ order[i] \in Names
    BY ElementOfSeq DEF Defined
  <2>2. ASSUME NEW i \in DOMAIN order
        PROVE  /\ file'.items[i] # Malformed /\ file'.items[i].name = order[i]
               /\ kept'[order[i]] # Absent
               /\ file'.items[i] = ItemFor(order[i])'
    <3> DEFINE n == order[i]
    <3>1. n \in Defined /\ n \in Names
      BY <2>1
    <3>2. kept'[n] = Content(params[n]) /\ kept'[n] # Absent
      BY <1>4, <3>1
    <3>3. ~Lost(Content(params[n]))
      BY <1>6, <3>1, <3>2 DEF Readable
    <3>4. file'.items[i] = ToJson(n)
      BY <1>1
    <3> HIDE DEF n
    <3>5. ToJson(n) \in Items
          /\ ToJson(n) = [name |-> n, kind |-> kept'[n].kind, datum |-> kept'[n].datum, flags |-> kept'[n].flags]
      BY <3>1, <3>2, <3>3, ToJsonProperties DEF IndInv
    <3>6. ToJson(n).name = n /\ ToJson(n) # Malformed /\ ToJson(n) = ItemFor(n)'
      BY <3>5, ConfigurationAssumption DEF ItemFor
    <3> QED BY <3>2, <3>4, <3>6 DEF n
  <2>3. \A n \in Names : kept'[n] # Absent => \E i \in DOMAIN order : order[i] = n
    BY <1>1, <1>3
  <2> QED BY <1>1, <2>2, <2>3 DEF FileIsWhole
<1> QED BY <1>5, <1>6 DEF IndInv, FileKeeps

LEMMA NextIndInv == ASSUME IndInv, [Next]_vars PROVE IndInv'
<1>1. CASE UNCHANGED vars
  BY <1>1 DEF vars, IndInv, TypeOK, FileKeeps, Readable, FileIsWhole, ItemFor, Missing, Torn, Undefined
<1> QED BY <1>1, StartIndInv, ChangeIndInv, OpenIndInv, WriteIndInv, FailureIndInv, EndIndInv, EditIndInv
        DEF Next

LEMMA IndInvHolds == Spec => []IndInv
BY InitIndInv, NextIndInv, PTL DEF Spec

\* Parameters, the file and what was saved have their types in every state,
\* however the lives of the process, failures and edits follow one another.
THEOREM ConfigurationTypeCorrect == Spec => []TypeOK
<1>1. IndInv => TypeOK
  BY DEF IndInv
<1> QED BY <1>1, IndInvHolds, PTL
-----------------------------------------------------------------------------
(* A restart                                                               *)

LEMMA FileGivesContent ==
  ASSUME TypeOK, FileIsWhole, Readable, kept # Absent, NEW n \in Names,
         NEW garbage \in [Names -> Kinds \union {NoKind}]
  PROVE  Content(Loaded(garbage)[n]) = kept[n]
<1> DEFINE at == ItemsOf(n, file.items)
<1>1. file.items \in Seq(Items \union {Malformed})
  BY DEF TypeOK, Missing, Torn, FileIsWhole
<1>2. at = {i \in DOMAIN file.items : file.items[i].name = n}
  <2>1. \A i \in DOMAIN file.items : \A j \in 1 .. i : j \in DOMAIN file.items
    BY <1>1
  <2> QED BY <2>1 DEF ItemsOf, Accepted, FileIsWhole
<1>3. Loaded(garbage)[n] = IF at = {} THEN Absent ELSE FromJson(file.items[Max(at)], garbage[n])
  BY DEF Loaded, Applied, FileIsWhole
<1>4. CASE kept[n] = Absent
  <2>1. at = {}
    BY <1>2, <1>4 DEF FileIsWhole
  <2> QED BY <1>3, <1>4, <2>1 DEF Content
<1>5. CASE kept[n] # Absent
  <2>1. at # {}
    BY <1>2, <1>5 DEF FileIsWhole
  <2>2. Max(at) \in at /\ file.items[Max(at)] \in Items /\ file.items[Max(at)].name = n
    BY <1>1, <2>1, ItemsOfFile
  <2> DEFINE item == file.items[Max(at)]
  <2>3. item = ItemFor(n)
    BY <1>2, <2>2 DEF FileIsWhole
  <2>4. kept[n] \in Contents /\ kept[n].kind \in Kinds
    BY <1>5 DEF TypeOK, Contents, Readable, Lost
  <2>5. item.kind = kept[n].kind /\ item.datum = kept[n].datum /\ item.flags = kept[n].flags
    BY <2>3 DEF ItemFor
  <2> HIDE DEF item
  <2>6. Content(FromJson(item, garbage[n]))
          = [kind |-> kept[n].kind, datum |-> kept[n].datum, flags |-> kept[n].flags]
    <3>1. item \in Items
      BY <2>2 DEF item
    <3> QED BY <2>4, <2>5, <3>1, FromJsonProperties
  <2>7. kept[n] = [kind |-> kept[n].kind, datum |-> kept[n].datum, flags |-> kept[n].flags]
    BY <2>4 DEF Contents
  <2> QED BY <1>3, <2>1, <2>6, <2>7 DEF item
<1> QED BY <1>4, <1>5

LEMMA MissingGivesContent ==
  ASSUME file = Missing, kept = Undefined, NEW n \in Names, NEW garbage
  PROVE  Content(Loaded(garbage)[n]) = kept[n]
BY DEF Missing, Loaded, Undefined, Content

\* Whatever is saved, in whatever order of the hash map, is what the next
\* start finds, unless a save was cut short or failed, the file was edited, or
\* a parameter has no type or is a float that is not finite.
THEOREM RestartFindsWhatWasSaved == Spec => RestartKeepsParameters
<1>1. ASSUME IndInv, [Next]_vars
      PROVE  [process = "down" /\ process' = "up" /\ kept # Absent /\ Readable =>
                \A n \in Names : Content(params'[n]) = kept[n]]_vars
  <2> SUFFICES ASSUME process = "down", process' = "up", kept # Absent, Readable, NEW n \in Names
               PROVE  Content(params'[n]) = kept[n]
    OBVIOUS
  <2>1. Start
    BY <1>1 DEF Next, vars, Define, Set, SaveOpen, SaveWrite, WriteFails, End, Edit
  <2>2. PICK garbage \in [Names -> Kinds \union {NoKind}] : params' = Loaded(garbage)
    BY <2>1 DEF Start
  <2> QED BY <1>1, <2>2, FileGivesContent, MissingGivesContent DEF IndInv, FileKeeps
<1> QED BY <1>1, IndInvHolds, PTL DEF Spec, RestartKeepsParameters
=============================================================================
