---------------------------- MODULE Configuration ----------------------------
(***************************************************************************)
(* ParameterManager holds the parameters, ConfigManager keeps them in      *)
(* parameters.json over the lives of the process: load reads the file at   *)
(* start, save rewrites it in place, main calls sync on shutdown.  A crash *)
(* may come at any time, a write may fail without notice, and the file may *)
(* be edited while the process is down.                                    *)
(*                                                                         *)
(* A value has a field for each parameter type; the type of the parameter  *)
(* says which one counts.  An item of the file with a type that is none of *)
(* them leaves the type of its parameter uninitialised.                    *)
(*                                                                         *)
(* In the service only load defines parameters so far: a SetParameter      *)
(* request goes to the camera SDK and not to the ParameterManager.         *)
(***************************************************************************)
EXTENDS Naturals, Sequences, FiniteSets, SequencesExt

CONSTANTS
  Names,      \* parameter names
  Kinds,      \* parameter types
  NoKind,     \* what else an uninitialised type may be
  OtherType,  \* a type in the file that is none of Kinds
  Data,       \* what a field of a value holds
  Default,    \* what a field holds that was never set
  Unwritable, \* types and data that JSON cannot express: floats that are not finite
  Flags,      \* is_readonly and is_available: the combinations in use
  Absent,     \* a name that is not defined
  Malformed   \* an item of the file that from_json rejects

Values     == [Kinds -> Data]
Parameters == [kind : Kinds, value : Values, flags : Flags]

\* Parameters as load may leave them, items of the file, and what a client may
\* read of a parameter.
Entries  == [kind : Kinds \union {NoKind}, value : Values, flags : Flags]
Items    == [name : Names, kind : Kinds \union {OtherType}, datum : Data, flags : Flags]
Contents == [kind : Kinds \union {NoKind}, datum : Data, flags : Flags]

ASSUME ConfigurationAssumption ==
  /\ IsFiniteSet(Names)
  /\ NoKind \notin Kinds /\ OtherType \notin Kinds
  /\ Default \in Data
  /\ Flags \subseteq [readonly : BOOLEAN, available : BOOLEAN]
  /\ Absent \notin Entries \union Contents
  /\ Malformed \notin Items

Undefined == [n \in Names |-> Absent]

VARIABLES
  process,  \* whether the process runs, and the step of save it is at
  params,   \* params_
  file,     \* parameters.json: missing, torn, or its items
  kept      \* history: the parameters last saved, while the file is as saved

vars == <<process, params, file, kept>>

Missing  == [state |-> "missing"]
Torn     == [state |-> "torn"]
Whole(s) == [state |-> "whole", items |-> s]

Defined == {n \in Names : params[n] # Absent}

\* What a client may read of a parameter.
Content(p) ==
  IF p = Absent THEN Absent
  ELSE [kind |-> p.kind, flags |-> p.flags,
        datum |-> IF p.kind = NoKind THEN Default ELSE p.value[p.kind]]
-----------------------------------------------------------------------------
(* Conversion                                                              *)

\* Without a type no value is written, and a float that is not finite is
\* written as null: from_json rejects both.
Lost(c) == c.kind = NoKind \/ <<c.kind, c.datum>> \in Unwritable

\* Only the field that counts is written.
ToJson(n) ==
  LET c == Content(params[n])
  IN  IF Lost(c) THEN Malformed
      ELSE [name |-> n, kind |-> c.kind, datum |-> c.datum, flags |-> c.flags]

FromJsonDefaultFlags(j, garbage) ==  \* mutant
  [kind  |-> IF j.kind = OtherType THEN garbage ELSE j.kind,
   value |-> [k \in Kinds |-> j.datum],
   flags |-> CHOOSE f \in Flags : TRUE]

\* The value of an item of another type is not looked at; garbage is the type
\* its parameter then has.
FromJson(j, garbage) ==
  [kind  |-> IF j.kind = OtherType THEN garbage ELSE j.kind,
   value |-> [k \in Kinds |-> IF k = j.kind THEN j.datum ELSE Default],
   flags |-> j.flags]

\* Items are applied one by one; an exception leaves those before in place.
Accepted(items) == {i \in DOMAIN items : \A j \in 1 .. i : items[j] # Malformed}

ItemsOf(n, items) == {i \in Accepted(items) : items[i].name = n}

\* Of several items with one name the last stays.
Applied(items, garbage) ==
  [n \in Names |-> IF ItemsOf(n, items) = {} THEN Absent
                   ELSE FromJson(items[Max(ItemsOf(n, items))], garbage[n])]

\* Without a file, or with one that is not JSON, nothing is defined.
Loaded(garbage) == IF file.state = "whole" THEN Applied(file.items, garbage) ELSE Undefined
-----------------------------------------------------------------------------
Init ==
  /\ process = "down"
  /\ params  = Undefined
  /\ file    = Missing
  /\ kept    = Undefined

\* load("parameters.json"); main goes on whatever it returns.
Start ==
  /\ process = "down"
  /\ process' = "up"
  /\ \E garbage \in [Names -> Kinds \union {NoKind}] : params' = Loaded(garbage)
  /\ UNCHANGED <<file, kept>>

Define(n) ==
  /\ process = "up"
  /\ \E p \in Parameters : params' = [params EXCEPT ![n] = p]
  /\ UNCHANGED <<process, file, kept>>

MayBeSet(n) == params[n] # Absent /\ ~params[n].flags.readonly /\ params[n].flags.available

\* The whole value is replaced, whichever of its fields was meant.
Set(n) ==
  /\ process = "up"
  /\ MayBeSet(n)
  /\ \E v \in Values : params' = [params EXCEPT ![n].value = v]
  /\ UNCHANGED <<process, file, kept>>

SaveOpenAppending ==  \* mutant
  /\ process = "up"
  /\ process' = "saving"
  /\ kept'    = Absent
  /\ UNCHANGED <<params, file>>

\* Opening the stream truncates the file; when it cannot be opened save
\* returns false.
SaveOpen ==
  /\ process = "up"
  /\ process' = "saving"
  /\ file'    = Torn
  /\ kept'    = Absent
  /\ UNCHANGED params

\* The items in the order of the hash map.
SaveWrite ==
  /\ process = "saving"
  /\ process' = "up"
  /\ \E order \in SetToSeqs(Defined) :
       file' = Whole([i \in DOMAIN order |-> ToJson(order[i])])
  /\ kept' = [n \in Names |-> Content(params[n])]
  /\ UNCHANGED params

\* The stream's state is not looked at: save returns true all the same.
WriteFails ==
  /\ process = "saving"
  /\ process' = "up"
  /\ UNCHANGED <<params, file, kept>>

\* The process ends, cleanly or not.
End ==
  /\ process # "down"
  /\ process' = "down"
  /\ params'  = Undefined
  /\ UNCHANGED <<file, kept>>

\* The file is edited: an item gets a type or loses what it must have.
Edit ==
  /\ process = "down" /\ file.state = "whole"
  /\ \E i \in DOMAIN file.items :
       /\ file.items[i] # Malformed
       /\ \E j \in {Malformed, [file.items[i] EXCEPT !.kind = OtherType]} :
            file' = Whole([file.items EXCEPT ![i] = j])
  /\ kept' = Absent
  /\ UNCHANGED <<process, params>>

Next ==
  \/ Start
  \/ \E n \in Names : Define(n) \/ Set(n)
  \/ SaveOpen \/ SaveWrite \/ WriteFails
  \/ End
  \/ Edit

Spec == Init /\ [][Next]_vars
-----------------------------------------------------------------------------
(* Properties                                                              *)

\* The types; a save in progress has truncated the file.
TypeOK ==
  /\ process \in {"down", "up", "saving"}
  /\ params  \in [Names -> Entries \union {Absent}]
  /\ file    \in {Missing, Torn} \union [state : {"whole"}, items : Seq(Items \union {Malformed})]
  /\ kept    \in [Names -> Contents \union {Absent}] \union {Absent}
  /\ process = "saving" => file = Torn
  /\ process = "down" => params = Undefined

\* The parameters saved last can all be read back.
Readable == \A n \in Names : kept[n] # Absent => ~Lost(kept[n])

\* A start finds every parameter as it was when it was last saved, with its
\* flags and the field of its value that counts, whatever lives came between.
\* Only a crash or a failed write during a save, an edit, and a parameter
\* without a type or with a float that is not finite lose some: in the file
\* such a parameter hides those that come after it.
RestartKeepsParameters ==
  [][process = "down" /\ process' = "up" /\ kept # Absent /\ Readable =>
       \A n \in Names : Content(params'[n]) = kept[n]]_vars
-----------------------------------------------------------------------------
(* The inductive invariant                                                 *)

\* The file has one item for each parameter that was saved, with what was
\* saved of it, and nothing that stops a load.
ItemFor(n) ==
  [name |-> n, kind |-> kept[n].kind, datum |-> kept[n].datum, flags |-> kept[n].flags]

FileIsWhole ==
  /\ file.state = "whole"
  /\ \A i \in DOMAIN file.items : file.items[i] # Malformed
  /\ \A i \in DOMAIN file.items :
       LET n == file.items[i].name
       IN  kept[n] # Absent /\ file.items[i] = ItemFor(n)
  /\ \A i, j \in DOMAIN file.items : file.items[i].name = file.items[j].name => i = j
  /\ \A n \in Names : kept[n] # Absent => \E i \in DOMAIN file.items : file.items[i].name = n

FileKeeps ==
  kept # Absent /\ Readable => (file = Missing /\ kept = Undefined) \/ FileIsWhole

IndInv == TypeOK /\ FileKeeps
==============================================================================
