------------------------------ MODULE RowMerge ------------------------------
(***************************************************************************)
(* The merge of one object into another under a type spec: specDataMerge   *)
(* of go/lynkapi/type_data.go, which every write of a table row goes       *)
(* through.  The fields of the spec are visited in declaration order, each *)
(* is checked and then assigned in place, and the first error ends the     *)
(* walk: the fields before it stay merged.                                 *)
(*                                                                         *)
(* An object is a function from the positions of Fields to values.  The    *)
(* fields of a nested struct value stand in the list at their place, those *)
(* of a nested struct pointer name the pointer's position as parent.       *)
(***************************************************************************)
EXTENDS Integers, Sequences, FiniteSets

CONSTANTS
  Fields,    \* the spec: a sequence of FieldSpec records
  Values,    \* Values[i]: the values field i takes
  Absent,    \* the source has no such field
  NilEntry,  \* a map entry whose value is a nil pointer
  Lowest,    \* smallest number of the integer types
  Highest    \* largest number of the number types

FieldIdx == 1..Len(Fields)

NumberKinds == {"int", "uint", "float"}
ScalarKinds == NumberKinds \cup {"string"}
SliceKinds  == {"bytes", "array", "structs"}
MapKinds    == {"map", "keyedmap"}     \* string keys, other keys
Kinds       == ScalarKinds \cup SliceKinds \cup MapKinds \cup {"bool", "struct"}

MergeTypes == {"unspec", "create", "update"}

\* The zero value of a field's Go type; for a struct pointer FALSE is nil.
Zero(f) ==
  CASE f.kind = "string"           -> ""
    [] f.kind \in NumberKinds      -> 0
    [] f.kind \in SliceKinds       -> <<>>
    [] f.kind \in MapKinds         -> {}
    [] f.kind \in {"bool", "struct"} -> FALSE

Opt(f, name, dflt) == IF name \in DOMAIN f.opts THEN f.opts[name] ELSE dflt

\* Without a min_value a float is held above zero: the code starts from
\* math.SmallestNonzeroFloat64, the least float that is greater than zero.
MinValue(f) ==
  Opt(f, "min_value", CASE f.kind = "int"   -> Lowest
                        [] f.kind = "uint"  -> 0
                        [] f.kind = "float" -> 1)
MaxValue(f) == Opt(f, "max_value", Highest)
DefValue(f) == Opt(f, "def_value", Zero(f))

\* A mutated form of Allowed: the upper limit is forgotten.
AllowedAboveMin(f, v) ==
  IF f.kind = "string" THEN f.enums = {} \/ v \in f.enums ELSE v >= MinValue(f)

\* What the checks of a nonzero scalar let pass.
Allowed(f, v) ==
  IF f.kind = "string"
  THEN f.enums = {} \/ v \in f.enums
  ELSE v >= MinValue(f) /\ v <= MaxValue(f)

\* The default is used for a number only within its limits, for a string always.
HasDefault(f) ==
  /\ DefValue(f) # Zero(f)
  /\ f.kind \in NumberKinds => Allowed(f, DefValue(f))

\* A mutated form of RequiredDenied: create is forgotten.
RequiredDeniedOnUpdate(mt, f) == mt = "update" /\ mt \in f.required

RequiredDenied(mt, f) == mt \in {"create", "update"} /\ mt \in f.required

\* The error of one visited field.
Denied(mt, f, dst, src) ==
  \/ src = Absent /\ RequiredDenied(mt, f)
  \/ /\ src # Absent
     /\ \/ /\ f.kind \in ScalarKinds
           /\ IF src # Zero(f) THEN ~Allowed(f, src)
              ELSE /\ ~(dst = Zero(f) /\ HasDefault(f))
                   /\ RequiredDenied(mt, f)
        \/ f.kind = "bytes"
        \/ f.kind = "structs" /\ src # Zero(f)
        \/ f.kind = "map" /\ NilEntry \in src

\* Mutated forms of Merged: an empty source field overwrites; an array is
\* appended to.
MergedOverwriting(f, dst, src) == IF src = Absent THEN dst ELSE src
MergedAppending(f, dst, src) ==
  CASE f.kind = "array" /\ src # Absent -> dst \o src
    [] f.kind # "array" /\ src # Absent -> src
    [] src = Absent -> dst

\* The value of one visited field after it passed its checks.
Merged(f, dst, src) ==
  CASE src = Absent                      -> dst
    [] src # Absent /\ f.kind \in ScalarKinds ->
         IF src # Zero(f) THEN src
         ELSE IF dst = Zero(f) /\ HasDefault(f) THEN DefValue(f) ELSE dst
    [] src # Absent /\ f.kind \in {"bool", "map"} -> src
    [] src # Absent /\ f.kind = "array"  -> IF src # Zero(f) THEN src ELSE dst
    [] src # Absent /\ f.kind = "struct" -> TRUE
    [] src # Absent /\ f.kind \in {"bytes", "structs", "keyedmap"} -> dst

\* A mutated form of Reported: maps are forgotten.
ReportedButMaps(f, dst, src) ==
  src # Absent /\ f.kind \in ScalarKinds \cup {"bool", "array"}
    /\ Merged(f, dst, src) # dst

\* Whether the merge of a visited field reports a change: an array or a map
\* that is assigned counts even when nothing differs, a nil struct pointer
\* that becomes an empty struct does not.
Reported(f, dst, src) ==
  /\ src # Absent
  /\ \/ f.kind \in ScalarKinds \cup {"bool"} /\ Merged(f, dst, src) # dst
     \/ f.kind = "array" /\ src # Zero(f)
     \/ f.kind = "map"

\* The fields of a nil struct pointer of the source are not visited.
Visited(src) ==
  {i \in FieldIdx : Fields[i].parent = 0 \/ src[Fields[i].parent] = TRUE}

Errors(mt, dst, src) ==
  {i \in Visited(src) : Denied(mt, Fields[i], dst[i], src[i])}

\* The fields merged before the first error.
Reached(mt, dst, src) ==
  LET errors == Errors(mt, dst, src)
  IN  {i \in Visited(src) : \A e \in errors : i < e}

Merge(mt, dst, src) ==
  LET reached == Reached(mt, dst, src) IN
  [ row |-> [i \in FieldIdx |-> IF i \in reached
                                THEN Merged(Fields[i], dst[i], src[i])
                                ELSE dst[i]],
    ok  |-> Errors(mt, dst, src) = {},
    chg |-> \E i \in reached : Reported(Fields[i], dst[i], src[i]) ]

ZeroRow == [i \in FieldIdx |-> Zero(Fields[i])]

\* An object: a field below a nil struct pointer has no value.
IsRow(r) ==
  /\ r = [i \in FieldIdx |-> r[i]]
  /\ \A i \in FieldIdx : r[i] \in Values[i]

NilStructsEmpty(r) ==
  \A i \in FieldIdx :
    Fields[i].parent # 0 /\ r[Fields[i].parent] = FALSE => r[i] = Zero(Fields[i])

IsSource(s) ==
  /\ s = [i \in FieldIdx |-> s[i]]
  /\ \A i \in FieldIdx : s[i] \in Values[i] \cup {Absent}

\* The specs that describe a Go struct type.
ASSUME FieldsAssumption ==
  /\ Len(Fields) \in Nat /\ Fields = [i \in FieldIdx |-> Fields[i]]
  /\ \A i \in FieldIdx :
       /\ Fields[i].kind \in Kinds
       /\ Fields[i].required \subseteq {"create", "update"}
       /\ Fields[i].kind \in NumberKinds =>
            \A name \in DOMAIN Fields[i].opts : Fields[i].opts[name] \in Int
       /\ Fields[i].parent \in 0..(i - 1)
       /\ Fields[i].parent # 0 => Fields[Fields[i].parent].kind = "struct"

\* The values cover the zero values and the defaults; Absent is none of them.
ASSUME ValuesAssumption ==
  /\ DOMAIN Values = FieldIdx
  /\ \A i \in FieldIdx :
       /\ Zero(Fields[i]) \in Values[i]
       /\ Fields[i].kind = "struct" => Values[i] = BOOLEAN
       /\ Fields[i].kind \in ScalarKinds => DefValue(Fields[i]) \in Values[i]
       /\ Fields[i].kind \in NumberKinds => Values[i] \subseteq Int
       /\ Absent \notin Values[i]

ASSUME RangeAssumption == Lowest \in Int /\ Highest \in Int /\ Lowest <= Highest
=============================================================================
