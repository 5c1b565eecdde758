---------------------------- MODULE MergedObject ----------------------------
(***************************************************************************)
(* One live object of a Go program, changed only by TypeSpec.DataMerge     *)
(* (go/lynkapi/type.go): it starts as the zero value of its type and takes *)
(* any sequence of merges, of any merge type and from any source, those    *)
(* that fail half-way included.                                            *)
(***************************************************************************)
EXTENDS RowMerge

CONSTANT Sources   \* the objects merged into it

ASSUME SourcesAssumption == \A s \in Sources : IsSource(s)

VARIABLES
  obj,      \* the object
  outcome   \* the merge type and the results of the last call

vars == <<obj, outcome>>

Outcomes == [mt : MergeTypes, ok : BOOLEAN, chg : BOOLEAN]

TypeOK == IsRow(obj) /\ outcome \in Outcomes

Init ==
  /\ obj = ZeroRow
  /\ outcome = [mt |-> "unspec", ok |-> TRUE, chg |-> FALSE]

DataMerge(mt, src) ==
  LET m == Merge(mt, obj, src) IN
  /\ obj' = m.row
  /\ outcome' = [mt |-> mt, ok |-> m.ok, chg |-> m.chg]

Next == \E mt \in MergeTypes, src \in Sources : DataMerge(mt, src)

Spec == Init /\ [][Next]_vars

-----------------------------------------------------------------------------
\* No sequence of merges, failed ones included, leaves a number outside its
\* limits or a nonblank string that is neither enumerated nor the default.
LimitsHold ==
  \A i \in FieldIdx :
    LET f == Fields[i] IN
    f.kind \in ScalarKinds /\ obj[i] # Zero(f) =>
      IF f.kind = "string"
      THEN f.enums = {} \/ obj[i] \in f.enums \cup {DefValue(f)}
      ELSE MinValue(f) <= obj[i] /\ obj[i] <= MaxValue(f)

\* A merge can replace a string, a number or an array of the object, it never
\* empties one: a source that leaves such a field out keeps what the object has.
\* (A map is replaced by an empty one, and a switch turned off, by a source that
\* leaves it out.)
NeverCleared ==
  [][\A i \in FieldIdx :
       Fields[i].kind \in ScalarKinds \cup {"array"} /\ obj[i] # Zero(Fields[i])
         => obj'[i] # Zero(Fields[i])]_vars

\* A create that succeeds on an object that lacks a create_required string or
\* number leaves it with one, unless the field lies below a struct pointer
\* that the source leaves nil.
RequiredFilled ==
  [][outcome'.mt = "create" /\ outcome'.ok =>
       \A i \in FieldIdx :
         /\ Fields[i].kind \in ScalarKinds
         /\ "create" \in Fields[i].required
         /\ Fields[i].parent = 0
         => obj'[i] # Zero(Fields[i])]_vars

\* A merge that was answered can be sent again (a retry after a lost answer):
\* it finds nothing left to change, whether or not it is denied this time.
ReplayChangesNothing ==
  \A mt \in MergeTypes, src \in Sources :
    LET once == Merge(mt, obj, src).row IN Merge(mt, once, src).row = once

\* A call that reports no change made none, except that a nil struct pointer
\* may have become an empty struct.
ChangeReported ==
  [][~outcome'.chg =>
       \A i \in FieldIdx : Fields[i].kind # "struct" => obj'[i] = obj[i]]_vars
=============================================================================
