--------------------------- MODULE RowMergeProofs ---------------------------
(***************************************************************************)
(* What the merge of go/lynkapi/type_data.go does to one field and to a    *)
(* whole object, for every spec, every object and every source.            *)
(***************************************************************************)
EXTENDS RowMerge, TLAPS

\* A field keeps a value of its type.
LEMMA MergedInValues ==
  ASSUME NEW i \in FieldIdx,
         NEW dst \in Values[i],
         NEW src \in Values[i] \cup {Absent}
  PROVE  Merged(Fields[i], dst, src) \in Values[i]
<1> DEFINE f == Fields[i]
<1>1. /\ f.kind \in Kinds
      /\ Zero(f) \in Values[i]
      /\ f.kind = "struct" => Values[i] = BOOLEAN
      /\ f.kind \in ScalarKinds => DefValue(f) \in Values[i]
  BY FieldsAssumption, ValuesAssumption
<1>2. CASE src = Absent
  BY <1>2 DEF Merged
<1>3. CASE src # Absent /\ f.kind \in ScalarKinds
  BY <1>1, <1>3 DEF Merged, ScalarKinds, NumberKinds
<1>4. CASE src # Absent /\ f.kind \in {"bool", "map"}
  BY <1>1, <1>4 DEF Merged, ScalarKinds, NumberKinds
<1>5. CASE src # Absent /\ f.kind = "array"
  BY <1>1, <1>5 DEF Merged, ScalarKinds, NumberKinds
<1>6. CASE src # Absent /\ f.kind = "struct"
  BY <1>1, <1>6 DEF Merged, ScalarKinds, NumberKinds
<1>7. CASE src # Absent /\ f.kind \in {"bytes", "structs", "keyedmap"}
  BY <1>1, <1>7 DEF Merged, ScalarKinds, NumberKinds
<1> QED
  BY <1>1, <1>2, <1>3, <1>4, <1>5, <1>6, <1>7 DEF Kinds, SliceKinds, MapKinds

\* Position i of a merged object, in one equation.
LEMMA MergeAt ==
  ASSUME NEW mt, NEW dst, NEW src, NEW i \in FieldIdx
  PROVE  Merge(mt, dst, src).row[i] =
           IF i \in Reached(mt, dst, src)
           THEN Merged(Fields[i], dst[i], src[i]) ELSE dst[i]
  BY DEF Merge

\* The merge of a source into an object is an object again, after any error.
LEMMA MergeIsRow ==
  ASSUME NEW mt, NEW dst, IsRow(dst), NEW src, IsSource(src)
  PROVE  IsRow(Merge(mt, dst, src).row)
<1>1. Merge(mt, dst, src).row
        = [i \in FieldIdx |-> Merge(mt, dst, src).row[i]]
  BY DEF Merge
<1>2. ASSUME NEW i \in FieldIdx
      PROVE  Merge(mt, dst, src).row[i] \in Values[i]
  <2>1. dst[i] \in Values[i] /\ src[i] \in Values[i] \cup {Absent}
    BY DEF IsRow, IsSource
  <2>2. Merged(Fields[i], dst[i], src[i]) \in Values[i]
    BY <2>1, MergedInValues
  <2>3. Merge(mt, dst, src).row[i] =
          IF i \in Reached(mt, dst, src)
          THEN Merged(Fields[i], dst[i], src[i]) ELSE dst[i]
    BY MergeAt
  <2> QED
    BY <2>1, <2>2, <2>3
<1> QED
  BY <1>1, <1>2 DEF IsRow

\* The zero value of the type is an object.
LEMMA ZeroIsRow == IsRow(ZeroRow)
  BY ValuesAssumption DEF IsRow, ZeroRow

\* A merge that succeeds reaches every field it visits.
LEMMA SuccessReaches ==
  ASSUME NEW mt, NEW dst, NEW src, Merge(mt, dst, src).ok
  PROVE  Reached(mt, dst, src) = Visited(src)
<1>1. Errors(mt, dst, src) = {}
  BY DEF Merge
<1> QED
  BY <1>1 DEF Reached

\* A string or number that the object has is never emptied.
LEMMA MergedNotCleared ==
  ASSUME NEW i \in FieldIdx, Fields[i].kind \in ScalarKinds \cup {"array"},
         NEW dst, dst # Zero(Fields[i]), NEW src
  PROVE  Merged(Fields[i], dst, src) # Zero(Fields[i])
  BY DEF Merged, ScalarKinds, NumberKinds

\* Merging the same value into a field again finds nothing to change.
LEMMA MergedAgain ==
  ASSUME NEW i \in FieldIdx, NEW dst, NEW src
  PROVE  LET once == Merged(Fields[i], dst, src)
         IN  Merged(Fields[i], once, src) = once
<1> DEFINE f == Fields[i]
           once == Merged(f, dst, src)
<1>0. f.kind \in Kinds
  BY FieldsAssumption
<1>1. CASE src = Absent
  BY <1>1 DEF Merged
<1>2. CASE src # Absent /\ f.kind \in ScalarKinds
  <2>1. \A d : Merged(f, d, src) =
          IF src # Zero(f) THEN src
          ELSE IF d = Zero(f) /\ HasDefault(f) THEN DefValue(f) ELSE d
    BY <1>2 DEF Merged, ScalarKinds, NumberKinds
  <2>2. HasDefault(f) => DefValue(f) # Zero(f)
    BY DEF HasDefault
  <2> QED
    BY <2>1, <2>2
<1>3. CASE src # Absent /\ f.kind \in {"bool", "map"}
  <2>1. \A d : Merged(f, d, src) = src
    BY <1>3 DEF Merged, ScalarKinds, NumberKinds
  <2> QED
    BY <2>1
<1>4. CASE src # Absent /\ f.kind = "array"
  <2>1. \A d : Merged(f, d, src) = IF src # Zero(f) THEN src ELSE d
    BY <1>4 DEF Merged, ScalarKinds, NumberKinds
  <2> QED
    BY <2>1
<1>5. CASE src # Absent /\ f.kind = "struct"
  <2>1. \A d : Merged(f, d, src) = TRUE
    BY <1>5 DEF Merged, ScalarKinds, NumberKinds
  <2> QED
    BY <2>1
<1>6. CASE src # Absent /\ f.kind \in {"bytes", "structs", "keyedmap"}
  <2>1. \A d : Merged(f, d, src) = d
    BY <1>6 DEF Merged, ScalarKinds, NumberKinds
  <2> QED
    BY <2>1
<1> QED
  BY <1>0, <1>1, <1>2, <1>3, <1>4, <1>5, <1>6 DEF Kinds, SliceKinds, MapKinds

\* A merge sent twice, by a caller that missed the first answer, leaves what
\* it left the first time: the fields it reached find nothing to change, and
\* the field that denied it denies it again.
LEMMA MergeAgain ==
  ASSUME NEW mt, NEW dst, NEW src
  PROVE  LET once == Merge(mt, dst, src).row
         IN  Merge(mt, once, src).row = once
<1> DEFINE once  == Merge(mt, dst, src).row
           twice == Merge(mt, once, src).row
<1>1. ASSUME NEW e \in Errors(mt, dst, src)
      PROVE  e \in Errors(mt, once, src)
  <2>1. e \in Visited(src) /\ e \in FieldIdx /\ ~(e < e)
    BY DEF Errors, Visited, FieldIdx
  <2>2. e \notin Reached(mt, dst, src)
    BY <2>1 DEF Reached
  <2>3. once[e] = dst[e]
    BY <2>1, <2>2, MergeAt
  <2> QED
    BY <2>1, <2>3 DEF Errors
<1>2. Reached(mt, once, src) \subseteq Reached(mt, dst, src)
  BY <1>1 DEF Reached
<1>3. ASSUME NEW i \in FieldIdx
      PROVE  twice[i] = once[i]
  <2>1. twice[i] = IF i \in Reached(mt, once, src)
                   THEN Merged(Fields[i], once[i], src[i]) ELSE once[i]
    BY MergeAt
  <2>2. i \in Reached(mt, dst, src) =>
          once[i] = Merged(Fields[i], dst[i], src[i])
    BY MergeAt
  <2>3. i \in Reached(mt, dst, src) =>
          Merged(Fields[i], once[i], src[i]) = once[i]
    BY <2>2, MergedAgain
  <2> QED
    BY <1>2, <2>1, <2>3
<1>4. /\ once = [i \in FieldIdx |-> once[i]]
      /\ twice = [i \in FieldIdx |-> twice[i]]
  BY DEF Merge
<1> HIDE DEF once, twice
<1>5. twice = once
  BY <1>3, <1>4
<1> QED
  BY <1>5 DEF once, twice
=============================================================================
