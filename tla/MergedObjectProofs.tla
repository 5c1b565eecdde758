------------------------- MODULE MergedObjectProofs -------------------------
(***************************************************************************)
(* Theorems about an object changed by any sequence of merges, for every   *)
(* spec of its type and every set of sources.                              *)
(***************************************************************************)
EXTENDS MergedObject, RowMergeProofs

\* A reached field passed its checks: the first error is not reached.
LEMMA ReachedPasses ==
  ASSUME NEW mt, NEW dst, NEW src, NEW i \in Reached(mt, dst, src)
  PROVE  /\ i \in FieldIdx
         /\ ~Denied(mt, Fields[i], dst[i], src[i])
<1>1. i \in Visited(src) /\ \A e \in Errors(mt, dst, src) : i < e
  BY DEF Reached
<1>2. i \in FieldIdx /\ i \in Int
  BY <1>1 DEF Visited, FieldIdx
<1>3. i \notin Errors(mt, dst, src)
  BY <1>1, <1>2
<1> QED
  BY <1>1, <1>2, <1>3 DEF Errors

\* Whatever is merged into the object, of any merge type and with any error
\* half-way, the object stays a value of its Go type.
THEOREM TypeCorrect == Spec => []TypeOK
<1>1. Init => TypeOK
  BY ZeroIsRow DEF Init, TypeOK, Outcomes, MergeTypes
<1>2. TypeOK /\ [Next]_vars => TypeOK'
  <2> SUFFICES ASSUME TypeOK, [Next]_vars PROVE TypeOK'
    OBVIOUS
  <2>1. ASSUME NEW mt \in MergeTypes, NEW src \in Sources, DataMerge(mt, src)
        PROVE  TypeOK'
    <3>1. IsRow(Merge(mt, obj, src).row)
      BY SourcesAssumption, MergeIsRow DEF TypeOK
    <3>2. /\ Merge(mt, obj, src).ok \in BOOLEAN
          /\ Merge(mt, obj, src).chg \in BOOLEAN
      BY DEF Merge
    <3> QED
      BY <2>1, <3>1, <3>2 DEF DataMerge, TypeOK, Outcomes, IsRow
  <2>2. CASE UNCHANGED vars
    BY <2>2 DEF vars, TypeOK, Outcomes, IsRow
  <2> QED
    BY <2>1, <2>2 DEF Next
<1> QED
  BY <1>1, <1>2, PTL DEF Spec

\* No merge empties a string, a number or an array the object has: a partial
\* update (go/oneobject's Upsert) keeps what it does not name.
THEOREM KeepsWhatItHas == Spec => NeverCleared
<1> DEFINE Kept == \A i \in FieldIdx :
                     Fields[i].kind \in ScalarKinds \cup {"array"} /\ obj[i] # Zero(Fields[i])
                       => obj'[i] # Zero(Fields[i])
<1>1. [Next]_vars => [Kept]_vars
  <2> SUFFICES ASSUME NEW mt \in MergeTypes, NEW src \in Sources, DataMerge(mt, src)
               PROVE  Kept
    BY DEF Next
  <2> SUFFICES ASSUME NEW i \in FieldIdx,
                      Fields[i].kind \in ScalarKinds \cup {"array"},
                      obj[i] # Zero(Fields[i])
               PROVE  Merge(mt, obj, src).row[i] # Zero(Fields[i])
    BY DEF DataMerge
  <2>1. Merged(Fields[i], obj[i], src[i]) # Zero(Fields[i])
    BY MergedNotCleared
  <2>2. Merge(mt, obj, src).row[i] =
          IF i \in Reached(mt, obj, src)
          THEN Merged(Fields[i], obj[i], src[i]) ELSE obj[i]
    BY MergeAt
  <2> QED
    BY <2>1, <2>2
<1> QED
  BY <1>1, PTL DEF Spec, NeverCleared

WithinLimits(f, v) ==
  f.kind \in ScalarKinds /\ v # Zero(f) =>
    IF f.kind = "string"
    THEN f.enums = {} \/ v \in f.enums \cup {DefValue(f)}
    ELSE MinValue(f) <= v /\ v <= MaxValue(f)

\* A field that passed its checks is within its limits when it was before.
LEMMA MergedWithinLimits ==
  ASSUME NEW i \in FieldIdx, NEW mt, NEW dst, NEW src,
         ~Denied(mt, Fields[i], dst, src), WithinLimits(Fields[i], dst)
  PROVE  WithinLimits(Fields[i], Merged(Fields[i], dst, src))
<1> DEFINE f == Fields[i]
<1> SUFFICES ASSUME f.kind \in ScalarKinds
             PROVE  WithinLimits(f, Merged(f, dst, src))
  BY DEF WithinLimits
<1>1. CASE src = Absent
  BY <1>1 DEF Merged
<1>2. CASE src # Absent /\ src # Zero(f)
  <2>1. Allowed(f, src)
    BY <1>2 DEF Denied
  <2>2. Merged(f, dst, src) = src
    BY <1>2 DEF Merged, ScalarKinds, NumberKinds
  <2> QED
    BY <2>1, <2>2 DEF Allowed, WithinLimits
<1>3. CASE src # Absent /\ src = Zero(f)
  <2>1. Merged(f, dst, src) = IF dst = Zero(f) /\ HasDefault(f) THEN DefValue(f) ELSE dst
    BY <1>3 DEF Merged, ScalarKinds, NumberKinds
  <2>2. HasDefault(f) => WithinLimits(f, DefValue(f))
    BY DEF HasDefault, Allowed, WithinLimits, ScalarKinds
  <2> QED
    BY <2>1, <2>2
<1> QED
  BY <1>1, <1>2, <1>3

\* No sequence of merges, failed ones included, leaves a number outside its
\* limits or a string that its enums do not have.
THEOREM StaysWithinLimits == Spec => []LimitsHold
<1>0. LimitsHold <=> \A i \in FieldIdx : WithinLimits(Fields[i], obj[i])
  BY DEF LimitsHold, WithinLimits
<1>1. Init => LimitsHold
  BY DEF Init, LimitsHold, ZeroRow
<1>2. LimitsHold /\ [Next]_vars => LimitsHold'
  <2> SUFFICES ASSUME LimitsHold, [Next]_vars PROVE LimitsHold'
    OBVIOUS
  <2>1. ASSUME NEW mt \in MergeTypes, NEW src \in Sources, DataMerge(mt, src)
        PROVE  LimitsHold'
    <3>1. ASSUME NEW i \in FieldIdx
          PROVE  WithinLimits(Fields[i], Merge(mt, obj, src).row[i])
      <4>1. Merge(mt, obj, src).row[i] =
              IF i \in Reached(mt, obj, src)
              THEN Merged(Fields[i], obj[i], src[i]) ELSE obj[i]
        BY MergeAt
      <4>2. WithinLimits(Fields[i], obj[i])
        BY <1>0
      <4>3. i \in Reached(mt, obj, src) =>
              WithinLimits(Fields[i], Merged(Fields[i], obj[i], src[i]))
        BY <4>2, ReachedPasses, MergedWithinLimits
      <4> QED
        BY <4>1, <4>2, <4>3
    <3>2. \A i \in FieldIdx : WithinLimits(Fields[i], obj'[i])
      BY <2>1, <3>1 DEF DataMerge
    <3> QED
      BY <3>2 DEF LimitsHold, WithinLimits
  <2>2. CASE UNCHANGED vars
    BY <2>2 DEF vars, LimitsHold
  <2> QED
    BY <2>1, <2>2 DEF Next
<1> QED
  BY <1>1, <1>2, PTL DEF Spec

\* In every state of the object, every merge can be sent twice and leaves what
\* it left the first time.
THEOREM ReplayIsHarmless == Spec => []ReplayChangesNothing
<1>1. ReplayChangesNothing
  BY MergeAgain DEF ReplayChangesNothing
<1> QED
  BY <1>1, PTL

\* A field of a create that passed its check has a value if it must have one.
LEMMA RequiredHasValue ==
  ASSUME NEW i \in FieldIdx, NEW dst, NEW src,
         Fields[i].kind \in ScalarKinds, "create" \in Fields[i].required,
         ~Denied("create", Fields[i], dst, src)
  PROVE  Merged(Fields[i], dst, src) # Zero(Fields[i])
<1> DEFINE f == Fields[i]
<1>1. RequiredDenied("create", f)
  BY DEF RequiredDenied
<1>2. src # Absent
  BY <1>1 DEF Denied
<1>3. Merged(f, dst, src) = IF src # Zero(f) THEN src
                            ELSE IF dst = Zero(f) /\ HasDefault(f) THEN DefValue(f) ELSE dst
  BY <1>2 DEF Merged, ScalarKinds, NumberKinds
<1>4. src = Zero(f) => dst = Zero(f) /\ HasDefault(f)
  BY <1>1, <1>2 DEF Denied
<1>5. HasDefault(f) => DefValue(f) # Zero(f)
  BY DEF HasDefault
<1> QED
  BY <1>3, <1>4, <1>5

\* A create that succeeds leaves no required string or number empty, whatever
\* the object had before and whatever the source leaves out.
THEOREM CreateFillsRequired == Spec => RequiredFilled
<1> DEFINE Filled == outcome'.mt = "create" /\ outcome'.ok =>
             \A i \in FieldIdx :
               /\ Fields[i].kind \in ScalarKinds
               /\ "create" \in Fields[i].required
               /\ Fields[i].parent = 0
               => obj'[i] # Zero(Fields[i])
<1>1. [Next]_vars => [Filled]_vars
  <2> SUFFICES ASSUME NEW mt \in MergeTypes, NEW src \in Sources, DataMerge(mt, src),
                      outcome'.mt = "create", outcome'.ok,
                      NEW i \in FieldIdx, Fields[i].kind \in ScalarKinds,
                      "create" \in Fields[i].required, Fields[i].parent = 0
               PROVE  obj'[i] # Zero(Fields[i])
    BY DEF Next
  <2>1. mt = "create" /\ Merge("create", obj, src).ok /\ obj' = Merge("create", obj, src).row
    BY DEF DataMerge
  <2>2. i \in Reached("create", obj, src)
    <3>1. i \in Visited(src)
      BY DEF Visited
    <3> QED
      BY <2>1, <3>1, SuccessReaches
  <2>3. ~Denied("create", Fields[i], obj[i], src[i])
    BY <2>2, ReachedPasses
  <2>4. Merge("create", obj, src).row[i] = Merged(Fields[i], obj[i], src[i])
    BY <2>2, MergeAt
  <2> QED
    BY <2>1, <2>3, <2>4, RequiredHasValue
<1> QED
  BY <1>1, PTL DEF Spec, RequiredFilled

\* A field whose merge is not reported stays as it is, unless it is a pointer.
LEMMA UnreportedStays ==
  ASSUME NEW i \in FieldIdx, NEW dst, NEW src,
         Fields[i].kind # "struct", ~Reported(Fields[i], dst, src)
  PROVE  Merged(Fields[i], dst, src) = dst
<1> DEFINE f == Fields[i]
<1>0. f.kind \in Kinds
  BY FieldsAssumption
<1>1. CASE src = Absent
  BY <1>1 DEF Merged
<1>2. CASE src # Absent /\ f.kind \in ScalarKinds \cup {"bool", "map"}
  BY <1>2 DEF Reported, Merged, ScalarKinds, NumberKinds
<1>3. CASE src # Absent /\ f.kind = "array"
  BY <1>3 DEF Reported, Merged, ScalarKinds, NumberKinds
<1>4. CASE src # Absent /\ f.kind \in {"bytes", "structs", "keyedmap"}
  BY <1>4 DEF Merged, ScalarKinds, NumberKinds
<1> QED
  BY <1>0, <1>1, <1>2, <1>3, <1>4 DEF Kinds, SliceKinds, MapKinds

\* A call that reports no change has changed nothing but nil pointers, even
\* when it ends with an error half-way: a caller that saves the object only
\* when a change is reported misses none.
THEOREM NoSilentChange == Spec => ChangeReported
<1> DEFINE Kept == ~outcome'.chg =>
             \A i \in FieldIdx :
               Fields[i].kind # "struct" => obj'[i] = obj[i]
<1>1. [Next]_vars => [Kept]_vars
  <2> SUFFICES ASSUME NEW mt \in MergeTypes, NEW src \in Sources, DataMerge(mt, src),
                      ~outcome'.chg, NEW i \in FieldIdx, Fields[i].kind # "struct"
               PROVE  obj'[i] = obj[i]
    BY DEF Next
  <2>1. ~Merge(mt, obj, src).chg /\ obj' = Merge(mt, obj, src).row
    BY DEF DataMerge
  <2>2. i \in Reached(mt, obj, src) => ~Reported(Fields[i], obj[i], src[i])
    BY <2>1 DEF Merge
  <2>3. Merge(mt, obj, src).row[i] =
          IF i \in Reached(mt, obj, src)
          THEN Merged(Fields[i], obj[i], src[i]) ELSE obj[i]
    BY MergeAt
  <2> QED
    BY <2>1, <2>2, <2>3, UnreportedStays
<1> QED
  BY <1>1, PTL DEF Spec, ChangeReported
=============================================================================
