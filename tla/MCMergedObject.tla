--------------------------- MODULE MCMergedObject ---------------------------
(***************************************************************************)
(* A spec with a field of every kind: scalars with enums, limits, defaults *)
(* and required attributes around a struct pointer, then the containers.   *)
(***************************************************************************)
EXTENDS MergedObject

LeastInt == -9

FieldSpec(kind) ==
  [kind |-> kind, enums |-> {}, opts |-> <<>>, required |-> {}, parent |-> 0]

MCFields ==
  << [FieldSpec("string") EXCEPT !.enums = {"a"}, !.required = {"create"}],
     [FieldSpec("int") EXCEPT
        !.opts = [min_value |-> 2, def_value |-> 3, max_value |-> 3],
        !.required = {"create"}],
     FieldSpec("struct"),
     [FieldSpec("uint") EXCEPT !.required = {"update"}, !.parent = 3],
     FieldSpec("float"),
     FieldSpec("bool"),
     FieldSpec("array"),
     FieldSpec("map"),
     [FieldSpec("string") EXCEPT !.opts = [def_value |-> "d"],
                                 !.required = {"create", "update"}],
     FieldSpec("structs"),
     FieldSpec("keyedmap"),
     FieldSpec("bytes") >>

MCValues ==
  << {"", "a", "x"}, {0, 1, 2, 3, 4}, BOOLEAN, {0, 1}, {-1, 0, 1},
     BOOLEAN, {<<>>, <<1>>, <<2>>}, {{}, {"e"}, {NilEntry}}, {"", "d", "s"},
     {<<>>, <<1>>}, {{}, {"k"}}, {<<>>} >>

\* Two sources that every merge type accepts on a new object: one that leaves
\* out what it can, one that changes all it can.
Sparse ==
  << "a", 0, FALSE, 0, 0, FALSE, <<>>, {}, "", <<>>, {}, Absent >>
Dense ==
  << "a", 2, TRUE, 1, 1, TRUE, <<1>>, {"e"}, "s", <<>>, {"k"}, Absent >>

\* What differs from one of them in one field: that field can fail before and
\* after others that change, or be one that the type of the source lacks.
MCSources ==
  {s \in UNION { {[base EXCEPT ![i] = v] : v \in Values[i] \cup {Absent}} :
                   i \in FieldIdx, base \in {Sparse, Dense} } : NilStructsEmpty(s)}

\* The results of the last call are read by the properties of a step only, so
\* states of one object are explored once.
Object == obj
=============================================================================
