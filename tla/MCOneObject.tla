---------------------------- MODULE MCOneObject ----------------------------
(***************************************************************************)
(* Small instances of the store.  Items are rows with a primary key, as in *)
(* the ConfigItem table of the repository's tests; dicts have a generated  *)
(* primary key and a unique key, as lynkapi.DataDict.                      *)
(***************************************************************************)
EXTENDS OneObject, TLC

FieldSpec(kind) ==
  [kind |-> kind, enums |-> {}, opts |-> <<>>, required |-> {}, parent |-> 0]

Limited ==
  [FieldSpec("int") EXCEPT
     !.opts = [min_value |-> 1, def_value |-> 2, max_value |-> 3]]

LeastInt == -9

Input(values) == [i \in FieldIdx |-> values[i]]

-----------------------------------------------------------------------------
\* Items: a key and a number with limits.
ItemFields == <<FieldSpec("string"), Limited>>
ItemValues == <<{"", "k1", "k2"}, {0, 1, 2, 9}>>

ItemInputs ==
  {Input(<<k, n>>) : k \in {"", "k1", "k2"}, n \in {Absent, 1}}
    \cup {Input(<<"k1", 9>>), Input(<<"k1", Mistyped>>),
          Input(<<Absent, 1>>), Input(<<Absent, Absent>>)}

FewItemInputs ==
  {Input(<<"k1", Absent>>), Input(<<"k1", 9>>), Input(<<"k2", 1>>)}

\* Hosts: a generated key, a unique name and a number with limits, so that an
\* upsert that is denied for its number has changed the name already.
HostFields == <<FieldSpec("string"), FieldSpec("string"), Limited>>
HostValues == <<{"", "h1", "h2"}, {"", "a", "b"}, {0, 1, 2, 9}>>

HostInputs ==
  {Input(<<k, "a", Absent>>) : k \in {"h2", "", Absent}}
    \cup {Input(<<"h1", "b", n>>) : n \in {9, Mistyped}}
    \cup {Input(<<"h2", "b", 1>>), Input(<<Mistyped, "a", 1>>),
          Input(<<Absent, Absent, Absent>>)}

-----------------------------------------------------------------------------
\* Dicts: a generated id, a unique name and a switch.
DictFields == <<FieldSpec("string"), FieldSpec("string"), FieldSpec("bool")>>
DictValues == <<{"", "i1", "i2"}, {"", "n1", "n2"}, BOOLEAN>>

\* Requests whose keys are all given and not blank.
KeyedDictInputs ==
  {Input(<<k, n, Absent>>) : k \in {"i1", "i2"}, n \in {"n1", "n2"}}

Symmetry == Permutations(Clients)

\* An answer is read by the properties of the step that gives it only, so
\* states that differ in it are explored once.
Unanswered == <<rows, tables, file, phase, holder, pc, req>>
=============================================================================
