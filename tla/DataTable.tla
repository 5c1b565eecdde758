----------------------------- MODULE DataTable -----------------------------
(***************************************************************************)
(* The spec of a table (go/lynkapi/data_table.go): its fields and indexes. *)
(* The spec that oneobject answers a query with is the store's own: its    *)
(* first fields are the ones the store itself filters by, so that a type   *)
(* set by the caller is set for the store.                                 *)
(***************************************************************************)
EXTENDS Integers, FiniteSets, SequencesExt

CONSTANTS
  BaseFields,  \* the fields the table was set up with: [name, tag, type, pk]
  Identifiers, \* the names NameIdentifier matches
  ToLower,     \* strings.ToLower of the names that occur
  FieldTypes,  \* FieldSpec_Types
  IndexTypes,  \* tableSpec_Index_Types
  NoField      \* no type of a field

NoName    == ""
FieldSpec == [name : STRING, tag : STRING, type : STRING, pk : BOOLEAN]

\* A field has a tag: the name in the struct, when it has no tag of its own.
ASSUME TableAssumption ==
  /\ BaseFields \in Seq(FieldSpec)
  /\ \A k \in DOMAIN BaseFields : BaseFields[k].tag # NoName
  /\ Identifiers \cup FieldTypes \cup IndexTypes \subseteq STRING
  /\ \A tag \in DOMAIN ToLower : ToLower[tag] \in STRING

VARIABLES
  fields,   \* the fields of the spec
  indexes   \* its indexes: sequences of names, with a type

tableVars == <<fields, indexes>>

\* The first fields are those of the store, but for their types.
TableTypeOK ==
  /\ fields \in Seq(FieldSpec) /\ Len(BaseFields) <= Len(fields)
  /\ \A k \in DOMAIN BaseFields : fields[k] = [BaseFields[k] EXCEPT !.type = fields[k].type]
  /\ indexes \in Seq([fields : Seq(STRING), type : IndexTypes \cup {NoField}])

TableInit == fields = BaseFields /\ indexes = <<>>

\* The first field of that tag or name; 0 for none.
Field(name) == SelectInSeq(fields, LAMBDA f : f.tag = name \/ f.name = name)

\* The tag is looked up as it is and becomes a name in lower case; the type of
\* a field that is there is changed in place.
SetField(tag, type) ==
  /\ tag \in Identifiers /\ type \in FieldTypes
  /\ fields' =
       IF Field(tag) # 0 THEN [fields EXCEPT ![Field(tag)].type = type]
       ELSE Append(fields, [name |-> ToLower[tag], tag |-> tag, type |-> type,
                            pk |-> FALSE])
  /\ UNCHANGED indexes

\* indexFields: the names of the fields, which may be given by tag.
IndexFields(tags) == [i \in DOMAIN tags |-> fields[Field(tags[i])].name]

\* The index of those fields is made, or gets another type if it is a known one.
SetIndex(tags, type) ==
  LET names == IndexFields(tags)
      n     == SelectInSeq(indexes, LAMBDA x : x.fields = names) IN
  /\ tags # <<>>
  /\ \A i \in DOMAIN tags : tags[i] \in Identifiers /\ Field(tags[i]) # 0
  /\ indexes' =
       IF n = 0
       THEN Append(indexes, [fields |-> names,
                             type |-> IF type \in IndexTypes THEN type ELSE NoField])
       ELSE IF type \in IndexTypes THEN [indexes EXCEPT ![n].type = type] ELSE indexes
  /\ UNCHANGED fields
=============================================================================
