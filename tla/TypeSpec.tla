------------------------------ MODULE TypeSpec ------------------------------
(***************************************************************************)
(* How a Go struct type becomes a spec (go/lynkapi/type.go), and the       *)
(* registry of specs.  parseSpecByStructType walks the fields of a type    *)
(* and goes down into the structs it meets; the kinds it is inside of are  *)
(* kept in parseSet, so that a type that contains itself ends the descent. *)
(* The calls of parseStruct that have not returned are a stack, with the   *)
(* innermost at its head.                                                  *)
(*                                                                         *)
(* A Go type is written as the sequence of its constructors:               *)
(* <<"string">>, <<"slice", "ptr", "Host">>, <<"map", "string", "int">>.   *)
(***************************************************************************)
EXTENDS Integers, FiniteSets, SequencesExt

CONSTANTS
  Procs,       \* goroutines that register types
  GoTypes,     \* the struct types
  Roots,       \* those that are registered
  KindOf,      \* KindOf[t]: package path and name; "" for a type without a name
  AnyKind,     \* the kind of structpb.Value
  Namespaces,  \* the names NamespaceIdentifier matches
  Programs,    \* Programs: for each type its fields, as reflect lists them
  MaxDepth,    \* maxDepth; 10 in the code
  AsFloat,     \* AsFloat[n]: the float64 next to the integer n
  NoType, NoArg

Kinds == {KindOf[t] : t \in GoTypes}

\* Basic types by the name a spec gives them.
Scalar ==
  [string |-> "string", int |-> "int", uint |-> "uint", byte |-> "uint",
   float |-> "float", bool |-> "bool"]

\* A field declaration: it has a name, a type, and tags that are lists.
IsDecl(fd) ==
  /\ fd.name # ""
  /\ fd.go \in Seq(ToSet(fd.go)) /\ fd.go # <<>>
  /\ DOMAIN fd.attrs \subseteq Nat
  /\ \A a \in Range(fd.attrs) : a = [name |-> a.name, arg |-> a.arg]

ASSUME TypesAssumption ==
  /\ Roots \subseteq GoTypes
  /\ ({NoType, "ptr", "slice", "map"} \cup DOMAIN Scalar) \cap GoTypes = {}
  /\ \A program \in Programs : \A t \in GoTypes :
       /\ Len(program[t]) \in Nat
       /\ DOMAIN program[t] = 1..Len(program[t])
       /\ \A i \in DOMAIN program[t] : IsDecl(program[t][i])

MapKeys == {"string", "int", "uint", "byte"}
Numbers == {"int", "uint", "float"}

\* The attributes: 1 stands alone, 2 takes an argument.
AttrClass ==
  [primary_key |-> 1, unique_key |-> 1, unique_keys |-> 2, string_text |-> 1,
   create_required |-> 1, update_required |-> 1, rows |-> 1, data_rows |-> 1,
   rand_hex |-> 2, object_id |-> 2]

\* The only two of these names of which one begins with the other.
HasPrefix(name, attr) ==
  name = attr \/ (name = "unique_keys" /\ attr = "unique_key")

\* The styles and the values each of them takes ("cw-5" is written 5).
StyleValues ==
  [textarea_rows |-> 1..100, list_max_len |-> 1..(2^20), list_width |-> 1..24,
   text_type |-> {"html", "md"},
   unit |-> {"unix-seconds", "unix-microseconds", "unix-milliseconds"}]

VARIABLES
  visible,   \* visible[t]: the fields of t
  specs,     \* specs[k]: the registered type of kind k and its fields
  pc,        \* where each goroutine is
  stack,     \* stack[p]: the calls of parseStruct it is in
  parseSet,  \* parseSet[p]: the kinds in progress
  object     \* object[p]: the type of the object ParseStructValid gave last

vars == <<visible, specs, pc, stack, parseSet, object>>

-----------------------------------------------------------------------------
\* The tags of a field declaration fd.

TagName(fd) == IF fd.json \in {"", "omitempty"} THEN fd.name ELSE fd.json

\* A part of a number tag: nothing, when it does not parse or is zero, or else
\* the float64 next to it.
TagValue(part, type) ==
  IF part \in Int /\ part # 0 /\ (type = "uint" => part > 0)
  THEN AsFloat[part] ELSE NoArg

\* The least value, the default and the greatest: three numbers in order, or
\* no limits at all.
Limits(fd, type) ==
  LET v == [i \in DOMAIN fd.limits |-> TagValue(fd.limits[i], type)] IN
  IF /\ type \in Numbers /\ Len(fd.limits) = 3 /\ NoArg \notin ToSet(v)
     /\ v[1] <= v[2] /\ v[2] <= v[3]
  THEN v ELSE <<>>

\* A single number for a field that is one (not a map of them): the code reads
\* the second part of it.
LimitsPanic(fd, type) ==
  Len(type) = 1 /\ type[1] \in Numbers /\ Len(fd.limits) = 1

\* fieldSpecFuncAttrMatcher: of the attributes with an argument it takes two.
FuncAttrMatcher(a) ==
  a.arg # NoArg /\ a.name \in {"rand_hex", "object_id"} /\ a.arg \in 8..32

\* A mutated form of KnownAttr: any attribute of the table may stand alone.
KnownAttrAny(a) == (a.arg = NoArg /\ a.name \in DOMAIN AttrClass) \/ FuncAttrMatcher(a)

KnownAttr(a) ==
  \/ a.arg = NoArg /\ a.name \in DOMAIN AttrClass /\ AttrClass[a.name] = 1
  \/ FuncAttrMatcher(a)

\* The attributes that are accepted, each at its place in the tag.
KnownAttrs(attrs) ==
  [i \in {j \in DOMAIN attrs : KnownAttr(attrs[j])} |-> attrs[i]]

\* The last accepted value of each style.
Styles(fd) ==
  LET kept == SelectSeq(fd.styles, LAMBDA s : /\ s[1] \in DOMAIN StyleValues
                                              /\ s[2] \in StyleValues[s[1]])
  IN  [k \in {s[1] : s \in ToSet(kept)} |->
         kept[SelectLastInSeq(kept, LAMBDA s : s[1] = k)][2]]

-----------------------------------------------------------------------------
\* The type of a field.

\* What parseStruct goes down into: a struct, a pointer to one, a slice of
\* either, a map of pointers.
Inner(go) ==
  LET front == Front(go) IN
  IF /\ Last(go) \in GoTypes
     /\ front \in {<<>>, <<"ptr">>, <<"slice">>, <<"slice", "ptr">>}
                    \cup {<<"map", k, "ptr">> : k \in MapKeys}
  THEN Last(go) ELSE NoType

\* The depth parseStruct is called with for the inner type of a field.
InnerDepth(go, depth) == IF Head(go) = "slice" THEN depth + 2 ELSE depth + 1

\* field.Type; <<>> for a type that has none, which leaves the field out.
SpecType(go, depth) ==
  LET of == IF Inner(go) # NoType THEN "struct"
            ELSE IF Last(go) \in DOMAIN Scalar THEN Scalar[Last(go)] ELSE ""
  IN CASE Len(go) = 1 /\ of # "" -> <<of>>
       [] Head(go) = "ptr" /\ of = "struct" -> <<"struct">>
       [] go = <<"slice", "byte">> -> <<"bytes">>
       [] /\ Head(go) = "slice" /\ go # <<"slice", "byte">> /\ of # ""
          /\ (Len(go) = 2 \/ of = "struct")
          /\ depth + 1 <= MaxDepth -> <<"array", of>>
       [] /\ Head(go) = "map" /\ Len(go) = 3 /\ go[2] \in MapKeys
          /\ of # "" /\ of # "struct" -> <<Scalar[go[2]], of>>
       [] Head(go) = "map" /\ of = "struct" ->
            <<Scalar[go[2]], IF KindOf[Last(go)] = AnyKind THEN "any" ELSE "struct">>
       [] OTHER -> <<>>

\* A field is passed over when it is embedded, unexported or has no type.
Skipped(fd, depth) ==
  fd.embedded \/ ~fd.exported \/ SpecType(fd.go, depth) = <<>>

\* The FieldSpec of fd, before the fields of its inner type are known.
NewField(fd, depth) ==
  LET type == SpecType(fd.go, depth)
      text == type = <<"string">> IN
  [name  |-> fd.name, tag |-> TagName(fd), type |-> type,
   kind  |-> IF Inner(fd.go) = NoType THEN "" ELSE KindOf[Inner(fd.go)],
   enums |-> IF text THEN fd.enums ELSE {},
   dict  |-> IF text THEN fd.dict \cap Namespaces ELSE {},
   opts  |-> IF Len(type) = 1 THEN Limits(fd, type[1]) ELSE <<>>,
   attrs |-> KnownAttrs(fd.attrs),
   styles |-> Styles(fd), fields |-> <<>>]

-----------------------------------------------------------------------------
\* What the readers of a spec ask of a field.

HasAttr(f, attr) ==
  /\ attr \in DOMAIN AttrClass
  /\ \E a \in Range(f.attrs) :
       IF AttrClass[attr] = 1 THEN HasPrefix(a.name, attr)
       ELSE a = [name |-> attr, arg |-> NoArg]

\* PrimaryKeys: the key of a table of rows, when there is exactly one, and its
\* unique fields.
KeyFields(f, attr) == {i \in DOMAIN f.fields : HasAttr(f.fields[i], attr)}
PrimaryKey(f) ==
  IF /\ f.type = <<"array", "struct">>
     /\ Cardinality(KeyFields(f, "primary_key")) = 1
  THEN f.fields[CHOOSE i \in KeyFields(f, "primary_key") : TRUE].tag ELSE ""
UniqueKeys(f) ==
  IF PrimaryKey(f) = "" THEN {}
  ELSE {f.fields[i].tag :
          i \in KeyFields(f, "primary_key") \cup KeyFields(f, "unique_key")}

-----------------------------------------------------------------------------
\* parseStruct.

BaseSpec(t) ==
  [name |-> t, tag |-> "", type |-> <<"struct">>, kind |-> KindOf[t],
   enums |-> {}, dict |-> {}, opts |-> <<>>, attrs |-> <<>>,
   styles |-> [k \in {} |-> 0], fields |-> <<>>]

Frame(field, t, depth) ==
  [field |-> field, type |-> t, next |-> 1, depth |-> depth]

\* The innermost call of p, and the field it is at.
Top(p)     == Head(stack[p])
Fd(p)      == visible[Top(p).type][Top(p).next]
AtField(p) == pc[p] = "parse" /\ Top(p).next <= Len(visible[Top(p).type])

\* Top(p) with the field it is at done, and fields added to its own.
Advanced(p, fields) ==
  [Top(p) EXCEPT !.next = @ + 1, !.field.fields = @ \o fields]

\* A mutated form of Enterable: the kinds in progress are forgotten.
EnterableAlways(p, t) == TRUE

\* A kind is entered when it has no name or is not in progress.
Enterable(p, t) == KindOf[t] = "" \/ KindOf[t] \notin parseSet[p]

Init ==
  /\ visible \in Programs
  /\ specs = [k \in {} |-> NoType]
  /\ pc = [p \in Procs |-> "idle"]
  /\ stack = [p \in Procs |-> <<>>]
  /\ parseSet = [p \in Procs |-> {}]
  /\ object = [p \in Procs |-> NoType]

\* RegisterSpec of a struct or of a pointer to one; of anything else it is an
\* error that changes nothing.
Register(p, t) ==
  /\ pc[p] = "idle"
  /\ pc' = [pc EXCEPT ![p] = "parse"]
  /\ stack' = [stack EXCEPT ![p] = <<Frame(BaseSpec(t), t, 0)>>]
  /\ parseSet' = [parseSet EXCEPT ![p] = {KindOf[t]} \ {""}]
  /\ UNCHANGED <<visible, specs, object>>

SkipField(p) ==
  /\ AtField(p)
  /\ Skipped(Fd(p), Top(p).depth)
  /\ stack' = [stack EXCEPT ![p] = <<Advanced(p, <<>>)>> \o Tail(@)]
  /\ UNCHANGED <<visible, specs, pc, parseSet, object>>

\* A field without an inner type, or of a kind in progress: it is added as it is.
LeafField(p) ==
  /\ AtField(p)
  /\ ~Skipped(Fd(p), Top(p).depth)
  /\ Inner(Fd(p).go) # NoType => ~Enterable(p, Inner(Fd(p).go))
  /\ ~LimitsPanic(Fd(p), SpecType(Fd(p).go, Top(p).depth))
  /\ stack' = [stack EXCEPT ![p] =
                 <<Advanced(p, <<NewField(Fd(p), Top(p).depth)>>)>> \o Tail(@)]
  /\ UNCHANGED <<visible, specs, pc, parseSet, object>>

\* The panic of a single limit unwinds all calls; nothing is registered.
ParsePanics(p) ==
  /\ AtField(p)
  /\ ~Skipped(Fd(p), Top(p).depth)
  /\ Inner(Fd(p).go) = NoType
  /\ LimitsPanic(Fd(p), SpecType(Fd(p).go, Top(p).depth))
  /\ pc' = [pc EXCEPT ![p] = "panicked"]
  /\ stack' = [stack EXCEPT ![p] = <<>>]
  /\ parseSet' = [parseSet EXCEPT ![p] = {}]
  /\ UNCHANGED <<visible, specs, object>>

\* A struct below is gone down into, its kind in progress until it returns.
EnterStruct(p) ==
  LET t     == Inner(Fd(p).go)
      depth == Top(p).depth IN
  /\ AtField(p)
  /\ ~Skipped(Fd(p), depth)
  /\ t # NoType
  /\ Enterable(p, t)
  /\ stack' = [stack EXCEPT ![p] =
       <<Frame(NewField(Fd(p), depth), t, InnerDepth(Fd(p).go, depth))>> \o @]
  /\ parseSet' = [parseSet EXCEPT ![p] = @ \cup ({KindOf[t]} \ {""})]
  /\ UNCHANGED <<visible, specs, pc, object>>

\* A mutated form of LeaveStruct: the kind stays in progress.
LeaveStructHeld(p) ==
  /\ pc[p] = "parse"
  /\ Top(p).next > Len(visible[Top(p).type])
  /\ Len(stack[p]) > 1
  /\ LET up == stack[p][2] IN
     stack' = [stack EXCEPT ![p] =
       <<[up EXCEPT !.next = @ + 1, !.field.fields = Append(@, Top(p).field)]>>
         \o Tail(Tail(@))]
  /\ UNCHANGED <<visible, specs, pc, parseSet, object>>

\* parseStruct returns to the struct that has the field, which is added to it.
LeaveStruct(p) ==
  /\ pc[p] = "parse"
  /\ Top(p).next > Len(visible[Top(p).type])
  /\ Len(stack[p]) > 1
  /\ LET up == stack[p][2] IN
     stack' = [stack EXCEPT ![p] =
       <<[up EXCEPT !.next = @ + 1, !.field.fields = Append(@, Top(p).field)]>>
         \o Tail(Tail(@))]
  /\ parseSet' = [parseSet EXCEPT ![p] = @ \ {Top(p).field.kind}]
  /\ UNCHANGED <<visible, specs, pc, object>>

-----------------------------------------------------------------------------
\* The registry of specs.

\* A mutated form of StoreSpec: the last type of a kind wins.
StoreSpecOver(p) ==
  LET spec == Top(p).field IN
  /\ pc[p] = "parse"
  /\ Top(p).next > Len(visible[Top(p).type])
  /\ Len(stack[p]) = 1
  /\ specs' = [k \in DOMAIN specs \cup {spec.kind} |->
                 IF k = spec.kind THEN [type |-> Top(p).type, fields |-> spec.fields]
                 ELSE specs[k]]
  /\ pc' = [pc EXCEPT ![p] = "idle"]
  /\ stack' = [stack EXCEPT ![p] = <<>>]
  /\ parseSet' = [parseSet EXCEPT ![p] = {}]
  /\ UNCHANGED <<visible, object>>

\* The parsed spec is put away under the mutex; the first type of a kind stays.
StoreSpec(p) ==
  LET spec == Top(p).field IN
  /\ pc[p] = "parse"
  /\ Top(p).next > Len(visible[Top(p).type])
  /\ Len(stack[p]) = 1
  /\ specs' = [k \in DOMAIN specs \cup {spec.kind} |->
                 IF k \in DOMAIN specs THEN specs[k]
                 ELSE [type |-> Top(p).type, fields |-> spec.fields]]
  /\ pc' = [pc EXCEPT ![p] = "idle"]
  /\ stack' = [stack EXCEPT ![p] = <<>>]
  /\ parseSet' = [parseSet EXCEPT ![p] = {}]
  /\ UNCHANGED <<visible, object>>

\* An object of the type registered for kind k, or an error when there is none
\* or the data does not fit it.
ParseStructValid(p, k) ==
  /\ pc[p] = "idle"
  /\ k \in DOMAIN specs
  /\ object' = [object EXCEPT ![p] = specs[k].type]
  /\ UNCHANGED <<visible, specs, pc, stack, parseSet>>

Next ==
  \E p \in Procs :
    \/ \E t \in Roots : Register(p, t)
    \/ SkipField(p) \/ LeafField(p) \/ ParsePanics(p)
    \/ EnterStruct(p) \/ LeaveStruct(p)
    \/ StoreSpec(p)
    \/ \E k \in Kinds : ParseStructValid(p, k)

Spec == Init /\ [][Next]_vars

-----------------------------------------------------------------------------
\* What may be relied on.

FieldsAt(t, depth) ==
  {i \in DOMAIN visible[t] : ~Skipped(visible[t][i], depth)}

\* Those declared with one of the given attributes, without an argument.
Declared(t, depth, names) ==
  {i \in FieldsAt(t, depth) :
     \E a \in names : [name |-> a, arg |-> NoArg] \in ToSet(visible[t][i].attrs)}

\* Every variable holds a value of its kind, and a goroutine is inside of
\* calls of parseStruct just while it parses.
TypeOK ==
  /\ DOMAIN specs \subseteq Kinds
  /\ \A k \in DOMAIN specs : specs[k].type \in GoTypes
  /\ pc \in [Procs -> {"idle", "parse", "panicked"}]
  /\ parseSet \in [Procs -> SUBSET (Kinds \ {""})]
  /\ object \in [Procs -> GoTypes \cup {NoType}]
  /\ \A p \in Procs :
       /\ stack[p] = <<>> <=> pc[p] # "parse"
       /\ \A fr \in ToSet(stack[p]) :
            /\ fr.type \in GoTypes
            /\ fr.next \in 1..(Len(visible[fr.type]) + 1)

\* The parse of a type that contains itself ends: no kind is entered again
\* inside of itself.
NoKindTwice ==
  \A p \in Procs : \A i, j \in DOMAIN stack[p] :
    i # j /\ stack[p][i].field.kind = stack[p][j].field.kind
      => stack[p][i].field.kind = ""

\* The fields of a struct that is gone through again, or is in progress.
FieldsFound ==
  \A p \in Procs : \A d \in DOMAIN stack[p] :
    LET fr   == stack[p][d]
        path == {stack[p][e].field.kind : e \in d..Len(stack[p])} \ {""} IN
    \A i \in FieldsAt(fr.type, fr.depth) \cap (1..(fr.next - 1)) :
      LET fd == visible[fr.type][i]
          t  == Inner(fd.go) IN
      \E f \in ToSet(fr.field.fields) :
        /\ f.name = fd.name
        /\ t # NoType =>
             Len(f.fields) =
               IF KindOf[t] \in path THEN 0
               ELSE Cardinality(FieldsAt(t, InnerDepth(fd.go, fr.depth)))

\* The key of a table whose rows declare one, unless it is inside of its rows.
KeyFound ==
  \A p \in Procs : \A d \in DOMAIN stack[p] :
    LET fr == stack[p][d] IN
    \A i \in FieldsAt(fr.type, fr.depth) \cap (1..(fr.next - 1)) :
      LET fd   == visible[fr.type][i]
          t    == Inner(fd.go)
          keys == Declared(t, fr.depth + 2, {"primary_key"}) IN
      (/\ t # NoType /\ fd.go[1] = "slice" /\ Cardinality(keys) = 1
       /\ \A e \in d..Len(stack[p]) : stack[p][e].field.kind # KindOf[t])
        => \E f \in ToSet(fr.field.fields) :
             /\ f.name = fd.name
             /\ \A j \in keys : PrimaryKey(f) = TagName(visible[t][j])
             /\ PrimaryKey(f) \in UniqueKeys(f)

\* A struct that was gone through before, next to the field or deeper in an
\* earlier one, gives all its fields again; only inside of itself it gives
\* none.  So the spec of a type does not depend on the order of its fields.  A
\* table whose rows declare one primary key is known by it wherever it occurs,
\* but not inside of its own rows, where the store cannot tell rows apart.
NothingLost == FieldsFound /\ KeyFound

\* The rows of a table with a key are told apart by exactly the fields that are
\* declared to be its key or unique, wherever the table occurs: attributes are
\* looked for by how they begin, and a field with unique_keys, which begins with
\* unique_key and does nothing, must not take part.
UniqueAsDeclared ==
  \A p \in Procs : \A d \in DOMAIN stack[p] :
    LET fr == stack[p][d] IN
    \A i \in FieldsAt(fr.type, fr.depth) \cap (1..(fr.next - 1)) :
      LET fd    == visible[fr.type][i]
          t     == Inner(fd.go)
          depth == fr.depth + 2 IN
      (/\ t # NoType /\ fd.go[1] = "slice"
       /\ Cardinality(Declared(t, depth, {"primary_key"})) = 1
       /\ \A e \in d..Len(stack[p]) : stack[p][e].field.kind # KindOf[t])
        => \E f \in ToSet(fr.field.fields) :
             /\ f.name = fd.name
             /\ UniqueKeys(f) =
                  {TagName(visible[t][j]) :
                     j \in Declared(t, depth, {"primary_key", "unique_key"})}

\* All objects of one kind are of one type, whoever made them and when, also
\* when two types of that kind are registered.
ObjectsOfAKind ==
  \A p, q \in Procs :
    (object[p] # NoType /\ object[q] # NoType /\ KindOf[object[p]] = KindOf[object[q]])
      => object[p] = object[q]
=============================================================================
