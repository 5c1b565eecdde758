----------------------------- MODULE DataQuery -----------------------------
(***************************************************************************)
(* A caller puts a query together (go/lynkapi/data_query.go), and oneobject*)
(* answers it or deletes by its filter.  The builders make a tree of       *)
(* filters: a condition has a field and a value, a list has inner filters  *)
(* and no field.  What is built is read differently by Query, which takes  *)
(* the condition of the root or else those right below it, and by Delete,  *)
(* which takes those below the root only and of them the primary key.      *)
(***************************************************************************)
EXTENDS DataTable

CONSTANTS
  Tables,     \* contents of the table: sequences of rows
  LowerName,  \* lowerName of the names that occur
  Values,     \* values of conditions; strings, and these:
  Number,     \* a number
  Null,       \* nil
  Unfit,      \* a value structpb has no form for
  MaxChanges, \* bound of the model: conditions, settings and changes of the spec
  NoFilter

\* Filters as deep as the builders make them: a condition, a condition with
\* more to it, and the filter of a query.
FilterOver(inner) == [field : DOMAIN LowerName, value : Values \cup {Null}, inner : inner]
Filters == FilterOver(Seq(FilterOver(Seq(FilterOver({<<>>})))))

ASSUME QueryAssumption ==
  /\ \A t \in Tables : t \in Seq(ToSet(t))
  /\ NoName \in DOMAIN LowerName /\ LowerName[NoName] = NoName
  /\ NoFilter \notin Filters

VARIABLES
  rows,    \* the table
  filter,  \* the filter of the query; NoFilter for nil
  handle,  \* the filter the caller holds: <<>> the root, <<i>> the i-th below
  limit, sort,
  asked,   \* the conditions the caller added, in order, and whether each
           \* went into a condition or into an empty filter
  answer   \* the answer to the last call

queryVars == <<fields, indexes, rows, filter, handle, limit, sort, asked, answer>>

Cond(field, value) == [field |-> field, value |-> value, inner |-> <<>>]
EmptyFilter        == Cond(NoName, Null)

QueryTypeOK ==
  /\ TableTypeOK
  /\ rows \in Seq(ToSet(rows))
  /\ filter \in Filters \cup {NoFilter}
  /\ handle = <<>> \/ (filter # NoFilter /\ \E i \in DOMAIN filter.inner : handle = <<i>>)
  /\ limit \in Int /\ sort \in {"none", "asc", "desc"}
  /\ asked \in Seq([field : DOMAIN LowerName, value : Values \cup {Null}, within : BOOLEAN])
  /\ answer \in [op : {"none", "query", "delete"}, status : {"ok", "error", "notfound"},
                 rows : Seq(Nat)]

NoAnswer == [op |-> "none", status |-> "ok", rows |-> <<>>]

QueryInit ==
  /\ TableInit
  /\ rows \in Tables
  /\ filter \in {NoFilter, EmptyFilter}
  /\ handle = <<>>
  /\ limit = 0 /\ sort = "none"
  /\ asked = <<>>
  /\ answer = NoAnswer

\* What the bound counts.
Changes ==
  Len(asked) + Cardinality({n \in DOMAIN fields :
                              n > Len(BaseFields) \/ fields[n] # BaseFields[n]})
    + Len(indexes) + (IF limit \in {0, 10} THEN 0 ELSE 1) + (IF sort = "none" THEN 0 ELSE 1)

-----------------------------------------------------------------------------
\* The builders.

\* A mutated form of Grown: the second condition takes the place of the first.
GrownOver(fr) == IF filter = NoFilter \/ filter.inner = <<>> THEN fr
                 ELSE [filter EXCEPT !.inner = Append(@, fr)]

\* addFilter: the second condition makes a list of itself and what was there.
Grown(fr) ==
  IF filter = NoFilter THEN fr
  ELSE IF filter.inner = <<>> THEN [EmptyFilter EXCEPT !.inner = <<filter, fr>>]
  ELSE [filter EXCEPT !.inner = Append(@, fr)]

\* AddFilter, and AddFuncFilter, whose mark nothing reads; a value that does
\* not fit is dropped in silence.  A filter held moves below a new root.
AddFilter(field, value) ==
  /\ Changes < MaxChanges
  /\ value # Unfit
  /\ filter' = Grown(Cond(field, value))
  /\ handle' = IF filter # NoFilter /\ filter.inner = <<>> THEN <<1>> ELSE handle
  /\ asked' = Append(asked, [field |-> field, value |-> value,
                             within |-> filter = EmptyFilter])
  /\ answer' = NoAnswer
  /\ UNCHANGED <<fields, indexes, rows, limit, sort>>

\* The first filter of the field, the root first.
SearchFilter(field) ==
  LET n == SelectInSeq(filter.inner, LAMBDA fr : fr.field = field) IN
  /\ filter # NoFilter
  /\ handle' = IF filter.field = field THEN <<>> ELSE IF n # 0 THEN <<n>> ELSE handle
  /\ UNCHANGED <<fields, indexes, rows, filter, limit, sort, asked, answer>>

\* And on the filter held.
And(field, value) ==
  /\ filter # NoFilter
  /\ Changes < MaxChanges
  /\ value \notin {Unfit, Null}
  /\ filter' =
       IF handle = <<>> THEN [filter EXCEPT !.inner = Append(@, Cond(field, value))]
       ELSE [filter EXCEPT !.inner[handle[1]].inner = Append(@, Cond(field, value))]
  /\ asked' = Append(asked, [field |-> field, value |-> value,
                             within |-> handle # <<>> \/ filter.field # NoName])
  /\ answer' = NoAnswer
  /\ UNCHANGED <<fields, indexes, rows, handle, limit, sort>>

SetLimit(n) ==
  /\ Changes < MaxChanges
  /\ limit' = n
  /\ answer' = NoAnswer
  /\ UNCHANGED <<fields, indexes, rows, filter, handle, sort, asked>>

SetSort(type) ==
  /\ Changes < MaxChanges
  /\ sort' = type
  /\ answer' = NoAnswer
  /\ UNCHANGED <<fields, indexes, rows, filter, handle, limit, asked>>

\* The caller's changes of the spec it was answered with.
ChangeSpec ==
  /\ Changes < MaxChanges
  /\ \/ \E tag \in DOMAIN ToLower, type \in FieldTypes : SetField(tag, type)
     \/ \E tags \in UNION {[1..n -> DOMAIN ToLower] : n \in 1..2}, type \in IndexTypes :
          SetIndex(tags, type)
  /\ answer' = NoAnswer
  /\ UNCHANGED <<rows, filter, handle, limit, sort, asked>>

-----------------------------------------------------------------------------
\* The store's own fields are the first ones of the spec.
StoreField(name) ==
  SelectLastInSeq(SubSeq(fields, 1, Len(BaseFields)),
                  LAMBDA f : f.tag = LowerName[name])

Conditions ==
  IF filter = NoFilter THEN <<>>
  ELSE IF filter.field # NoName THEN <<filter>> ELSE filter.inner

\* The conditions on a string field that count: the last one of each field.
Counting ==
  LET strings == {n \in DOMAIN Conditions :
                    fields[StoreField(Conditions[n].field)].type = "string"} IN
  {n \in strings : \A m \in strings :
     StoreField(Conditions[m].field) = StoreField(Conditions[n].field) => m <= n}

\* Text is compared with text: a field of another Go type never matches.
Matches(row, cond) ==
  LET k == StoreField(cond.field) IN
  BaseFields[k].type = "string" /\ row[k] = cond.value

FieldsKnown == \A n \in DOMAIN Conditions : StoreField(Conditions[n].field) # 0

Found ==
  IF ~FieldsKnown THEN {}
  ELSE {i \in DOMAIN rows : \A n \in Counting : Matches(rows[i], Conditions[n])}

\* A mutated form of Page: the last rows are taken.
PageFromEnd(n) == {i \in Found : Cardinality({j \in Found : j >= i}) <= n}

\* The rows are cut at the limit in the order of the table, then sorted.
Page(n) == {i \in Found : Cardinality({j \in Found : j <= i}) <= n}

Order(row) == LET k == CHOOSE k \in DOMAIN BaseFields : BaseFields[k].type = "int"
              IN  IF row[k] > 0 THEN row[k] ELSE 0

\* Rows of equal order come in any order when sorted.
Sorted(s) ==
  \A a, b \in DOMAIN s : a < b =>
    CASE sort = "none" -> s[a] < s[b]
      [] sort = "asc"  -> Order(rows[s[a]]) <= Order(rows[s[b]])
      [] sort = "desc" -> Order(rows[s[a]]) >= Order(rows[s[b]])

\* A limit of zero is set to ten in the caller's query.
Query ==
  LET n == IF limit = 0 THEN 10 ELSE limit IN
  /\ limit' = n
  /\ IF ~FieldsKnown
     THEN answer' = [op |-> "query", status |-> "error", rows |-> <<>>]
     ELSE \E s \in SetToSeqs(Page(n)) :
            /\ Sorted(s)
            /\ answer' = [op |-> "query", rows |-> s,
                          status |-> IF s = <<>> THEN "notfound" ELSE "ok"]
  /\ UNCHANGED <<fields, indexes, rows, filter, handle, sort, asked>>

-----------------------------------------------------------------------------
\* Delete.

Pk == CHOOSE k \in DOMAIN BaseFields : BaseFields[k].pk

\* The conditions on the primary key, by its tag and not in lower case.
KeyConditions ==
  IF filter = NoFilter THEN {}
  ELSE {n \in DOMAIN filter.inner : filter.inner[n].field = BaseFields[Pk].tag}

StringValue(value) == IF value \in {Number, Null} THEN "" ELSE value

\* A mutated form of DeleteDenied: a filter without the key passes.
DeleteDeniedNot ==
  \/ filter = NoFilter \/ filter.inner = <<>>
  \/ \E n \in KeyConditions : fields[Pk].type # "string" \/ StringValue(filter.inner[n].value) = ""

DeleteDenied ==
  \/ filter = NoFilter \/ filter.inner = <<>>
  \/ \E n \in KeyConditions : fields[Pk].type # "string" \/ StringValue(filter.inner[n].value) = ""
  \/ KeyConditions = {}

\* The key asked for last.
KeyAsked ==
  IF KeyConditions = {} THEN ""
  ELSE StringValue(filter.inner[CHOOSE n \in KeyConditions : \A m \in KeyConditions : m <= n].value)

\* The first row of the key goes; no other condition is looked at.
Delete ==
  LET n == SelectInSeq(rows, LAMBDA row : row[Pk] = KeyAsked) IN
  /\ IF DeleteDenied
     THEN /\ answer' = [op |-> "delete", status |-> "error", rows |-> <<>>]
          /\ UNCHANGED rows
     ELSE /\ answer' = [op |-> "delete", status |-> "ok", rows |-> <<>>]
          /\ rows' = IF n = 0 THEN rows ELSE RemoveAt(rows, n)
  /\ UNCHANGED <<fields, indexes, filter, handle, limit, sort, asked>>

QueryNext ==
  \/ \E field \in DOMAIN LowerName, value \in Values :
       AddFilter(field, value) \/ And(field, value)
  \/ \E field \in DOMAIN LowerName : SearchFilter(field)
  \/ \E n \in {-1, 1} : SetLimit(n)
  \/ \E type \in {"asc", "desc"} : SetSort(type)
  \/ ChangeSpec
  \/ Query \/ Delete

QuerySpec == QueryInit /\ [][QueryNext]_queryVars

-----------------------------------------------------------------------------
\* The text fields the conditions of the caller are about, one each.
AskedPlainly ==
  /\ \A n \in DOMAIN asked :
       /\ ~asked[n].within
       /\ StoreField(asked[n].field) # 0
       /\ BaseFields[StoreField(asked[n].field)].type = "string"
       /\ fields[StoreField(asked[n].field)].type = "string"
  /\ \A m, n \in DOMAIN asked :
       StoreField(asked[m].field) = StoreField(asked[n].field) => m = n

\* The rows that have the value of every condition.
Asked == {i \in DOMAIN rows : \A n \in DOMAIN asked :
            rows[i][StoreField(asked[n].field)] = asked[n].value}

\* However a query was put together, by AddFilter or by And on an empty
\* filter: its answer has rows that meet every condition, none twice, as many
\* as there are or the limit allows, and misses none that comes before one it
\* has in the table.
ConditionsHold ==
  answer.op = "query" /\ AskedPlainly =>
    LET got == ToSet(answer.rows) IN
    /\ got \subseteq Asked
    /\ Len(answer.rows) = Cardinality(got)
    /\ Cardinality(got) = IF limit < 0 THEN 0
                          ELSE IF limit < Cardinality(Asked) THEN limit
                          ELSE Cardinality(Asked)
    /\ \A i \in got, j \in Asked : j < i => j \in got

\* A condition on a field that was not asked for never brings rows back,
\* wherever in the filter it ends up.
ConditionNarrows ==
  [][\A n \in DOMAIN asked' :
       (/\ n > Len(asked)
        /\ \A m \in DOMAIN asked :
             LowerName[asked[m].field] # LowerName[asked'[n].field])
       => Found' \subseteq Found]_queryVars

\* A call removes one row at most and keeps the others in order, and a row
\* goes only if the caller asked for its key, never for want of a condition.
DeleteNeedsKey ==
  [][rows' # rows =>
       \E i \in DOMAIN rows :
         /\ rows' = RemoveAt(rows, i)
         /\ \E n \in DOMAIN asked :
              asked[n].field = BaseFields[Pk].tag /\ asked[n].value = rows[i][Pk]]_queryVars
=============================================================================
