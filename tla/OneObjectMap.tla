---------------------------- MODULE OneObjectMap ----------------------------
(***************************************************************************)
(* A file-backed store whose tables have no key but the primary one        *)
(* implements KeyedStore: the rows of a slice, in any order, are the rows  *)
(* of the map, a flush under way is a change applied and not yet answered, *)
(* and a torn file is a save that cannot be read back.                     *)
(***************************************************************************)
EXTENDS OneObject

CONSTANT
  RowsOf,  \* RowsOf[k]: the rows with primary key k
  NoRow

Keys == Values[Pk]

RequestKey(r) == r.in[Pk]

\* The map a content of the tables stands for.
AsMap(content) ==
  [t \in Tables |-> [k \in Keys |->
     LET hits == {n \in 1..Len(content[t]) : content[t][n][Pk] = k}
     IN  IF hits = {} THEN NoRow ELSE content[t][FirstOf(hits)]]]

Stage(c) ==
  CASE pc[c] = "idle" -> "idle"
    [] pc[c] = "lock" -> "called"
    [] pc[c] \in {"open", "write"} -> "applied"

Map == INSTANCE KeyedStore WITH
  KeyOf   <- RequestKey,
  store   <- AsMap(rows),
  saved   <- [readable |-> file.state # "torn", store |-> AsMap(file.rows)],
  running <- (phase = "up"),
  stage   <- [c \in Clients |-> Stage(c)]

\* Every call takes effect at one point, on the row of its key alone, and is
\* answered as the map answers it; a restart brings back the last whole save.
ImplementsMap == Map!Spec
=============================================================================
