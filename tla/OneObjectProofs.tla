-------------------------- MODULE OneObjectProofs --------------------------
(***************************************************************************)
(* Theorems about the table store, for every set of clients, tables,       *)
(* requests and faults and every spec of the rows; the last one is that it *)
(* implements the map of KeyedStore.                                       *)
(***************************************************************************)
EXTENDS OneObjectMap, RowMergeProofs, FiniteSetTheorems, SequenceTheorems,
        WellFoundedInduction

-----------------------------------------------------------------------------
(* The first of some positions. *)

LEMMA FirstExists ==
  ASSUME NEW S, S \subseteq Nat, S # {}
  PROVE  FirstOf(S) \in S /\ \A j \in S : FirstOf(S) <= j
<1> DEFINE R == OpToRel(<, Nat)
<1>1. IsWellFoundedOn(R, Nat)
  BY NatLessThanWellFounded
<1>2. \A x, y \in Nat : <<y, x>> \in R <=> y < x
  BY DEF OpToRel
<1> HIDE DEF R
<1>3. PICK x \in S : \A y \in S : ~(<<y, x>> \in R)
  BY <1>1, WFMin
<1>4. ASSUME NEW y \in S PROVE x <= y
  <2>1. x \in Nat /\ y \in Nat /\ ~(<<y, x>> \in R)
    BY <1>3
  <2>2. ~(y < x)
    BY <1>2, <2>1
  <2> QED
    BY <2>1, <2>2
<1> QED
  BY <1>4 DEF FirstOf

-----------------------------------------------------------------------------
(* Tables: sequences of rows, and what the operations do to them. *)

RowSet == {r \in [FieldIdx -> UNION {Values[i] : i \in FieldIdx}] : IsRow(r)}

LEMMA RowSetIsRow == \A r : r \in RowSet <=> IsRow(r)
<1> SUFFICES ASSUME NEW r, IsRow(r) PROVE r \in RowSet
  BY DEF RowSet
<1>1. r = [i \in FieldIdx |-> r[i]]
  BY DEF IsRow
<1>2. \A i \in FieldIdx : r[i] \in UNION {Values[j] : j \in FieldIdx}
  BY DEF IsRow
<1>3. r \in [FieldIdx -> UNION {Values[i] : i \in FieldIdx}]
  BY <1>1, <1>2
<1> QED
  BY <1>3 DEF RowSet

LEMMA TableIsSeq == \A s : IsTable(s) <=> s \in Seq(RowSet)
<1> TAKE s
<1>1. ASSUME IsTable(s) PROVE s \in Seq(RowSet)
  <2>1. s \in [1..Len(s) -> RowSet] /\ Len(s) \in Nat
    BY <1>1, RowSetIsRow DEF IsTable
  <2> QED
    BY <2>1, SeqDef
<1>2. ASSUME s \in Seq(RowSet) PROVE IsTable(s)
  <2>1. Len(s) \in Nat /\ s \in [1..Len(s) -> RowSet]
    BY <1>2, LenProperties
  <2> QED
    BY <2>1, RowSetIsRow DEF IsTable
<1> QED
  BY <1>1, <1>2

LEMMA EmptyTable == IsTable(<<>>)
  BY EmptySeq, TableIsSeq

LEMMA AppendTable ==
  ASSUME NEW s, IsTable(s), NEW r, IsRow(r)
  PROVE  /\ IsTable(Append(s, r))
         /\ Len(Append(s, r)) = Len(s) + 1 /\ Len(s) \in Nat
         /\ \A i \in 1..Len(s) : Append(s, r)[i] = s[i]
         /\ Append(s, r)[Len(s) + 1] = r
<1>1. s \in Seq(RowSet) /\ r \in RowSet
  BY TableIsSeq, RowSetIsRow
<1>2. Len(s) \in Nat
  BY DEF IsTable
<1>3. IsTable(Append(s, r))
  BY <1>1, AppendProperties, TableIsSeq
<1> QED
  BY <1>1, <1>2, <1>3, AppendProperties

LEMMA ReplaceInTable ==
  ASSUME NEW s, IsTable(s), NEW n \in 1..Len(s), NEW r, IsRow(r)
  PROVE  /\ IsTable([s EXCEPT ![n] = r])
         /\ Len([s EXCEPT ![n] = r]) = Len(s)
         /\ \A j \in 1..Len(s) :
              [s EXCEPT ![n] = r][j] = IF j = n THEN r ELSE s[j]
<1>1. s \in Seq(RowSet) /\ r \in RowSet
  BY TableIsSeq, RowSetIsRow
<1> QED
  BY <1>1, ExceptSeq, TableIsSeq

LEMMA DropFromTable ==
  ASSUME NEW s, IsTable(s), NEW n \in 1..Len(s)
  PROVE  /\ IsTable(DropRow(s, n))
         /\ Len(DropRow(s, n)) = Len(s) - 1 /\ Len(s) \in Nat
         /\ \A i \in 1..(Len(s) - 1) :
              DropRow(s, n)[i] = IF i < n THEN s[i] ELSE s[i + 1]
<1> DEFINE d == DropRow(s, n)
           k == Len(s) - 1
<1>1. s \in Seq(RowSet) /\ Len(s) \in Nat /\ k \in Nat
  BY TableIsSeq DEF IsTable
<1>2. \A i \in 1..k : (IF i < n THEN s[i] ELSE s[i + 1]) \in RowSet
  BY <1>1, ElementOfSeq
<1>3. d \in [1..k -> RowSet]
  BY <1>1, <1>2 DEF DropRow
<1>4. d \in Seq(RowSet)
  BY <1>1, <1>3, SeqDef
<1>5. Len(d) \in Nat /\ 1..Len(d) = 1..k
  BY <1>3, <1>4, LenProperties
<1>6. Len(d) = k
  BY <1>1, <1>5
<1>7. \A i \in 1..k : d[i] = IF i < n THEN s[i] ELSE s[i + 1]
  BY DEF DropRow
<1> QED
  BY <1>1, <1>4, <1>6, <1>7, TableIsSeq

-----------------------------------------------------------------------------
(* Requests. *)

LEMMA CompletedFields ==
  ASSUME NEW r \in Requests, NEW in \in Completed(r.in)
  PROVE  /\ in[Pk] # Absent
         /\ r.in[Pk] # Absent => in[Pk] = r.in[Pk]
         /\ \A i \in FieldIdx : in[i] \in Values[i] \cup {Absent, Mistyped}
         /\ \A i \in FieldIdx : i # Pk => in[i] = r.in[i]
<1>1. /\ r.in = [i \in FieldIdx |-> r.in[i]]
      /\ \A i \in FieldIdx : r.in[i] \in Values[i] \cup {Absent, Mistyped}
  BY StoreAssumption DEF Requests
<1>2. CASE r.in[Pk] # Absent
  BY <1>1, <1>2 DEF Completed
<1>3. CASE r.in[Pk] = Absent
  <2>1. PICK id \in GenIds : in = [r.in EXCEPT ![Pk] = id]
    BY <1>3 DEF Completed
  <2>2. /\ in[Pk] = id /\ id \in Values[Pk] /\ id # Absent
        /\ \A i \in FieldIdx : i # Pk => in[i] = r.in[i]
    BY <1>1, <2>1, StoreAssumption, ValuesAssumption
  <2> QED
    BY <1>1, <1>3, <2>2
<1> QED
  BY <1>2, <1>3

\* A request that decodes is a source the merge accepts.
LEMMA DecodedIsSource ==
  ASSUME NEW r \in Requests, Decodable(r.in), NEW in \in Completed(r.in)
  PROVE  /\ IsSource(Decoded(in))
         /\ Decoded(in)[Pk] = in[Pk]
         /\ in[Pk] \in Values[Pk]
<1>1. ASSUME NEW i \in FieldIdx PROVE in[i] \in Values[i] \cup {Absent}
  <2>1. CASE i = Pk
    <3>1. CASE r.in[Pk] = Absent
      <4>1. PICK id \in GenIds : in = [r.in EXCEPT ![Pk] = id]
        BY <3>1 DEF Completed
      <4>2. r.in = [j \in FieldIdx |-> r.in[j]] /\ id \in Values[Pk]
        BY StoreAssumption DEF Requests
      <4> QED
        BY <2>1, <4>1, <4>2
    <3>2. CASE r.in[Pk] # Absent
      <4>1. in[i] = r.in[i] /\ in[i] \in Values[i] \cup {Absent, Mistyped}
        BY <2>1, <3>2, CompletedFields
      <4> QED
        BY <4>1 DEF Decodable
    <3> QED
      BY <3>1, <3>2
  <2>2. CASE i # Pk
    <3>1. in[i] = r.in[i] /\ in[i] \in Values[i] \cup {Absent, Mistyped}
      BY <2>2, CompletedFields
    <3> QED
      BY <3>1 DEF Decodable
  <2> QED
    BY <2>1, <2>2
<1>2. \A i \in FieldIdx : Decoded(in)[i] \in Values[i]
  BY <1>1, ValuesAssumption DEF Decoded
<1>3. Pk \in FieldIdx /\ in[Pk] # Absent
  BY StoreAssumption, CompletedFields
<1> QED
  BY <1>1, <1>2, <1>3 DEF Decoded, IsSource

-----------------------------------------------------------------------------
(* Type correctness, in two halves: what is stored and who is where. *)

DataOK ==
  /\ IsContent(rows)
  /\ tables \subseteq Tables
  /\ file = [state |-> file.state, rows |-> file.rows]
  /\ file.state \in {"missing", "torn", "saved"}
  /\ IsContent(file.rows)
  /\ phase \in {"up", "down"}

ControlOK ==
  /\ holder \in Clients \cup {NoClient}
  /\ pc \in [Clients -> {"idle", "lock", "open", "write"}]
  /\ req \in [Clients -> Requests \cup {NoRequest}]
  /\ \A c \in Clients : pc[c] # "idle" => req[c] \in Requests
  /\ answer \in [client : Clients \cup {NoClient}, status : Statuses]

LEMMA TypeSplit == TypeOK <=> DataOK /\ ControlOK
  BY DEF TypeOK, DataOK, ControlOK

LEMMA ReturnControl ==
  ASSUME ControlOK, NEW c \in Clients, NEW status \in Statuses, Return(c, status)
  PROVE  ControlOK'
  BY DEF ControlOK, Return, Statuses

LEMMA StartFlushControl ==
  ASSUME ControlOK, NEW c \in Clients, pc[c] # "idle", StartFlush(c)
  PROVE  ControlOK'
<1>1. CASE FileBacked
  BY <1>1 DEF ControlOK, StartFlush, Quiet, Statuses
<1>2. CASE ~FileBacked
  BY <1>2, ReturnControl DEF StartFlush, Statuses
<1> QED
  BY <1>1, <1>2

\* One table replaced by another keeps the content well-formed.
LEMMA ReplaceTable ==
  ASSUME NEW content, IsContent(content), NEW t \in Tables, NEW s, IsTable(s)
  PROVE  /\ IsContent([content EXCEPT ![t] = s])
         /\ \A u \in Tables :
              [content EXCEPT ![t] = s][u] = IF u = t THEN s ELSE content[u]
  BY DEF IsContent

LEMMA NoRowsContent == IsContent(NoRows)
  BY EmptyTable DEF IsContent, NoRows

LEMMA ServedRequest ==
  ASSUME TypeOK, NEW c \in Clients, NEW ops, Serves(c, ops)
  PROVE  /\ req[c] \in Requests /\ req[c].op \in ops
         /\ req[c].table \in Tables
         /\ pc[c] = "lock"
         /\ IsTable(rows[req[c].table])
  BY DEF TypeOK, Serves, Enters, IsContent

-----------------------------------------------------------------------------
(* The two writes of a row, as replacements of one table by another. *)

LEMMA KeyField ==
  /\ Pk \in FieldIdx /\ Fields[Pk].kind = "string" /\ Fields[Pk].parent = 0
  /\ DefValue(Fields[Pk]) = "" /\ Zero(Fields[Pk]) = ""
<1>1. Pk \in FieldIdx /\ Pk \in Keyed /\ DefValue(Fields[Pk]) = ""
  BY StoreAssumption DEF Keyed
<1>2. Fields[Pk].kind = "string" /\ Fields[Pk].parent = 0
  BY <1>1, StoreAssumption
<1>3. Zero(Fields[Pk]) = ""
  BY <1>2 DEF Zero, NumberKinds, SliceKinds, MapKinds
<1> QED
  BY <1>1, <1>2, <1>3

\* The primary key is a string without default: a merge leaves the key the
\* row has or gives it the one of the request, the latter when it succeeds.
LEMMA MergeKey ==
  ASSUME NEW mt, NEW dst, NEW src, src[Pk] # Absent
  PROVE  LET m == Merge(mt, dst, src) IN
         /\ m.row[Pk] \in {dst[Pk], src[Pk]}
         /\ m.ok /\ dst[Pk] = "" => m.row[Pk] = src[Pk]
<1> DEFINE f == Fields[Pk]
           m == Merge(mt, dst, src)
<1>1. /\ Pk \in FieldIdx /\ f.kind = "string" /\ f.parent = 0
      /\ DefValue(f) = "" /\ Zero(f) = ""
  BY KeyField
<1>2. Merged(f, dst[Pk], src[Pk]) = IF src[Pk] # "" THEN src[Pk] ELSE dst[Pk]
  BY <1>1 DEF Merged, ScalarKinds, HasDefault
<1>3. m.row[Pk] = IF Pk \in Reached(mt, dst, src)
                  THEN Merged(f, dst[Pk], src[Pk]) ELSE dst[Pk]
  <2>1. Pk \in FieldIdx
    BY <1>1
  <2> QED
    BY ONLY <2>1, MergeAt
<1>4. ASSUME m.ok PROVE Pk \in Reached(mt, dst, src)
  <2>1. Reached(mt, dst, src) = Visited(src)
    BY <1>4, SuccessReaches
  <2> QED
    BY <1>1, <2>1 DEF Visited
<1> QED
  BY <1>2, <1>3, <1>4

LEMMA UpsertReplaces ==
  ASSUME TypeOK, NEW c \in Clients, UpsertHit(c)
  PROVE  \E t \in Tables : \E n \in 1..Len(rows[t]) : \E row, in :
           /\ IsRow(row)
           /\ HitBy(rows[t][n], in) /\ in[Pk] # Absent
           /\ row[Pk] \in {rows[t][n][Pk], in[Pk]}
           /\ rows' = [rows EXCEPT ![t] = [rows[t] EXCEPT ![n] = row]]
<1> DEFINE r == req[c]
           t == r.table
<1>1. /\ Serves(c, {"upsert"}) /\ Decodable(r.in)
      /\ r \in Requests /\ t \in Tables /\ IsTable(rows[t])
  BY ServedRequest DEF UpsertHit
<1>2. PICK in \in Completed(r.in) :
        LET n == FirstOf(HitRows(t, in))
            m == Merge("unspec", rows[t][n], Decoded(in)) IN
        /\ HitRows(t, in) # {}
        /\ rows' = [rows EXCEPT ![t][n] = m.row]
  BY DEF UpsertHit
<1> DEFINE n == FirstOf(HitRows(t, in))
           m == Merge("unspec", rows[t][n], Decoded(in))
<1>3. n \in 1..Len(rows[t]) /\ HitBy(rows[t][n], in)
  <2>1. HitRows(t, in) \subseteq Nat
    BY <1>1 DEF HitRows, IsTable
  <2>2. n \in HitRows(t, in)
    BY <1>2, <2>1, FirstExists
  <2> QED
    BY <2>2 DEF HitRows
<1>4. /\ IsSource(Decoded(in)) /\ in[Pk] # Absent
      /\ Decoded(in)[Pk] = in[Pk]
  BY <1>1, DecodedIsSource, CompletedFields
<1>5. IsRow(m.row)
  BY <1>1, <1>3, <1>4, MergeIsRow DEF IsTable
<1>6. m.row[Pk] \in {rows[t][n][Pk], in[Pk]}
  BY <1>4, MergeKey, ZenonT(60)
<1>7. rows' = [rows EXCEPT ![t] = [rows[t] EXCEPT ![n] = m.row]]
  BY <1>2
<1> HIDE DEF m, n, t
<1> QED
  BY <1>1, <1>3, <1>4, <1>5, <1>6, <1>7

LEMMA InsertAppends ==
  ASSUME TypeOK, NEW c \in Clients, InsertNew(c)
  PROVE  \/ rows' = rows
         \/ \E t \in Tables : \E row, in :
              /\ IsRow(row)
              /\ HitRows(t, in) = {} /\ in[Pk] # Absent
              /\ row[Pk] = in[Pk]
              /\ rows' = [rows EXCEPT ![t] = Append(rows[t], row)]
<1> DEFINE r == req[c]
           t == r.table
<1>1. /\ Serves(c, InsertOps) /\ Decodable(r.in)
      /\ r \in Requests /\ t \in Tables
  BY ServedRequest DEF InsertNew
<1>2. PICK in \in Completed(r.in) :
        LET m == Merge("unspec", ZeroRow, Decoded(in)) IN
        /\ HitRows(t, in) = {}
        /\ \/ m.ok /\ rows' = [rows EXCEPT ![t] = Append(rows[t], m.row)]
           \/ rows' = rows
  BY DEF InsertNew
<1> DEFINE m == Merge("unspec", ZeroRow, Decoded(in))
<1>3. /\ IsSource(Decoded(in)) /\ in[Pk] # Absent
      /\ Decoded(in)[Pk] = in[Pk]
  BY <1>1, DecodedIsSource, CompletedFields
<1>4. IsRow(m.row)
  BY <1>3, ZeroIsRow, MergeIsRow
<1>5. m.ok => m.row[Pk] = in[Pk]
  <2>1. ZeroRow[Pk] = ""
    BY KeyField DEF ZeroRow
  <2> QED
    BY <1>3, <2>1, MergeKey
<1> HIDE DEF m, t
<1> QED
  BY <1>1, <1>2, <1>3, <1>4, <1>5 DEF m

LEMMA DeleteDrops ==
  ASSUME TypeOK, NEW c \in Clients, Delete(c)
  PROVE  \/ rows' = rows
         \/ \E t \in Tables : \E n \in 1..Len(rows[t]) :
              rows' = [rows EXCEPT ![t] = DropRow(rows[t], n)]
<1> DEFINE t    == req[c].table
           hits == KeyRows(t, req[c].in)
<1>1. t \in Tables /\ IsTable(rows[t])
  BY ServedRequest DEF Delete
<1>2. CASE hits = {}
  BY <1>2 DEF Delete
<1>3. CASE hits # {}
  <2>1. hits \subseteq 1..Len(rows[t]) /\ hits \subseteq Nat
    BY <1>1 DEF KeyRows, IsTable
  <2>2. FirstOf(hits) \in 1..Len(rows[t])
    BY <1>3, <2>1, FirstExists
  <2>3. rows' = [rows EXCEPT ![t] = DropRow(rows[t], FirstOf(hits))]
    BY <1>3 DEF Delete
  <2> QED
    BY <1>1, <2>2, <2>3
<1> QED
  BY <1>2, <1>3

-----------------------------------------------------------------------------
(* Type correctness. *)

LEMMA RowsStayContent ==
  ASSUME TypeOK, NEW c \in Clients, UpsertHit(c) \/ InsertNew(c) \/ Delete(c)
  PROVE  IsContent(rows')
<1>0. IsContent(rows) /\ \A t \in Tables : IsTable(rows[t])
  BY DEF TypeOK, IsContent
<1>1. CASE UpsertHit(c)
  <2>0. PICK t \in Tables : \E n \in 1..Len(rows[t]) : \E row :
          /\ IsRow(row)
          /\ rows' = [rows EXCEPT ![t] = [rows[t] EXCEPT ![n] = row]]
    BY <1>1, UpsertReplaces
  <2>a. PICK n \in 1..Len(rows[t]) : \E row :
          /\ IsRow(row)
          /\ rows' = [rows EXCEPT ![t] = [rows[t] EXCEPT ![n] = row]]
    BY <2>0
  <2>1. PICK row :
          /\ IsRow(row)
          /\ rows' = [rows EXCEPT ![t] = [rows[t] EXCEPT ![n] = row]]
    BY <2>a
  <2>2. IsTable([rows[t] EXCEPT ![n] = row])
    BY <1>0, <2>1, ReplaceInTable
  <2> QED
    BY <1>0, <2>1, <2>2, ReplaceTable
<1>2. CASE InsertNew(c)
  <2>1. CASE rows' = rows
    BY <1>0, <2>1
  <2>2. CASE rows' # rows
    <3>0. PICK t \in Tables : \E row :
            IsRow(row) /\ rows' = [rows EXCEPT ![t] = Append(rows[t], row)]
      BY <1>2, <2>2, InsertAppends
    <3>1. PICK row :
            IsRow(row) /\ rows' = [rows EXCEPT ![t] = Append(rows[t], row)]
      BY <3>0
    <3>2. IsTable(Append(rows[t], row))
      BY <1>0, <3>1, AppendTable
    <3> QED
      BY <1>0, <3>1, <3>2, ReplaceTable
  <2> QED
    BY <2>1, <2>2
<1>3. CASE Delete(c)
  <2>1. \/ rows' = rows
        \/ \E t \in Tables : \E n \in 1..Len(rows[t]) :
             rows' = [rows EXCEPT ![t] = DropRow(rows[t], n)]
    BY <1>3, DeleteDrops
  <2> QED
    BY <1>0, <2>1, DropFromTable, ReplaceTable
<1> QED
  BY <1>1, <1>2, <1>3

\* Every reachable state of the store is well-formed: every stored row is a
\* value of the row type, in memory and in the file, through partial merges,
\* failed flushes, crashes and restarts.
THEOREM TypeCorrect == Spec => []TypeOK
<1>1. Init => TypeOK
  <2> SUFFICES ASSUME Init PROVE TypeOK
    OBVIOUS
  <2>1. DataOK
    BY NoRowsContent DEF Init, DataOK, NoFile
  <2>2. ControlOK
    BY DEF Init, ControlOK, Statuses
  <2> QED
    BY <2>1, <2>2, TypeSplit
<1>2. TypeOK /\ [Next]_vars => TypeOK'
  <2> SUFFICES ASSUME TypeOK, [Next]_vars PROVE DataOK' /\ ControlOK'
    BY TypeSplit, PTL
  <2> USE DEF TypeOK
  <2>0. DataOK /\ ControlOK
    BY TypeSplit
  <2>1. ASSUME NEW c \in Clients, Call(c) PROVE DataOK' /\ ControlOK'
    BY <2>0, <2>1 DEF Call, Quiet, DataOK, ControlOK, Statuses
  <2>2. ASSUME NEW c \in Clients, Runs(c) PROVE DataOK' /\ ControlOK'
    <3>1. CASE EmptyInsert(c)
      BY <2>0, <3>1 DEF EmptyInsert, DataOK, ControlOK, Statuses
    <3>2. CASE TableSetup(c)
      <4>1. Return(c, "ok") \/ Return(c, "error")
        BY <3>2 DEF TableSetup
      <4>2. ControlOK'
        BY <2>0, <4>1, ReturnControl DEF Statuses
      <4> QED
        BY <2>0, <3>2, <4>2 DEF TableSetup, DataOK
    <3>3. CASE TableNotFound(c)
      BY <2>0, <3>3, ReturnControl DEF TableNotFound, DataOK, Statuses
    <3>4. CASE InsertInvalid(c)
      BY <2>0, <3>4, ReturnControl DEF InsertInvalid, DataOK, Statuses
    <3>5. CASE InsertHit(c)
      BY <2>0, <3>5, ReturnControl DEF InsertHit, DataOK, Statuses
    <3>6. CASE UpsertHit(c)
      <4>1. IsContent(rows') /\ pc[c] # "idle"
        BY <3>6, RowsStayContent, ServedRequest DEF UpsertHit
      <4>2. StartFlush(c) \/ Return(c, "error")
        BY <3>6 DEF UpsertHit
      <4>3. ControlOK'
        BY <2>0, <4>1, <4>2, ReturnControl, StartFlushControl DEF Statuses
      <4> QED
        BY <2>0, <3>6, <4>1, <4>3 DEF UpsertHit, DataOK
    <3>7. CASE InsertNew(c)
      <4>1. IsContent(rows') /\ pc[c] # "idle"
        BY <3>7, RowsStayContent, ServedRequest DEF InsertNew
      <4>2. StartFlush(c) \/ Return(c, "error")
        BY <3>7 DEF InsertNew
      <4>3. ControlOK'
        BY <2>0, <4>1, <4>2, ReturnControl, StartFlushControl DEF Statuses
      <4> QED
        BY <2>0, <3>7, <4>1, <4>3 DEF InsertNew, DataOK
    <3>8. CASE DeleteInvalid(c)
      BY <2>0, <3>8, ReturnControl DEF DeleteInvalid, DataOK, Statuses
    <3>9. CASE Delete(c)
      <4>1. IsContent(rows') /\ pc[c] # "idle"
        BY <3>9, RowsStayContent, ServedRequest DEF Delete
      <4>2. StartFlush(c) \/ Return(c, "ok")
        BY <3>9 DEF Delete
      <4>3. ControlOK'
        BY <2>0, <4>1, <4>2, ReturnControl, StartFlushControl DEF Statuses
      <4> QED
        BY <2>0, <3>9, <4>1, <4>3 DEF Delete, DataOK
    <3>10. CASE Query(c)
      <4>1. Return(c, "ok") \/ Return(c, "notfound")
        BY <3>10 DEF Query
      <4>2. ControlOK'
        BY <2>0, <4>1, ReturnControl DEF Statuses
      <4> QED
        BY <2>0, <3>10, <4>2 DEF Query, DataOK
    <3> QED
      BY <2>2, <3>1, <3>2, <3>3, <3>4, <3>5, <3>6, <3>7, <3>8, <3>9, <3>10 DEF Runs
  <2>3. ASSUME NEW c \in Clients, Flushes(c) PROVE DataOK' /\ ControlOK'
    <3>1. CASE FlushOpen(c)
      BY <2>0, <3>1, NoRowsContent
      DEF FlushOpen, Quiet, Torn, DataOK, ControlOK, Statuses
    <3>2. CASE FlushOpenFails(c)
      BY <2>0, <3>2, ReturnControl DEF FlushOpenFails, DataOK, Statuses
    <3>3. CASE FlushWrite(c)
      BY <2>0, <3>3, ReturnControl DEF FlushWrite, Image, DataOK, Statuses
    <3>4. CASE FlushWriteFails(c)
      BY <2>0, <3>4, ReturnControl DEF FlushWriteFails, DataOK, Statuses
    <3> QED
      BY <2>3, <3>1, <3>2, <3>3, <3>4 DEF Flushes
  <2>4. CASE Crash
    BY <2>0, <2>4, NoRowsContent DEF Crash, Quiet, DataOK, ControlOK, Statuses
  <2>5. CASE Restart
    BY <2>0, <2>5 DEF Restart, Quiet, DataOK, ControlOK, Statuses
  <2>6. CASE UNCHANGED vars
    BY <2>0, <2>6 DEF vars, DataOK, ControlOK
  <2> QED
    BY <2>1, <2>2, <2>3, <2>4, <2>5, <2>6 DEF Next
<1> QED
  BY <1>1, <1>2, PTL DEF Spec

-----------------------------------------------------------------------------
(* Uniqueness of the primary key. *)

KeysDiffer(s) == \A m, n \in 1..Len(s) : s[m][Pk] = s[n][Pk] => m = n

LEMMA DistinctTables ==
  \A content : DistinctOn(content, Pk) <=> \A t \in Tables : KeysDiffer(content[t])
  BY DEF DistinctOn, KeysDiffer

LEMMA AppendKeysDiffer ==
  ASSUME NEW s, IsTable(s), KeysDiffer(s), NEW r, IsRow(r),
         \A i \in 1..Len(s) : s[i][Pk] # r[Pk]
  PROVE  KeysDiffer(Append(s, r))
<1> DEFINE a == Append(s, r)
<1>1. /\ Len(a) = Len(s) + 1 /\ Len(s) \in Nat
      /\ \A i \in 1..Len(s) : a[i] = s[i]
      /\ a[Len(s) + 1] = r
  BY AppendTable
<1> HIDE DEF a
<1>2. ASSUME NEW m \in 1..Len(a), NEW n \in 1..Len(a), a[m][Pk] = a[n][Pk]
      PROVE  m = n
  <2>1. (m \in 1..Len(s) \/ m = Len(s) + 1) /\ (n \in 1..Len(s) \/ n = Len(s) + 1)
    BY <1>1
  <2> QED
    BY <1>1, <1>2, <2>1 DEF KeysDiffer
<1> QED
  BY <1>2 DEF KeysDiffer, a

LEMMA ReplaceKeysDiffer ==
  ASSUME NEW s, IsTable(s), KeysDiffer(s), NEW n \in 1..Len(s),
         NEW r, IsRow(r), r[Pk] = s[n][Pk]
  PROVE  KeysDiffer([s EXCEPT ![n] = r])
<1> DEFINE e == [s EXCEPT ![n] = r]
<1>1. Len(e) = Len(s) /\ \A j \in 1..Len(s) : e[j][Pk] = s[j][Pk]
  BY ReplaceInTable
<1> HIDE DEF e
<1>2. KeysDiffer(e)
  BY <1>1 DEF KeysDiffer
<1> QED
  BY <1>2 DEF e

LEMMA DropKeysDiffer ==
  ASSUME NEW s, IsTable(s), KeysDiffer(s), NEW n \in 1..Len(s)
  PROVE  KeysDiffer(DropRow(s, n))
<1> DEFINE d == DropRow(s, n)
           From(i) == IF i < n THEN i ELSE i + 1
<1>1. Len(d) = Len(s) - 1 /\ Len(s) \in Nat
  BY DropFromTable
<1>2. ASSUME NEW i \in 1..Len(d)
      PROVE  From(i) \in 1..Len(s) /\ d[i] = s[From(i)]
  BY <1>1, DropFromTable
<1>3. ASSUME NEW i \in 1..Len(d), NEW j \in 1..Len(d), d[i][Pk] = d[j][Pk]
      PROVE  i = j
  <2>1. /\ From(i) \in 1..Len(s) /\ d[i] = s[From(i)]
        /\ From(j) \in 1..Len(s) /\ d[j] = s[From(j)]
    BY <1>2
  <2>2. From(i) = From(j) => i = j
    BY <1>1
  <2> HIDE DEF From, d
  <2>3. From(i) = From(j)
    BY <1>3, <2>1 DEF KeysDiffer
  <2> QED
    BY <2>2, <2>3
<1> QED
  BY <1>3 DEF KeysDiffer

\* Without a unique_key field a row is hit by its primary key or not at all.
LEMMA HitIsKey ==
  ASSUME Uks = {}, NEW row, NEW in, in[Pk] # Absent
  PROVE  HitBy(row, in) <=> in[Pk] = row[Pk]
  BY DEF HitBy, Keyed

LEMMA RowsStayDistinct ==
  ASSUME Uks = {}, TypeOK, DistinctOn(rows, Pk),
         NEW c \in Clients, UpsertHit(c) \/ InsertNew(c) \/ Delete(c)
  PROVE  DistinctOn(rows', Pk)
<1>0. /\ IsContent(rows) /\ \A t \in Tables : IsTable(rows[t])
      /\ \A t \in Tables : KeysDiffer(rows[t])
  BY DistinctTables DEF TypeOK, IsContent
<1>1. ASSUME NEW t \in Tables, NEW s, IsTable(s), KeysDiffer(s),
             rows' = [rows EXCEPT ![t] = s]
      PROVE  DistinctOn(rows', Pk)
  <2>1. \A u \in Tables : rows'[u] = IF u = t THEN s ELSE rows[u]
    BY <1>0, <1>1, ReplaceTable
  <2> QED
    BY <1>0, <1>1, <2>1, DistinctTables
<1>2. CASE UpsertHit(c)
  <2>1. PICK t \in Tables : \E n \in 1..Len(rows[t]) : \E row, in :
          /\ IsRow(row)
          /\ HitBy(rows[t][n], in) /\ in[Pk] # Absent
          /\ row[Pk] \in {rows[t][n][Pk], in[Pk]}
          /\ rows' = [rows EXCEPT ![t] = [rows[t] EXCEPT ![n] = row]]
    BY <1>2, UpsertReplaces
  <2>a. PICK n \in 1..Len(rows[t]) : \E row, in :
          /\ IsRow(row)
          /\ HitBy(rows[t][n], in) /\ in[Pk] # Absent
          /\ row[Pk] \in {rows[t][n][Pk], in[Pk]}
          /\ rows' = [rows EXCEPT ![t] = [rows[t] EXCEPT ![n] = row]]
    BY <2>1
  <2>2. PICK row, in :
          /\ IsRow(row)
          /\ HitBy(rows[t][n], in) /\ in[Pk] # Absent
          /\ row[Pk] \in {rows[t][n][Pk], in[Pk]}
          /\ rows' = [rows EXCEPT ![t] = [rows[t] EXCEPT ![n] = row]]
    BY <2>a
  <2>3. row[Pk] = rows[t][n][Pk]
    BY <2>2, HitIsKey
  <2>4. /\ IsTable([rows[t] EXCEPT ![n] = row])
        /\ KeysDiffer([rows[t] EXCEPT ![n] = row])
    BY <1>0, <2>2, <2>3, ReplaceInTable, ReplaceKeysDiffer
  <2> QED
    BY <1>1, <2>2, <2>4
<1>3. CASE InsertNew(c) /\ rows' # rows
  <2>1. PICK t \in Tables : \E row, in :
          /\ IsRow(row)
          /\ HitRows(t, in) = {} /\ in[Pk] # Absent
          /\ row[Pk] = in[Pk]
          /\ rows' = [rows EXCEPT ![t] = Append(rows[t], row)]
    BY <1>3, InsertAppends
  <2>2. PICK row, in :
          /\ IsRow(row)
          /\ HitRows(t, in) = {} /\ in[Pk] # Absent
          /\ row[Pk] = in[Pk]
          /\ rows' = [rows EXCEPT ![t] = Append(rows[t], row)]
    BY <2>1
  <2>3. \A i \in 1..Len(rows[t]) : rows[t][i][Pk] # row[Pk]
    BY <2>2, HitIsKey DEF HitRows
  <2>4. IsTable(Append(rows[t], row)) /\ KeysDiffer(Append(rows[t], row))
    BY <1>0, <2>2, <2>3, AppendTable, AppendKeysDiffer
  <2> QED
    BY <1>1, <2>2, <2>4
<1>4. CASE Delete(c) /\ rows' # rows
  <2>1. PICK t \in Tables : \E n \in 1..Len(rows[t]) :
          rows' = [rows EXCEPT ![t] = DropRow(rows[t], n)]
    BY <1>4, DeleteDrops
  <2>2. PICK n \in 1..Len(rows[t]) :
          rows' = [rows EXCEPT ![t] = DropRow(rows[t], n)]
    BY <2>1
  <2>3. IsTable(DropRow(rows[t], n)) /\ KeysDiffer(DropRow(rows[t], n))
    BY <1>0, <2>2, DropFromTable, DropKeysDiffer
  <2> QED
    BY <1>1, <2>2, <2>3
<1>5. CASE rows' = rows
  BY <1>5
<1> QED
  BY <1>2, <1>3, <1>4, <1>5

LEMMA NoRowsDistinct == DistinctOn(NoRows, Pk)
  BY EmptySeq DEF DistinctOn, NoRows

\* In a table whose only key is the primary one no two rows share it, in
\* memory and in the file, for every spec, every mix of requests, blank and
\* generated keys included, and every failure, crash and restart.
THEOREM PrimaryKeyStaysUnique ==
  ASSUME Uks = {}
  PROVE  Spec => []PrimaryKeyUnique
<1>1. Init => PrimaryKeyUnique
  BY NoRowsDistinct DEF Init, PrimaryKeyUnique, NoFile
<1>2. TypeOK /\ PrimaryKeyUnique /\ [Next]_vars => PrimaryKeyUnique'
  <2> SUFFICES ASSUME TypeOK, PrimaryKeyUnique, [Next]_vars
               PROVE  PrimaryKeyUnique'
    OBVIOUS
  <2>0. DistinctOn(rows, Pk) /\ DistinctOn(file.rows, Pk)
    BY DEF PrimaryKeyUnique
  <2>1. CASE UNCHANGED <<rows, file>>
    BY <2>0, <2>1 DEF PrimaryKeyUnique
  <2>2. ASSUME NEW c \in Clients, Runs(c) PROVE PrimaryKeyUnique'
    <3>1. CASE UpsertHit(c) \/ InsertNew(c) \/ Delete(c)
      <4>1. DistinctOn(rows', Pk)
        BY <2>0, <3>1, RowsStayDistinct
      <4>2. file' = file
        BY <3>1 DEF UpsertHit, InsertNew, Delete
      <4> QED
        BY <2>0, <4>1, <4>2 DEF PrimaryKeyUnique
    <3>2. CASE ~(UpsertHit(c) \/ InsertNew(c) \/ Delete(c))
      BY <2>1, <2>2, <3>2
      DEF Runs, EmptyInsert, TableSetup, TableNotFound, InsertInvalid,
          InsertHit, DeleteInvalid, Query
    <3> QED
      BY <3>1, <3>2
  <2>3. ASSUME NEW c \in Clients, Flushes(c) PROVE PrimaryKeyUnique'
    BY <2>0, <2>3, NoRowsDistinct
    DEF Flushes, FlushOpen, FlushOpenFails, FlushWrite, FlushWriteFails,
        Torn, Image, PrimaryKeyUnique
  <2>4. CASE Crash
    BY <2>0, <2>4, NoRowsDistinct DEF Crash, PrimaryKeyUnique
  <2>5. CASE Restart
    BY <2>0, <2>5 DEF Restart, PrimaryKeyUnique
  <2>6. ASSUME NEW c \in Clients, Call(c) PROVE PrimaryKeyUnique'
    BY <2>1, <2>6 DEF Call
  <2> QED
    BY <2>1, <2>2, <2>3, <2>4, <2>5, <2>6 DEF Next, vars
<1> QED
  BY <1>1, <1>2, TypeCorrect, PTL DEF Spec

-----------------------------------------------------------------------------
(* Durability of acknowledged writes. *)

\* An insert or an upsert is answered with success by the write of the file,
\* or without one by the step that changed memory.
LEMMA WriteAnswered ==
  ASSUME Next, NEW d \in Clients, Answers(d, "ok", {"insert", "upsert"})
  PROVE  \/ FlushWrite(d)
         \/ (UpsertHit(d) \/ InsertNew(d)) /\ ~FileBacked /\ StartFlush(d)
<1>0. /\ answer'.client = d /\ answer'.status = "ok"
      /\ req[d].op \in {"insert", "upsert"}
      /\ d # NoClient
  BY StoreAssumption DEF Answers
<1>1. ~Quiet
  BY <1>0 DEF Quiet
<1>2. \A c, status : Return(c, status) => c = d /\ status = "ok"
  BY <1>0 DEF Return
<1>3. ASSUME NEW c, StartFlush(c) PROVE c = d /\ ~FileBacked
  BY <1>1, <1>2, <1>3 DEF StartFlush
<1>4. ASSUME NEW c \in Clients, Runs(c)
      PROVE  (UpsertHit(d) \/ InsertNew(d)) /\ ~FileBacked /\ StartFlush(d)
  <2>1. ~(EmptyInsert(c) \/ TableNotFound(c) \/ InsertInvalid(c) \/ DeleteInvalid(c))
    <3>1. ASSUME answer' = [client |-> c, status |-> "error"] PROVE FALSE
      <4>1. answer'.status = "error"
        BY ONLY <3>1
      <4> QED
        BY ONLY <1>0, <4>1
    <3> QED
      BY <3>1, Zenon DEF EmptyInsert, TableNotFound, InsertInvalid, DeleteInvalid, Return
  <2>2. CASE TableSetup(c) \/ Query(c)
    <3>1. Enters(c, {"setup"}) \/ Enters(c, {"query"})
      BY <2>2, Zenon DEF TableSetup, Query, Serves
    <3>2. req[c].op \notin {"insert", "upsert"}
      BY ONLY <3>1 DEF Enters
    <3>3. CASE TableSetup(c)
      <4>1. Return(c, "ok") \/ Return(c, "error")
        BY <3>3, Zenon DEF TableSetup
      <4> QED
        BY <1>0, <1>2, <3>2, <4>1
    <3>4. CASE Query(c)
      <4>1. \E status : Return(c, status)
        BY <3>4, Zenon DEF Query
      <4>2. c = d
        BY ONLY <1>2, <4>1
      <4> QED
        BY <1>0, <3>2, <4>2
    <3> QED
      BY <2>2, <3>3, <3>4
  <2>3. CASE InsertHit(c)
    <3>1. req[c].op \in {"insert", "igsert"}
      BY <2>3 DEF InsertHit, Serves, Enters
    <3>2. c = d /\ (IF req[c].op = "insert" THEN "conflict" ELSE "ok") = "ok"
      <4>1. Return(c, IF req[c].op = "insert" THEN "conflict" ELSE "ok")
        BY <2>3 DEF InsertHit
      <4> QED
        BY ONLY <1>2, <4>1
    <3> QED
      BY <1>0, <3>1, <3>2
  <2>4. CASE UpsertHit(c) \/ InsertNew(c)
    <3>1. ~Return(c, "error")
      <4>1. "error" # "ok"
        OBVIOUS
      <4> QED
        BY ONLY <1>2, <4>1
    <3>2. Return(c, "error") \/ StartFlush(c)
      BY <2>4, ZenonT(30) DEF UpsertHit, InsertNew
    <3>3. StartFlush(c)
      BY ONLY <3>1, <3>2
    <3> QED
      BY <1>3, <2>4, <3>3
  <2>5. CASE Delete(c)
    <3>1. Return(c, "ok") \/ StartFlush(c)
      BY <2>5 DEF Delete
    <3>2. c = d /\ req[c].op = "delete"
      BY <1>2, <1>3, <2>5, <3>1 DEF Delete, Serves, Enters
    <3> QED
      BY <1>0, <3>2
  <2> QED
    BY <1>4, <2>1, <2>2, <2>3, <2>4, <2>5 DEF Runs
<1>5. ASSUME NEW c \in Clients, Flushes(c) PROVE FlushWrite(d)
  BY <1>1, <1>2, <1>5 DEF Flushes, FlushOpen, FlushOpenFails, FlushWrite, FlushWriteFails
<1> QED
  BY <1>1, <1>4, <1>5 DEF Next, Call, Crash, Restart

\* With a file, an insert or an upsert is answered with success only by the
\* step that wrote all of memory to the file.
THEOREM AckedWritesAreSaved ==
  ASSUME FileBacked
  PROVE  Spec => AckedWriteSaved
<1> DEFINE Saved == \A c \in Clients :
                      Answers(c, "ok", {"insert", "upsert"}) => file' = Image'
<1>1. Next => Saved
  BY WriteAnswered DEF FlushWrite, Image
<1> QED
  BY <1>1, PTL DEF Spec, AckedWriteSaved

-----------------------------------------------------------------------------
(* The mutex. *)

\* After a crash no call is under way.
DownIdle == phase = "down" => \A c \in Clients : pc[c] = "idle"

LockInv == MutexHeld /\ DownIdle

\* A call that has waited for the mutex has it for itself: it either returns
\* or keeps the mutex over its flush.
LEMMA RunsShape ==
  ASSUME NEW c \in Clients, Runs(c)
  PROVE  /\ pc[c] = "lock" /\ UNCHANGED <<file, phase>>
         /\ \/ EmptyInsert(c)
            \/ /\ holder = NoClient
               /\ (\E status : Return(c, status)) \/ StartFlush(c)
<1>1. CASE EmptyInsert(c)
  BY <1>1 DEF EmptyInsert
<1>2. CASE TableSetup(c) \/ TableNotFound(c)
  BY <1>2 DEF TableSetup, TableNotFound, Enters
<1>3. CASE InsertInvalid(c) \/ InsertHit(c) \/ DeleteInvalid(c) \/ Query(c)
  BY <1>3, Zenon DEF InsertInvalid, InsertHit, DeleteInvalid, Query, Serves, Enters
<1>4. CASE UpsertHit(c) \/ InsertNew(c)
  <2>1. pc[c] = "lock" /\ holder = NoClient /\ UNCHANGED <<file, phase>>
    BY <1>4 DEF UpsertHit, InsertNew, Serves, Enters
  <2>2. Return(c, "error") \/ StartFlush(c)
    BY <1>4, ZenonT(30) DEF UpsertHit, InsertNew
  <2> QED
    BY <2>1, <2>2
<1>5. CASE Delete(c)
  BY <1>5 DEF Delete, Serves, Enters
<1> QED
  BY <1>1, <1>2, <1>3, <1>4, <1>5 DEF Runs

LEMMA LockInvStep == TypeOK /\ LockInv /\ [Next]_vars => LockInv'
<1> SUFFICES ASSUME TypeOK, LockInv, [Next]_vars PROVE LockInv'
  OBVIOUS
<1>0. /\ NoClient \notin Clients
      /\ pc \in [Clients -> {"idle", "lock", "open", "write"}]
      /\ \A c \in Clients : pc[c] \in {"open", "write"} <=> holder = c
      /\ phase = "down" => \A c \in Clients : pc[c] = "idle"
  BY StoreAssumption DEF TypeOK, LockInv, MutexHeld, DownIdle
<1>1. ASSUME NEW c \in Clients, Call(c) \/ EmptyInsert(c) PROVE LockInv'
  BY <1>0, <1>1 DEF Call, EmptyInsert, LockInv, MutexHeld, DownIdle
<1>2. ASSUME NEW c \in Clients, holder = NoClient \/ holder = c, NEW status, Return(c, status),
             phase' = phase
      PROVE  LockInv'
  BY <1>0, <1>2 DEF Return, LockInv, MutexHeld, DownIdle
<1>3. ASSUME NEW c \in Clients, holder = NoClient, pc[c] = "lock", StartFlush(c), phase' = phase
      PROVE  LockInv'
  <2>1. CASE FileBacked
    BY <1>0, <1>3, <2>1 DEF StartFlush, LockInv, MutexHeld, DownIdle
  <2>2. CASE ~FileBacked
    BY <1>2, <1>3, <2>2 DEF StartFlush
  <2> QED
    BY <2>1, <2>2
<1>4. ASSUME NEW c \in Clients, Runs(c) PROVE LockInv'
  BY <1>1, <1>2, <1>3, <1>4, RunsShape
<1>5. ASSUME NEW c \in Clients, Flushes(c) PROVE LockInv'
  <2>1. holder = c /\ phase' = phase
    BY <1>0, <1>5 DEF Flushes, FlushOpen, FlushOpenFails, FlushWrite, FlushWriteFails
  <2>2. CASE FlushOpen(c)
    BY <1>0, <2>1, <2>2 DEF FlushOpen, LockInv, MutexHeld, DownIdle
  <2>3. CASE FlushOpenFails(c) \/ FlushWrite(c) \/ FlushWriteFails(c)
    BY <1>2, <2>1, <2>3 DEF FlushOpenFails, FlushWrite, FlushWriteFails
  <2> QED
    BY <1>5, <2>2, <2>3 DEF Flushes
<1>6. CASE Crash
  BY <1>0, <1>6 DEF Crash, LockInv, MutexHeld, DownIdle
<1>7. CASE Restart
  BY <1>0, <1>7 DEF Restart, LockInv, MutexHeld, DownIdle
<1>8. CASE UNCHANGED vars
  BY <1>0, <1>8 DEF vars, LockInv, MutexHeld, DownIdle
<1> QED
  BY <1>1, <1>4, <1>5, <1>6, <1>7, <1>8 DEF Next

LEMMA LockAlways == Spec => []LockInv
<1>1. Init => LockInv
  BY StoreAssumption DEF Init, LockInv, MutexHeld, DownIdle
<1> QED
  BY <1>1, LockInvStep, TypeCorrect, PTL DEF Spec

\* The mutex is held by the one client that is inside a flush, from the change
\* in memory to the end of the write, and by nobody else: after a failed open
\* or write, a denied request or a crash nobody holds it.
THEOREM MutexIsHeld == Spec => []MutexHeld
<1>1. LockInv => MutexHeld
  BY DEF LockInv
<1> QED
  BY <1>1, LockAlways, PTL

-----------------------------------------------------------------------------
(* The file and memory. *)

\* What an upsert merges into: the first row its request hits.
Hit(c, in) == FirstOf(HitRows(req[c].table, in))
Upserted(c, in) == Merge("unspec", rows[req[c].table][Hit(c, in)], Decoded(in))

LEMMA UpsertStep ==
  ASSUME TypeOK, NEW c \in Clients, UpsertHit(c)
  PROVE  /\ req[c] \in Requests /\ req[c].table \in Tables /\ IsTable(rows[req[c].table])
         /\ Decodable(req[c].in)
         /\ \E in \in Completed(req[c].in) :
              /\ Hit(c, in) \in HitRows(req[c].table, in)
              /\ Hit(c, in) \in 1..Len(rows[req[c].table])
              /\ IsSource(Decoded(in))
              /\ IsRow(Upserted(c, in).row)
              /\ rows' = [rows EXCEPT ![req[c].table] =
                            [rows[req[c].table] EXCEPT ![Hit(c, in)] = Upserted(c, in).row]]
              /\ IF Upserted(c, in).ok THEN StartFlush(c) ELSE Return(c, "error")
<1> DEFINE t == req[c].table
<1>1. /\ Serves(c, {"upsert"}) /\ Decodable(req[c].in)
      /\ req[c] \in Requests /\ t \in Tables /\ IsTable(rows[t])
  BY ServedRequest DEF UpsertHit
<1>2. PICK in \in Completed(req[c].in) :
        /\ HitRows(t, in) # {}
        /\ rows' = [rows EXCEPT ![t][Hit(c, in)] = Upserted(c, in).row]
        /\ IF Upserted(c, in).ok THEN StartFlush(c) ELSE Return(c, "error")
  BY DEF UpsertHit, Hit, Upserted
<1>3. Hit(c, in) \in HitRows(t, in) /\ Hit(c, in) \in 1..Len(rows[t])
  <2>1. HitRows(t, in) \subseteq Nat /\ HitRows(t, in) \subseteq 1..Len(rows[t])
    BY <1>1 DEF HitRows, IsTable
  <2> QED
    BY <1>2, <2>1, FirstExists DEF Hit
<1>4. IsSource(Decoded(in))
  BY <1>1, DecodedIsSource
<1>5. IsRow(Upserted(c, in).row)
  BY <1>1, <1>3, <1>4, MergeIsRow DEF IsTable, Upserted
<1>6. rows' = [rows EXCEPT ![t] = [rows[t] EXCEPT ![Hit(c, in)] = Upserted(c, in).row]]
  BY <1>2
<1> QED
  BY <1>1, <1>2, <1>3, <1>4, <1>5, <1>6

\* One table replaced by one with the same keys.
LEMMA SameKeysStep ==
  ASSUME IsContent(rows), NEW t \in Tables, NEW n \in 1..Len(rows[t]), NEW r, IsRow(r),
         rows' = [rows EXCEPT ![t] = [rows[t] EXCEPT ![n] = r]]
  PROVE  \A u \in Tables :
           /\ Len(rows'[u]) = Len(rows[u])
           /\ r[Pk] = rows[t][n][Pk] => SameKeys(rows[u], rows'[u])
<1> DEFINE s == [rows[t] EXCEPT ![n] = r]
<1>1. IsTable(rows[t])
  BY DEF IsContent
<1>2. /\ IsTable(s) /\ Len(s) = Len(rows[t])
      /\ \A j \in 1..Len(rows[t]) : s[j] = IF j = n THEN r ELSE rows[t][j]
  BY <1>1, ReplaceInTable
<1> HIDE DEF s
<1>3. rows' = [rows EXCEPT ![t] = s]
  BY DEF s
<1>4. \A u \in Tables : rows'[u] = IF u = t THEN s ELSE rows[u]
  BY <1>2, <1>3, ReplaceTable
<1> QED
  BY <1>2, <1>4 DEF SameKeys

LEMMA SameKeysTrans ==
  ASSUME NEW s1, NEW s2, NEW s3, SameKeys(s1, s2), SameKeys(s2, s3)
  PROVE  SameKeys(s1, s3)
  BY DEF SameKeys

LEMMA TrackedStep ==
  ASSUME TypeOK, LockInv, FileBacked, Faults \cap {"open", "write"} = {},
         Next, Resting'
  PROVE  /\ (Resting => Readable) => Readable'
         /\ (Resting => Tracked) /\ ~(\E c \in Clients : Renames(c)) => Tracked'
<1>0. /\ NoClient \notin Clients
      /\ IsContent(rows) /\ phase \in {"up", "down"}
      /\ \A c \in Clients : pc[c] \in {"open", "write"} => holder = c
      /\ \A c \in Clients : pc[c] # "idle" => phase = "up"
      /\ phase' = "up" /\ holder' = NoClient
  BY StoreAssumption DEF TypeOK, LockInv, MutexHeld, DownIdle, Resting
<1>1. ASSUME Resting, UNCHANGED <<rows, file>>
      PROVE  (Readable => Readable') /\ (Tracked => Tracked')
  BY <1>1 DEF Readable, Tracked, SameKeys
<1>2. ASSUME NEW c \in Clients, Call(c)
      PROVE  Resting /\ UNCHANGED <<rows, file>>
  BY <1>0, <1>2 DEF Call, Resting
<1>3. ASSUME NEW c \in Clients, Runs(c), rows' = rows
      PROVE  Resting /\ UNCHANGED <<rows, file>>
  BY <1>0, <1>3, RunsShape DEF EmptyInsert, Resting
<1>4. ASSUME NEW c \in Clients PROVE ~StartFlush(c)
  BY <1>0, <1>4 DEF StartFlush
<1>5. ASSUME NEW c \in Clients, UpsertHit(c)
      PROVE  /\ Resting
             /\ Readable => Readable'
             /\ Tracked /\ ~Renames(c) => Tracked'
  <2> DEFINE t == req[c].table
  <2>1. /\ t \in Tables
        /\ \E in \in Completed(req[c].in) :
             /\ Hit(c, in) \in HitRows(t, in)
             /\ Hit(c, in) \in 1..Len(rows[t])
             /\ IsRow(Upserted(c, in).row)
             /\ rows' = [rows EXCEPT ![t] =
                           [rows[t] EXCEPT ![Hit(c, in)] = Upserted(c, in).row]]
             /\ Return(c, "error")
    BY <1>4, <1>5, UpsertStep
  <2>2. /\ Runs(c) /\ pc[c] = "lock" /\ Resting /\ file' = file
        /\ req[c].op = "upsert"
    BY <1>0, <1>4, <1>5 DEF Runs, UpsertHit, Serves, Enters, Resting
  <2>3. PICK in \in Completed(req[c].in) :
          /\ Hit(c, in) \in HitRows(t, in)
          /\ Hit(c, in) \in 1..Len(rows[t])
          /\ IsRow(Upserted(c, in).row)
          /\ rows' = [rows EXCEPT ![t] =
                        [rows[t] EXCEPT ![Hit(c, in)] = Upserted(c, in).row]]
          /\ Return(c, "error")
    BY <2>1
  <2> DEFINE n == Hit(c, in)
             r == Upserted(c, in).row
  <2>4. \A u \in Tables :
          /\ Len(rows'[u]) = Len(rows[u])
          /\ r[Pk] = rows[t][n][Pk] => SameKeys(rows[u], rows'[u])
    <3>1. /\ n \in 1..Len(rows[t]) /\ IsRow(r)
          /\ rows' = [rows EXCEPT ![t] = [rows[t] EXCEPT ![n] = r]]
      BY <2>3
    <3> HIDE DEF n, r, t
    <3> QED
      BY <1>0, <2>1, <3>1, SameKeysStep, ZenonT(60)
  <2>5. Readable => Readable'
    BY <2>2, <2>4 DEF Readable
  <2>6. ASSUME ~Renames(c) PROVE r[Pk] = rows[t][n][Pk]
    <3>1. req[c] \in Requests /\ Decodable(req[c].in)
      BY <1>5, UpsertStep
    <3>2. Decoded(in)[Pk] = in[Pk] /\ in[Pk] # Absent
      BY <2>3, <3>1, DecodedIsSource, CompletedFields
    <3>3. r[Pk] \in {rows[t][n][Pk], in[Pk]}
      <4> DEFINE m == Merge("unspec", rows[t][n], Decoded(in))
      <4>1. m.row[Pk] \in {rows[t][n][Pk], Decoded(in)[Pk]}
        BY <3>2, MergeKey
      <4> QED
        BY <3>2, <4>1 DEF Upserted
    <3>4. pc'[c] # "lock" /\ answer'.status = "error"
      BY <2>3 DEF TypeOK, Return
    <3>5. HitRows(t, in) # {}
      BY <2>3
    <3>6. rows[t][n][Pk] = in[Pk]
      BY <2>1, <2>2, <2>3, <2>6, <3>4, <3>5 DEF Renames, Hit
    <3> QED
      BY <3>3, <3>6
  <2>7. Tracked /\ ~Renames(c) => Tracked'
    BY <2>2, <2>4, <2>5, <2>6, SameKeysTrans DEF Tracked
  <2> QED
    BY <2>2, <2>5, <2>7
<1>6. ASSUME NEW c \in Clients, Runs(c), rows' # rows PROVE UpsertHit(c)
  <2>1. ~InsertNew(c)
    <3>1. ASSUME InsertNew(c) PROVE rows' = rows
      BY <1>4, <3>1, Zenon DEF InsertNew
    <3> QED
      BY <1>6, <3>1
  <2>2. ~Delete(c)
    BY <1>4, <1>6 DEF Delete
  <2> QED
    BY <1>6, <2>1, <2>2
    DEF Runs, EmptyInsert, TableSetup, TableNotFound, InsertInvalid, InsertHit,
        DeleteInvalid, Query
<1>7. ASSUME NEW c \in Clients, Flushes(c) PROVE Readable' /\ Tracked'
  <2>1. FlushWrite(c)
    BY <1>0, <1>7 DEF Flushes, FlushOpen, FlushOpenFails, FlushWriteFails
  <2>2. file'.state = "saved" /\ file'.rows = rows /\ rows' = rows
    BY <2>1 DEF FlushWrite, Image
  <2> QED
    BY <2>2 DEF Readable, Tracked, SameKeys
<1>8. ~Crash
  BY <1>0 DEF Crash
<1>9. CASE Restart
  <2>1. file.state # "torn" /\ file' = file /\ rows' = file.rows
    BY <1>0, <1>9 DEF Restart
  <2> QED
    BY <2>1 DEF Readable, Tracked, SameKeys
<1> QED
  BY <1>1, <1>2, <1>3, <1>5, <1>6, <1>7, <1>8, <1>9 DEF Next

\* While no file operation fails the file of a store at rest can be read and
\* has the rows of memory, by key and order, through every crash and restart;
\* only an upsert that is denied half-way on a row it hit by a unique key can
\* put the key of a row ahead of the file.
THEOREM FileFollowsMemory == Spec => FileTracksMemory
<1> DEFINE Follows ==
      FileBacked /\ Faults \cap {"open", "write"} = {} /\ Resting' =>
        /\ (Resting => Readable) => Readable'
        /\ (Resting => Tracked) /\ ~(\E c \in Clients : Renames(c)) => Tracked'
<1>1. TypeOK /\ LockInv /\ [Next]_vars => [Follows]_vars
  BY TrackedStep
<1> QED
  BY <1>1, TypeCorrect, LockAlways, PTL DEF Spec, FileTracksMemory

\* Without unique keys that holds in every state of the store at rest: a crash
\* then takes no row back that a query showed, and brings back none that was
\* deleted.
THEOREM RestingIsTracked ==
  ASSUME Uks = {}, FileBacked, Faults \cap {"open", "write"} = {}
  PROVE  Spec => [](Resting => Tracked)
<1>1. Init => (Resting => Tracked)
  BY DEF Init, Tracked, Readable, SameKeys, NoFile
<1>2. TypeOK /\ LockInv /\ (Resting => Tracked) /\ [Next]_vars => (Resting => Tracked)'
  <2> SUFFICES ASSUME TypeOK, LockInv, Resting => Tracked, [Next]_vars, Resting'
               PROVE  Tracked'
    OBVIOUS
  <2>1. CASE UNCHANGED vars
    BY <2>1 DEF vars, Resting, Tracked, Readable, SameKeys
  <2>2. CASE Next
    <3>1. ASSUME NEW c \in Clients, Renames(c) PROVE FALSE
      <4>1. PICK in \in Completed(req[c].in) :
              /\ HitRows(req[c].table, in) # {}
              /\ rows[req[c].table][Hit(c, in)][Pk] # in[Pk]
        BY <3>1 DEF Renames, Hit
      <4>2. req[c].table \in Tables /\ req[c] \in Requests
        BY <3>1 DEF Renames, TypeOK
      <4>3. HitRows(req[c].table, in) \subseteq Nat
        BY <4>2 DEF TypeOK, IsContent, IsTable, HitRows
      <4>4. Hit(c, in) \in HitRows(req[c].table, in)
        BY <4>1, <4>3, FirstExists DEF Hit
      <4>5. in[Pk] # Absent
        BY <4>2, CompletedFields
      <4> QED
        BY <4>1, <4>4, <4>5, HitIsKey DEF HitRows
    <3> QED
      BY <2>2, <3>1, TrackedStep
  <2> QED
    BY <2>1, <2>2
<1> QED
  BY <1>1, <1>2, TypeCorrect, LockAlways, PTL DEF Spec

-----------------------------------------------------------------------------
(* What an acknowledged write has written. *)

\* A row of s has every nonzero string and number that the request gives.
Shown(in, s) ==
  \E n \in 1..Len(s) : \A i \in Given(in) :
    Fields[i].kind \in ScalarKinds /\ in[i] # Zero(Fields[i]) => s[n][i] = in[i]

\* A merge that succeeds takes over what the request gives.
LEMMA MergeShows ==
  ASSUME NEW r \in Requests, NEW in \in Completed(r.in), NEW dst,
         Merge("unspec", dst, Decoded(in)).ok,
         NEW i \in Given(r.in), Fields[i].kind \in ScalarKinds, r.in[i] # Zero(Fields[i])
  PROVE  Merge("unspec", dst, Decoded(in)).row[i] = r.in[i]
<1> DEFINE src == Decoded(in)
<1>1. i \in FieldIdx /\ r.in[i] # Absent /\ r.in \in Inputs
  BY DEF Given, Requests
<1>2. in[i] = r.in[i]
  BY <1>1, CompletedFields
<1>3. src[i] = r.in[i]
  BY <1>1, <1>2 DEF Decoded
<1>4. i \in Visited(src)
  <2> DEFINE j == Fields[i].parent
  <2>1. CASE j = 0
    BY <1>1, <2>1 DEF Visited
  <2>2. CASE j # 0
    <3>1. r.in[j] = TRUE
      BY <1>1, <2>2, NestedAssumption
    <3>2. j \in FieldIdx /\ Fields[j].kind = "struct"
      BY <1>1, <2>2, FieldsAssumption DEF FieldIdx
    <3>3. TRUE # Absent
      BY <3>2, ValuesAssumption
    <3>4. in[j] = TRUE
      <4>1. j # Pk
        BY <3>2, KeyField
      <4> QED
        BY <3>1, <3>2, <4>1, CompletedFields
    <3>5. src[j] = TRUE
      BY <3>2, <3>3, <3>4 DEF Decoded
    <3> QED
      BY <1>1, <3>5 DEF Visited
  <2> QED
    BY <2>1, <2>2
<1> HIDE DEF src
<1>5. i \in Reached("unspec", dst, src)
  BY <1>4, SuccessReaches DEF src
<1>6. Merge("unspec", dst, src).row[i] = Merged(Fields[i], dst[i], src[i])
  BY <1>1, <1>5, MergeAt
<1>7. Merged(Fields[i], dst[i], src[i]) = src[i]
  BY <1>1, <1>3 DEF Merged, ScalarKinds, NumberKinds
<1> QED
  BY <1>3, <1>6, <1>7 DEF src

\* What an insert appends: the request, merged into a zero row.
Inserted(in) == Merge("unspec", ZeroRow, Decoded(in))

LEMMA InsertStep ==
  ASSUME TypeOK, NEW c \in Clients, InsertNew(c)
  PROVE  /\ req[c] \in Requests /\ req[c].table \in Tables /\ IsTable(rows[req[c].table])
         /\ Decodable(req[c].in)
         /\ \E in \in Completed(req[c].in) :
              /\ HitRows(req[c].table, in) = {}
              /\ IsRow(Inserted(in).row)
              /\ \/ /\ Inserted(in).ok /\ StartFlush(c)
                    /\ rows' = [rows EXCEPT ![req[c].table] =
                                  Append(rows[req[c].table], Inserted(in).row)]
                 \/ rows' = rows /\ Return(c, "error")
<1> DEFINE t == req[c].table
<1>1. /\ Serves(c, InsertOps) /\ Decodable(req[c].in)
      /\ req[c] \in Requests /\ t \in Tables /\ IsTable(rows[t])
  BY ServedRequest DEF InsertNew
<1>2. PICK in \in Completed(req[c].in) :
        /\ HitRows(t, in) = {}
        /\ \/ /\ Inserted(in).ok /\ StartFlush(c)
              /\ rows' = [rows EXCEPT ![t] = Append(rows[t], Inserted(in).row)]
           \/ rows' = rows /\ Return(c, "error")
  BY DEF InsertNew, Inserted
<1>3. IsRow(Inserted(in).row)
  BY <1>1, DecodedIsSource, ZeroIsRow, MergeIsRow DEF Inserted
<1> QED
  BY <1>1, <1>2, <1>3

\* A write that goes on to the flush has written what was asked.
LEMMA WriteShows ==
  ASSUME TypeOK, NEW c \in Clients, UpsertHit(c) \/ InsertNew(c), ~Return(c, "error")
  PROVE  req[c].table \in Tables /\ Shown(req[c].in, rows'[req[c].table])
<1> DEFINE t == req[c].table
<1>0. IsContent(rows)
  BY DEF TypeOK
<1>1. CASE UpsertHit(c)
  <2>1. req[c] \in Requests /\ t \in Tables /\ IsTable(rows[t])
    BY <1>1, UpsertStep
  <2>2. PICK in \in Completed(req[c].in) :
          /\ Hit(c, in) \in 1..Len(rows[t])
          /\ IsRow(Upserted(c, in).row)
          /\ rows' = [rows EXCEPT ![t] =
                        [rows[t] EXCEPT ![Hit(c, in)] = Upserted(c, in).row]]
          /\ Upserted(c, in).ok
    BY <1>1, UpsertStep
  <2> DEFINE n == Hit(c, in)
             r == Upserted(c, in).row
             s == [rows[t] EXCEPT ![n] = r]
  <2>3. IsTable(s) /\ Len(s) = Len(rows[t]) /\ s[n] = r
    <3> HIDE DEF r, n
    <3> QED
      BY <2>1, <2>2, ReplaceInTable DEF r, n
  <2>4. rows' = [rows EXCEPT ![t] = s]
    BY <2>2
  <2>5. rows'[t] = s
    <3> HIDE DEF s
    <3> QED
      BY <1>0, <2>1, <2>3, <2>4, ReplaceTable
  <2>6. \A i \in Given(req[c].in) :
          Fields[i].kind \in ScalarKinds /\ req[c].in[i] # Zero(Fields[i]) => r[i] = req[c].in[i]
    BY <2>1, <2>2, MergeShows DEF Upserted
  <2> HIDE DEF s, r, n
  <2> QED
    BY <2>1, <2>2, <2>3, <2>5, <2>6 DEF Shown, n
<1>2. CASE InsertNew(c)
  <2>1. req[c] \in Requests /\ t \in Tables /\ IsTable(rows[t])
    BY <1>2, InsertStep
  <2>2. PICK in \in Completed(req[c].in) :
          /\ IsRow(Inserted(in).row) /\ Inserted(in).ok
          /\ rows' = [rows EXCEPT ![t] = Append(rows[t], Inserted(in).row)]
    BY <1>2, InsertStep
  <2> DEFINE r == Inserted(in).row
             s == Append(rows[t], r)
  <2>3. /\ IsTable(s) /\ Len(s) = Len(rows[t]) + 1 /\ Len(rows[t]) \in Nat
        /\ s[Len(rows[t]) + 1] = r
    BY <2>1, <2>2, AppendTable
  <2>4. rows' = [rows EXCEPT ![t] = s]
    BY <2>2
  <2>5. rows'[t] = s
    <3> HIDE DEF s
    <3> QED
      BY <1>0, <2>1, <2>3, <2>4, ReplaceTable
  <2>6. \A i \in Given(req[c].in) :
          Fields[i].kind \in ScalarKinds /\ req[c].in[i] # Zero(Fields[i]) => r[i] = req[c].in[i]
    BY <2>1, <2>2, MergeShows DEF Inserted
  <2> HIDE DEF s, r
  <2>7. Len(rows[t]) + 1 \in 1..Len(s)
    BY <2>3
  <2> QED
    BY <2>1, <2>3, <2>5, <2>6, <2>7 DEF Shown
<1> QED
  BY <1>1, <1>2

\* A client is inside a flush because the step started it with a change of
\* memory, or because it was; then memory is as it was.
LEMMA FlushStarts ==
  ASSUME TypeOK, LockInv, Next, NEW d \in Clients, pc'[d] \in {"open", "write"}
  PROVE  /\ req'[d] = req[d]
         /\ \/ rows' = rows /\ pc[d] \in {"open", "write"}
            \/ (UpsertHit(d) \/ InsertNew(d) \/ Delete(d)) /\ ~(\E st : Return(d, st))
<1>0. /\ NoClient \notin Clients
      /\ pc \in [Clients -> {"idle", "lock", "open", "write"}]
      /\ \A c \in Clients : pc[c] \in {"open", "write"} => holder = c
      /\ \A c \in Clients : pc[c] # "idle" => phase = "up"
      /\ phase \in {"up", "down"}
      /\ req \in [Clients -> Requests \cup {NoRequest}]
  BY StoreAssumption DEF TypeOK, LockInv, MutexHeld, DownIdle
<1>1. ~(\E st : Return(d, st))
  BY <1>0 DEF Return
<1>2. ASSUME NEW c \in Clients, Call(c) PROVE rows' = rows /\ c # d /\ pc'[d] = pc[d] /\ req'[d] = req[d]
  BY <1>0, <1>2 DEF Call
<1>3. ASSUME NEW c \in Clients, Runs(c)
      PROVE  \/ rows' = rows /\ c # d /\ pc'[d] = pc[d] /\ req'[d] = req[d]
             \/ c = d /\ StartFlush(d) /\ req'[d] = req[d]
  <2>1. CASE EmptyInsert(c)
    BY <1>0, <2>1 DEF EmptyInsert
  <2>2. CASE holder = NoClient /\ ((\E st : Return(c, st)) \/ StartFlush(c))
    <3>1. c = d
      BY <1>0, <2>2 DEF Return, StartFlush
    <3>2. StartFlush(d)
      BY <1>1, <2>2, <3>1
    <3>3. req'[d] = req[d]
      BY <1>1, <3>2 DEF StartFlush
    <3> QED
      BY <3>1, <3>2, <3>3
  <2> QED
    BY <1>3, <2>1, <2>2, RunsShape
<1>4. ASSUME Runs(d), StartFlush(d), pc[d] = "lock" PROVE UpsertHit(d) \/ InsertNew(d) \/ Delete(d)
  <2>1. ~(EmptyInsert(d) \/ TableNotFound(d) \/ InsertInvalid(d) \/ InsertHit(d) \/ DeleteInvalid(d) \/ Query(d))
    <3>1. ~EmptyInsert(d)
      BY <1>0 DEF EmptyInsert
    <3> QED
      BY <1>1, <3>1, Zenon DEF TableNotFound, InsertInvalid, InsertHit, DeleteInvalid, Query
  <2>2. ~TableSetup(d)
    BY <1>1, Zenon DEF TableSetup
  <2> QED
    BY <1>4, <2>1, <2>2 DEF Runs
<1>5. ASSUME NEW c \in Clients, Flushes(c)
      PROVE  rows' = rows /\ pc[d] \in {"open", "write"} /\ req'[d] = req[d]
  <2>1. /\ holder = c /\ rows' = rows
        /\ FlushOpen(c) \/ (\E st : Return(c, st))
    BY <1>0, <1>5 DEF Flushes, FlushOpen, FlushOpenFails, FlushWrite, FlushWriteFails
  <2>2. c = d
    BY <1>0, <2>1 DEF FlushOpen, Return
  <2> QED
    BY <1>1, <2>1, <2>2 DEF FlushOpen
<1>6. ~Crash
  BY <1>0 DEF Crash
<1>7. ~Restart
  BY <1>0 DEF Restart
<1> QED
  BY <1>1, <1>2, <1>3, <1>4, <1>5, <1>6, <1>7, RunsShape DEF Next

\* While a client flushes, memory shows what it wrote.
FlushShows ==
  \A c \in Clients : pc[c] \in {"open", "write"} /\ req[c].op \in {"insert", "upsert"} =>
    req[c].table \in Tables /\ Shown(req[c].in, rows[req[c].table])

LEMMA FlushShowsAlways == Spec => []FlushShows
<1>1. Init => FlushShows
  BY DEF Init, FlushShows
<1>2. TypeOK /\ LockInv /\ FlushShows /\ [Next]_vars => FlushShows'
  <2> SUFFICES ASSUME TypeOK, LockInv, FlushShows, [Next]_vars PROVE FlushShows'
    OBVIOUS
  <2>1. CASE UNCHANGED vars
    BY <2>1 DEF vars, FlushShows, Shown, Given
  <2>2. CASE Next
    <3> SUFFICES ASSUME NEW d \in Clients, pc'[d] \in {"open", "write"},
                        req'[d].op \in {"insert", "upsert"}
                 PROVE  req'[d].table \in Tables /\ Shown(req'[d].in, rows'[req'[d].table])
      BY DEF FlushShows
    <3>1. req'[d] = req[d]
      BY <2>2, FlushStarts
    <3>2. CASE rows' = rows /\ pc[d] \in {"open", "write"}
      BY <3>1, <3>2 DEF FlushShows
    <3>3. CASE (UpsertHit(d) \/ InsertNew(d) \/ Delete(d)) /\ ~Return(d, "error")
      <4>1. ~Delete(d)
        BY <3>1 DEF Delete, Serves, Enters
      <4> QED
        BY <3>1, <3>3, <4>1, WriteShows
    <3> QED
      BY <2>2, <3>2, <3>3, FlushStarts
  <2> QED
    BY <2>1, <2>2
<1> QED
  BY <1>1, <1>2, TypeCorrect, LockAlways, PTL DEF Spec

\* An insert or an upsert that is answered with success has left a row with
\* every nonzero string and number of the request in its table, whatever the
\* other clients did while the file was written.
THEOREM AckedWritesAreVisible == Spec => AckedWriteVisible
<1> DEFINE Visible == \A c \in Clients : Answers(c, "ok", {"insert", "upsert"}) =>
             LET in == req[c].in
                 s  == rows'[req[c].table] IN
             \E n \in 1..Len(s) : \A i \in Given(in) :
               Fields[i].kind \in ScalarKinds /\ in[i] # Zero(Fields[i]) => s[n][i] = in[i]
<1>1. TypeOK /\ FlushShows /\ [Next]_vars => [Visible]_vars
  <2> SUFFICES ASSUME TypeOK, FlushShows, Next, NEW c \in Clients,
                      Answers(c, "ok", {"insert", "upsert"})
               PROVE  Shown(req[c].in, rows'[req[c].table])
    BY DEF Shown
  <2>1. CASE FlushWrite(c)
    BY <2>1 DEF FlushWrite, FlushShows, Answers
  <2>2. CASE UpsertHit(c) \/ InsertNew(c)
    <3>1. ~Return(c, "error")
      BY DEF Return, Answers
    <3> QED
      BY <2>2, <3>1, WriteShows
  <2> QED
    BY <2>1, <2>2, WriteAnswered
<1> QED
  BY <1>1, TypeCorrect, FlushShowsAlways, PTL DEF Spec, AckedWriteVisible

-----------------------------------------------------------------------------
(* What an acknowledged delete has deleted. *)

\* No row of s has the primary key that the request gives.
Gone(in, s) == \A n \in 1..Len(s) : s[n][Pk] # in[Pk]

\* A delete takes the one row with its key away.
LEMMA DeleteRemoves ==
  ASSUME TypeOK, DistinctOn(rows, Pk), NEW c \in Clients, Delete(c)
  PROVE  req[c].table \in Tables /\ Gone(req[c].in, rows'[req[c].table])
<1> DEFINE t    == req[c].table
           in   == req[c].in
           hits == KeyRows(t, in)
           n    == FirstOf(hits)
<1>1. /\ t \in Tables /\ IsTable(rows[t]) /\ IsContent(rows)
      /\ KeysDiffer(rows[t]) /\ Len(rows[t]) \in Nat
  BY ServedRequest, DistinctTables DEF Delete, TypeOK, IsTable
<1>2. CASE hits = {}
  <2>1. rows' = rows
    BY <1>2 DEF Delete
  <2> QED
    BY <1>1, <1>2, <2>1 DEF Gone, KeyRows
<1>3. CASE hits # {}
  <2>1. hits \subseteq Nat
    BY <1>1 DEF KeyRows
  <2>2. n \in 1..Len(rows[t]) /\ rows[t][n][Pk] = in[Pk]
    <3>1. n \in hits
      BY <1>3, <2>1, FirstExists
    <3> QED
      BY <3>1 DEF KeyRows
  <2>3. rows' = [rows EXCEPT ![t] = DropRow(rows[t], n)]
    BY <1>3 DEF Delete
  <2> DEFINE d       == DropRow(rows[t], n)
             From(i) == IF i < n THEN i ELSE i + 1
  <2> HIDE DEF n
  <2>4. /\ IsTable(d) /\ Len(d) = Len(rows[t]) - 1
        /\ \A i \in 1..(Len(rows[t]) - 1) :
             d[i] = IF i < n THEN rows[t][i] ELSE rows[t][i + 1]
    BY <1>1, <2>2, DropFromTable
  <2> HIDE DEF d
  <2>5. rows'[t] = d
    BY <1>1, <2>3, <2>4, ReplaceTable DEF d
  <2>6. ASSUME NEW i \in 1..Len(d) PROVE d[i][Pk] # in[Pk]
    <3>1. From(i) \in 1..Len(rows[t]) /\ From(i) # n /\ d[i] = rows[t][From(i)]
      BY <1>1, <2>2, <2>4
    <3> QED
      BY <1>1, <2>2, <3>1 DEF KeysDiffer
  <2> QED
    BY <1>1, <2>5, <2>6 DEF Gone
<1> QED
  BY <1>2, <1>3

\* A delete is answered with success by the write of the file, or by the step
\* that deleted.
LEMMA DeleteAnswered ==
  ASSUME Next, NEW d \in Clients, Answers(d, "ok", {"delete"})
  PROVE  FlushWrite(d) \/ Delete(d)
<1>0. answer'.client = d /\ answer'.status = "ok" /\ req[d].op = "delete" /\ d # NoClient
  BY StoreAssumption DEF Answers
<1>1. ~Quiet
  BY <1>0 DEF Quiet
<1>2. \A c, status : Return(c, status) => c = d /\ status = "ok"
  BY <1>0 DEF Return
<1>3. \A c : StartFlush(c) => c = d
  BY <1>1, <1>2 DEF StartFlush
<1>4. ASSUME NEW c \in Clients, Runs(c) PROVE Delete(d)
  <2>1. c = d
    BY <1>0, <1>2, <1>3, <1>4, RunsShape DEF EmptyInsert
  <2>2. ~TableNotFound(d) /\ ~DeleteInvalid(d)
    <3>1. ~Return(d, "error")
      BY <1>2
    <3> QED
      BY <3>1 DEF TableNotFound, DeleteInvalid
  <2>3. /\ ~EmptyInsert(d) /\ ~TableSetup(d) /\ ~InsertInvalid(d) /\ ~InsertHit(d)
        /\ ~UpsertHit(d) /\ ~InsertNew(d) /\ ~Query(d)
    <3>1. \A ops : Enters(d, ops) => "delete" \in ops
      BY <1>0 DEF Enters
    <3>2. req[d].op \notin InsertOps
      BY <1>0 DEF InsertOps
    <3>3. ~EmptyInsert(d)
      BY <3>2 DEF EmptyInsert
    <3>4. ~Enters(d, {"setup"}) /\ ~Enters(d, {"query"}) /\ ~Enters(d, {"upsert"})
          /\ ~Enters(d, InsertOps) /\ ~Enters(d, {"insert", "igsert"})
      BY <3>1 DEF InsertOps
    <3> QED
      BY <3>3, <3>4, Zenon DEF TableSetup, InsertInvalid, InsertHit, UpsertHit, InsertNew, Query, Serves
  <2> QED
    BY <1>4, <2>1, <2>2, <2>3 DEF Runs
<1>5. ASSUME NEW c \in Clients, Flushes(c) PROVE FlushWrite(d)
  BY <1>1, <1>2, <1>5 DEF Flushes, FlushOpen, FlushOpenFails, FlushWrite, FlushWriteFails
<1> QED
  BY <1>1, <1>4, <1>5 DEF Next, Call, Crash, Restart

\* While a delete flushes, the row is gone from memory.
FlushGone ==
  \A c \in Clients : pc[c] \in {"open", "write"} /\ req[c].op = "delete" =>
    req[c].table \in Tables /\ Gone(req[c].in, rows[req[c].table])

LEMMA FlushGoneAlways ==
  ASSUME Uks = {}
  PROVE  Spec => []FlushGone
<1>1. Init => FlushGone
  BY DEF Init, FlushGone
<1>2. TypeOK /\ LockInv /\ PrimaryKeyUnique /\ FlushGone /\ [Next]_vars => FlushGone'
  <2> SUFFICES ASSUME TypeOK, LockInv, PrimaryKeyUnique, FlushGone, [Next]_vars
               PROVE  FlushGone'
    OBVIOUS
  <2>1. CASE UNCHANGED vars
    BY <2>1 DEF vars, FlushGone, Gone
  <2>2. CASE Next
    <3> SUFFICES ASSUME NEW d \in Clients, pc'[d] \in {"open", "write"}, req'[d].op = "delete"
                 PROVE  req'[d].table \in Tables /\ Gone(req'[d].in, rows'[req'[d].table])
      BY DEF FlushGone
    <3>1. req'[d] = req[d]
      BY <2>2, FlushStarts
    <3>2. CASE rows' = rows /\ pc[d] \in {"open", "write"}
      BY <3>1, <3>2 DEF FlushGone
    <3>3. CASE UpsertHit(d) \/ InsertNew(d) \/ Delete(d)
      <4>1. ~UpsertHit(d) /\ ~InsertNew(d)
        BY <3>1 DEF UpsertHit, InsertNew, Serves, Enters, InsertOps
      <4> QED
        BY <3>1, <3>3, <4>1, DeleteRemoves DEF PrimaryKeyUnique
    <3> QED
      BY <2>2, <3>2, <3>3, FlushStarts
  <2> QED
    BY <2>1, <2>2
<1> QED
  BY <1>1, <1>2, TypeCorrect, LockAlways, PrimaryKeyStaysUnique, PTL DEF Spec

\* In a table whose only key is the primary one, no row in memory has the key
\* of a delete that is answered with success.
THEOREM AckedDeletesRemove ==
  ASSUME Uks = {}
  PROVE  Spec => AckedDeleteRemoves
<1> DEFINE Removed == \A c \in Clients : Answers(c, "ok", {"delete"}) =>
             LET s == rows'[req[c].table]
             IN  \A n \in 1..Len(s) : s[n][Pk] # req[c].in[Pk]
<1>1. TypeOK /\ PrimaryKeyUnique /\ FlushGone /\ [Next]_vars => [Removed]_vars
  <2> SUFFICES ASSUME TypeOK, PrimaryKeyUnique, FlushGone, Next, NEW c \in Clients,
                      Answers(c, "ok", {"delete"})
               PROVE  Gone(req[c].in, rows'[req[c].table])
    BY DEF Gone
  <2>1. CASE FlushWrite(c)
    BY <2>1 DEF FlushWrite, FlushGone, Answers
  <2>2. CASE Delete(c)
    BY <2>2, DeleteRemoves DEF PrimaryKeyUnique
  <2> QED
    BY <2>1, <2>2, DeleteAnswered
<1> QED
  BY <1>1, TypeCorrect, PrimaryKeyStaysUnique, FlushGoneAlways, PTL DEF Spec, AckedDeleteRemoves

-----------------------------------------------------------------------------
(* Keys, primary and unique, stay unique. *)

UniqueOn(s, i) ==
  \A m, n \in 1..Len(s) : s[m][i] = s[n][i] /\ s[m][i] # "" => m = n

UniqueIn(s) == \A i \in Keyed : UniqueOn(s, i)

LEMMA UniqueTables ==
  \A content : KeysUniqueIn(content) <=> \A t \in Tables : UniqueIn(content[t])
  BY DEF KeysUniqueIn, UniqueIn, UniqueOn

LEMMA AppendUnique ==
  ASSUME NEW s, IsTable(s), NEW i, UniqueOn(s, i), NEW r, IsRow(r),
         r[i] # "" => \A j \in 1..Len(s) : s[j][i] # r[i]
  PROVE  UniqueOn(Append(s, r), i)
<1> DEFINE a == Append(s, r)
<1>1. /\ Len(a) = Len(s) + 1 /\ Len(s) \in Nat
      /\ \A j \in 1..Len(s) : a[j] = s[j]
      /\ a[Len(s) + 1] = r
  BY AppendTable
<1> HIDE DEF a
<1>2. ASSUME NEW m \in 1..Len(a), NEW n \in 1..Len(a), a[m][i] = a[n][i], a[m][i] # ""
      PROVE  m = n
  <2>1. (m \in 1..Len(s) \/ m = Len(s) + 1) /\ (n \in 1..Len(s) \/ n = Len(s) + 1)
    BY ONLY <1>1
  <2> QED
    BY <1>1, <1>2, <2>1 DEF UniqueOn
<1> QED
  BY <1>2 DEF UniqueOn, a

LEMMA ReplaceUnique ==
  ASSUME NEW s, IsTable(s), NEW i, UniqueOn(s, i), NEW n \in 1..Len(s),
         NEW r, IsRow(r),
         r[i] # s[n][i] /\ r[i] # "" => \A j \in 1..Len(s) : j # n => s[j][i] # r[i]
  PROVE  UniqueOn([s EXCEPT ![n] = r], i)
<1> DEFINE e == [s EXCEPT ![n] = r]
<1>1. Len(e) = Len(s) /\ \A j \in 1..Len(s) : e[j] = IF j = n THEN r ELSE s[j]
  <2>1. IsTable(s) /\ n \in 1..Len(s) /\ IsRow(r)
    OBVIOUS
  <2> QED
    BY ONLY <2>1, ReplaceInTable
<1> HIDE DEF e
<1>2. ASSUME NEW k \in 1..Len(s), NEW m \in 1..Len(s), e[k][i] = e[m][i], e[k][i] # ""
      PROVE  k = m
  BY <1>1, <1>2 DEF UniqueOn
<1> QED
  BY <1>1, <1>2 DEF UniqueOn, e

LEMMA ReplaceAllUnique ==
  ASSUME NEW s, IsTable(s), UniqueIn(s), NEW n \in 1..Len(s), NEW r, IsRow(r),
         \A i \in Keyed : r[i] # s[n][i] /\ r[i] # "" =>
           \A j \in 1..Len(s) : j # n => s[j][i] # r[i]
  PROVE  UniqueIn([s EXCEPT ![n] = r])
<1> SUFFICES ASSUME NEW i \in Keyed PROVE UniqueOn([s EXCEPT ![n] = r], i)
  BY DEF UniqueIn
<1>1. UniqueOn(s, i)
  BY DEF UniqueIn
<1>2. r[i] # s[n][i] /\ r[i] # "" => \A j \in 1..Len(s) : j # n => s[j][i] # r[i]
  OBVIOUS
<1>3. IsTable(s) /\ n \in 1..Len(s) /\ IsRow(r)
  OBVIOUS
<1> QED
  BY ONLY <1>1, <1>2, <1>3, ReplaceUnique

LEMMA DropUnique ==
  ASSUME NEW s, IsTable(s), NEW k, UniqueOn(s, k), NEW n \in 1..Len(s)
  PROVE  UniqueOn(DropRow(s, n), k)
<1> DEFINE d == DropRow(s, n)
           From(i) == IF i < n THEN i ELSE i + 1
<1>1. Len(d) = Len(s) - 1 /\ Len(s) \in Nat
  BY DropFromTable
<1>2. ASSUME NEW i \in 1..Len(d)
      PROVE  From(i) \in 1..Len(s) /\ d[i] = s[From(i)]
  BY <1>1, DropFromTable
<1>3. ASSUME NEW i \in 1..Len(d), NEW j \in 1..Len(d), d[i][k] = d[j][k], d[i][k] # ""
      PROVE  i = j
  <2>1. /\ From(i) \in 1..Len(s) /\ d[i] = s[From(i)]
        /\ From(j) \in 1..Len(s) /\ d[j] = s[From(j)]
    BY <1>2
  <2>2. From(i) = From(j) => i = j
    BY <1>1
  <2> HIDE DEF From, d
  <2>3. From(i) = From(j)
    BY <1>3, <2>1 DEF UniqueOn
  <2> QED
    BY <2>2, <2>3
<1> QED
  BY <1>3 DEF UniqueOn

\* No unique key has a default value: then a merge leaves what the row has or
\* gives it what the request gives.
PlainKeys == \A i \in Uks : DefValue(Fields[i]) = ""

LEMMA MergeKeyed ==
  ASSUME PlainKeys,
         NEW dst, NEW in, NEW i \in Keyed
  PROVE  LET m == Merge("unspec", dst, Decoded(in)) IN
         m.row[i] = dst[i] \/ (in[i] # Absent /\ m.row[i] = in[i])
<1> DEFINE f   == Fields[i]
           src == Decoded(in)
           m   == Merge("unspec", dst, src)
<1>1. i \in FieldIdx /\ f.kind = "string" /\ DefValue(f) = "" /\ Zero(f) = ""
  <2>1. i \in FieldIdx /\ f.kind = "string" /\ DefValue(f) = ""
    BY StoreAssumption DEF Keyed, PlainKeys
  <2> QED
    BY <2>1 DEF Zero, NumberKinds, SliceKinds, MapKinds
<1>2. src[i] = (IF in[i] = Absent THEN "" ELSE in[i]) /\ src[i] # Absent
  <2>1. "" # Absent
    BY <1>1, ValuesAssumption
  <2> QED
    BY <1>1, <2>1 DEF Decoded
<1> HIDE DEF src
<1>3. Merged(f, dst[i], src[i]) = IF src[i] # "" THEN src[i] ELSE dst[i]
  BY <1>1, <1>2 DEF Merged, ScalarKinds, HasDefault
<1>4. m.row[i] = IF i \in Reached("unspec", dst, src)
                 THEN Merged(f, dst[i], src[i]) ELSE dst[i]
  <2>1. i \in FieldIdx
    BY <1>1
  <2> QED
    BY ONLY <2>1, MergeAt
<1> QED
  BY <1>2, <1>3, <1>4 DEF src

\* A set with at most one element.
LEMMA AtMostOne ==
  ASSUME NEW S, IsFiniteSet(S), ~(Cardinality(S) > 1), NEW x \in S, NEW y \in S
  PROVE  x = y
<1> SUFFICES ASSUME x # y PROVE FALSE
  OBVIOUS
<1>1. IsFiniteSet({x}) /\ Cardinality({x}) = 1
  BY FS_Singleton
<1>2. IsFiniteSet({x} \cup {y}) /\ Cardinality({x} \cup {y}) = 2
  <2> DEFINE X == {x}
  <2>1. IsFiniteSet(X) /\ Cardinality(X) = 1 /\ y \notin X
    BY <1>1
  <2> HIDE DEF X
  <2>2. Cardinality(X \cup {y}) = Cardinality(X) + 1 /\ IsFiniteSet(X \cup {y})
    BY <2>1, FS_AddElement
  <2> QED
    BY <2>1, <2>2 DEF X
<1>3. Cardinality({x} \cup {y}) <= Cardinality(S)
  BY FS_Subset
<1>4. Cardinality(S) \in Nat
  BY FS_CardinalityType
<1> QED
  BY <1>2, <1>3, <1>4

LEMMA RowsStayUnique ==
  ASSUME PlainKeys, TypeOK, KeysUniqueIn(rows),
         NEW c \in Clients, UpsertHit(c) \/ InsertNew(c) \/ Delete(c), ~TakesOver(c)
  PROVE  KeysUniqueIn(rows')
<1>0. /\ IsContent(rows) /\ \A t \in Tables : IsTable(rows[t])
      /\ \A t \in Tables : UniqueIn(rows[t])
  BY UniqueTables DEF TypeOK, IsContent
<1>1. ASSUME NEW t \in Tables, NEW s, IsTable(s), UniqueIn(s),
             rows' = [rows EXCEPT ![t] = s]
      PROVE  KeysUniqueIn(rows')
  <2>1. \A u \in Tables : rows'[u] = IF u = t THEN s ELSE rows[u]
    BY <1>0, <1>1, ReplaceTable
  <2> QED
    BY <1>0, <1>1, <2>1, UniqueTables
<1> DEFINE t == req[c].table
<1>2. CASE UpsertHit(c)
  <2>1. t \in Tables /\ IsTable(rows[t])
    BY <1>2, UpsertStep
  <2>2. PICK in \in Completed(req[c].in) :
          /\ Hit(c, in) \in HitRows(t, in)
          /\ Hit(c, in) \in 1..Len(rows[t])
          /\ IsRow(Upserted(c, in).row)
          /\ rows' = [rows EXCEPT ![t] =
                        [rows[t] EXCEPT ![Hit(c, in)] = Upserted(c, in).row]]
          /\ StartFlush(c) \/ Return(c, "error")
    BY <1>2, UpsertStep
  <2> DEFINE n == Hit(c, in)
             r == Upserted(c, in).row
  <2>3. ~(Cardinality(HitRows(t, in)) > 1)
    <3>1. pc[c] = "lock" /\ req[c].op = "upsert"
      BY <1>2 DEF UpsertHit, Serves, Enters
    <3>2. pc'[c] # "lock"
      BY <2>2 DEF TypeOK, StartFlush, Return
    <3> QED
      BY <2>1, <3>1, <3>2 DEF TakesOver
  <2>4. IsFiniteSet(HitRows(t, in))
    <3>1. HitRows(t, in) \in SUBSET (1..Len(rows[t])) /\ Len(rows[t]) \in Nat
      BY <2>1 DEF HitRows, IsTable
    <3>2. IsFiniteSet(1..Len(rows[t]))
      BY <3>1, FS_Interval
    <3> QED
      BY ONLY <3>1, <3>2, FS_Subset
  <2>5. ASSUME NEW j \in 1..Len(rows[t]), j # n PROVE ~HitBy(rows[t][j], in)
    BY <2>2, <2>3, <2>4, <2>5, AtMostOne DEF HitRows
  <2>6. \A i \in Keyed : r[i] = rows[t][n][i] \/ (in[i] # Absent /\ r[i] = in[i])
    BY MergeKeyed DEF Upserted
  <2>7. UniqueIn([rows[t] EXCEPT ![n] = r]) /\ IsTable([rows[t] EXCEPT ![n] = r])
    <3>1. \A i \in Keyed : r[i] # rows[t][n][i] /\ r[i] # "" =>
            \A j \in 1..Len(rows[t]) : j # n => rows[t][j][i] # r[i]
      BY <2>5, <2>6 DEF HitBy
    <3>2. n \in 1..Len(rows[t]) /\ IsRow(r) /\ UniqueIn(rows[t])
      BY <1>0, <2>1, <2>2
    <3> HIDE DEF n, r, t
    <3>3. IsTable([rows[t] EXCEPT ![n] = r])
      BY <2>1, <3>2, ReplaceInTable
    <3> QED
      BY <2>1, <3>1, <3>2, <3>3, ReplaceAllUnique
  <2> QED
    BY <1>1, <2>1, <2>2, <2>7
<1>3. CASE InsertNew(c) /\ rows' # rows
  <2>1. t \in Tables /\ IsTable(rows[t])
    BY <1>3, InsertStep
  <2>0. \E in \in Completed(req[c].in) :
          /\ HitRows(t, in) = {}
          /\ IsRow(Inserted(in).row)
          /\ \/ rows' = [rows EXCEPT ![t] = Append(rows[t], Inserted(in).row)]
             \/ rows' = rows
    BY <1>3, InsertStep, ZenonT(60)
  <2>2. PICK in \in Completed(req[c].in) :
          /\ HitRows(t, in) = {}
          /\ IsRow(Inserted(in).row)
          /\ rows' = [rows EXCEPT ![t] = Append(rows[t], Inserted(in).row)]
    BY <1>3, <2>0
  <2> DEFINE r == Inserted(in).row
  <2>3. \A i \in Keyed : ZeroRow[i] = ""
    <3> TAKE i \in Keyed
    <3>1. i \in FieldIdx /\ Fields[i].kind = "string"
      BY StoreAssumption DEF Keyed
    <3> QED
      BY <3>1 DEF ZeroRow, Zero, NumberKinds, SliceKinds, MapKinds
  <2>4. \A i \in Keyed : r[i] = "" \/ (in[i] # Absent /\ r[i] = in[i])
    BY <2>3, MergeKeyed, ZenonT(60) DEF Inserted
  <2>5. \A i \in Keyed : r[i] # "" => \A j \in 1..Len(rows[t]) : rows[t][j][i] # r[i]
    BY <2>2, <2>4 DEF HitRows, HitBy
  <2>6. UniqueIn(Append(rows[t], r)) /\ IsTable(Append(rows[t], r))
    <3>1. IsTable(rows[t]) /\ IsRow(r)
      BY <2>1, <2>2
    <3>2. \A i \in Keyed : UniqueOn(rows[t], i)
      BY <1>0, <2>1 DEF UniqueIn
    <3> HIDE DEF r, t
    <3>3. ASSUME NEW i \in Keyed PROVE UniqueOn(Append(rows[t], r), i)
      <4>1. /\ IsTable(rows[t]) /\ IsRow(r) /\ UniqueOn(rows[t], i)
            /\ r[i] # "" => \A j \in 1..Len(rows[t]) : rows[t][j][i] # r[i]
        BY <2>5, <3>1, <3>2
      <4> QED
        BY ONLY <4>1, AppendUnique, ZenonT(60)
    <3> QED
      BY <3>1, <3>3, AppendTable DEF UniqueIn
  <2> QED
    BY <1>1, <2>1, <2>2, <2>6
<1>4. CASE Delete(c) /\ rows' # rows
  <2>1. PICK u \in Tables : \E n \in 1..Len(rows[u]) :
          rows' = [rows EXCEPT ![u] = DropRow(rows[u], n)]
    BY <1>4, DeleteDrops
  <2>2. PICK n \in 1..Len(rows[u]) :
          rows' = [rows EXCEPT ![u] = DropRow(rows[u], n)]
    BY <2>1
  <2>3. IsTable(DropRow(rows[u], n)) /\ UniqueIn(DropRow(rows[u], n))
    BY <1>0, <2>2, DropFromTable, DropUnique DEF UniqueIn
  <2> QED
    BY <1>1, <2>2, <2>3
<1>5. CASE rows' = rows
  BY <1>5
<1> QED
  BY <1>2, <1>3, <1>4, <1>5

\* When no unique key has a default value, no step makes two rows of a table
\* share a nonblank key, in memory or in the file, but for an upsert that hits
\* one row by one of its keys and another by the other.
THEOREM KeysAreKeptUnique ==
  ASSUME PlainKeys
  PROVE  Spec => KeysStayUnique
<1> DEFINE Kept ==
      KeysUniqueIn(rows) /\ KeysUniqueIn(file.rows) /\ ~(\E c \in Clients : TakesOver(c))
        => KeysUniqueIn(rows') /\ KeysUniqueIn(file'.rows)
<1>0. KeysUniqueIn(NoRows)
  <2>1. \A t \in Tables : Len(NoRows[t]) = 0
    BY EmptySeq DEF NoRows
  <2>2. \A t \in Tables : UniqueIn(NoRows[t])
    <3> TAKE t \in Tables
    <3>1. \A n : n \notin 1..Len(NoRows[t])
      BY <2>1
    <3> QED
      BY ONLY <3>1 DEF UniqueIn, UniqueOn
  <2> QED
    BY <2>2, UniqueTables
<1>1. TypeOK /\ [Next]_vars => [Kept]_vars
  <2> SUFFICES ASSUME TypeOK, Next, KeysUniqueIn(rows), KeysUniqueIn(file.rows),
                      ~(\E c \in Clients : TakesOver(c))
               PROVE  KeysUniqueIn(rows') /\ KeysUniqueIn(file'.rows)
    OBVIOUS
  <2>1. ASSUME NEW c \in Clients, Call(c)
        PROVE  KeysUniqueIn(rows') /\ KeysUniqueIn(file'.rows)
    BY <2>1 DEF Call
  <2>2. ASSUME NEW c \in Clients, Runs(c)
        PROVE  KeysUniqueIn(rows') /\ KeysUniqueIn(file'.rows)
    <3>1. file' = file
      BY <2>2, RunsShape
    <3>2. CASE UpsertHit(c) \/ InsertNew(c) \/ Delete(c)
      BY <3>1, <3>2, RowsStayUnique
    <3>3. CASE ~(UpsertHit(c) \/ InsertNew(c) \/ Delete(c))
      BY <2>2, <3>1, <3>3
      DEF Runs, EmptyInsert, TableSetup, TableNotFound, InsertInvalid,
          InsertHit, DeleteInvalid, Query
    <3> QED
      BY <3>2, <3>3
  <2>3. ASSUME NEW c \in Clients, Flushes(c)
        PROVE  KeysUniqueIn(rows') /\ KeysUniqueIn(file'.rows)
    BY <1>0, <2>3
    DEF Flushes, FlushOpen, FlushOpenFails, FlushWrite, FlushWriteFails, Torn, Image
  <2>4. CASE Crash
    BY <1>0, <2>4 DEF Crash
  <2>5. CASE Restart
    BY <2>5 DEF Restart
  <2> QED
    BY <2>1, <2>2, <2>3, <2>4, <2>5 DEF Next
<1> QED
  BY <1>1, TypeCorrect, PTL DEF Spec, KeysStayUnique

-----------------------------------------------------------------------------
(* The map that a table stands for. *)

TableMap(s) ==
  [k \in Keys |->
     LET hits == {n \in 1..Len(s) : s[n][Pk] = k}
     IN  IF hits = {} THEN NoRow ELSE s[FirstOf(hits)]]

LEMMA MapOfTables ==
  \A content : AsMap(content) = [t \in Tables |-> TableMap(content[t])]
  BY DEF AsMap, TableMap

LEMMA TableKeys ==
  ASSUME NEW s, IsTable(s), NEW n \in 1..Len(s)
  PROVE  s[n][Pk] \in Keys
  BY KeyField DEF IsTable, IsRow, Keys

\* A key that a row has is mapped to that row, and any other to none.
LEMMA TableMapAt ==
  ASSUME NEW s, IsTable(s), KeysDiffer(s)
  PROVE  /\ \A n \in 1..Len(s) : TableMap(s)[s[n][Pk]] = s[n]
         /\ \A k \in Keys :
              (\A n \in 1..Len(s) : s[n][Pk] # k) => TableMap(s)[k] = NoRow
<1>1. ASSUME NEW n \in 1..Len(s) PROVE TableMap(s)[s[n][Pk]] = s[n]
  <2> DEFINE hits == {i \in 1..Len(s) : s[i][Pk] = s[n][Pk]}
  <2>1. hits = {n}
    BY DEF KeysDiffer
  <2>2. FirstOf(hits) = n
    <3>1. n \in Nat /\ hits \subseteq Nat
      BY <2>1 DEF IsTable
    <3> QED
      BY <2>1, <3>1, FirstExists
  <2>3. s[n][Pk] \in Keys
    BY TableKeys
  <2> QED
    BY <2>1, <2>2, <2>3 DEF TableMap
<1>2. ASSUME NEW k \in Keys, \A n \in 1..Len(s) : s[n][Pk] # k
      PROVE  TableMap(s)[k] = NoRow
  BY <1>2 DEF TableMap
<1> QED
  BY <1>1, <1>2

LEMMA EmptyMap == TableMap(<<>>) = [k \in Keys |-> NoRow]
<1>1. 1..Len(<<>>) = {}
  BY EmptySeq
<1> QED
  BY <1>1 DEF TableMap

LEMMA AppendMap ==
  ASSUME NEW s, IsTable(s), KeysDiffer(s), NEW r, IsRow(r),
         \A i \in 1..Len(s) : s[i][Pk] # r[Pk]
  PROVE  TableMap(Append(s, r)) = [TableMap(s) EXCEPT ![r[Pk]] = r]
<1> DEFINE a == Append(s, r)
<1>1. /\ IsTable(a) /\ Len(a) = Len(s) + 1 /\ Len(s) \in Nat
      /\ \A i \in 1..Len(s) : a[i] = s[i]
      /\ a[Len(s) + 1] = r
  BY AppendTable
<1>2. KeysDiffer(a)
  BY AppendKeysDiffer
<1>3. \A i \in 1..Len(a) : i \in 1..Len(s) \/ i = Len(s) + 1
  BY <1>1
<1>4. Len(s) + 1 \in 1..Len(a) /\ \A i \in 1..Len(s) : i \in 1..Len(a)
  BY <1>1
<1> HIDE DEF a
<1>5. ASSUME NEW k \in Keys
      PROVE  TableMap(a)[k] = IF k = r[Pk] THEN r ELSE TableMap(s)[k]
  <2>1. CASE k = r[Pk]
    BY <1>1, <1>2, <1>4, <2>1, TableMapAt
  <2>2. CASE k # r[Pk] /\ \E n \in 1..Len(s) : s[n][Pk] = k
    <3>1. PICK n \in 1..Len(s) : s[n][Pk] = k
      BY <2>2
    <3>2. TableMap(s)[k] = s[n]
      BY <3>1, TableMapAt
    <3>3. TableMap(a)[a[n][Pk]] = a[n]
      BY <1>1, <1>2, <1>4, TableMapAt
    <3> QED
      BY <1>1, <2>2, <3>1, <3>2, <3>3
  <2>3. CASE k # r[Pk] /\ \A n \in 1..Len(s) : s[n][Pk] # k
    <3>1. TableMap(s)[k] = NoRow
      BY <2>3, TableMapAt
    <3>2. \A n \in 1..Len(a) : a[n][Pk] # k
      BY <1>1, <1>3, <2>3
    <3> QED
      BY <1>1, <1>2, <2>3, <3>1, <3>2, TableMapAt
  <2> QED
    BY <2>1, <2>2, <2>3
<1>6. /\ TableMap(a) = [k \in Keys |-> TableMap(a)[k]]
      /\ TableMap(s) = [k \in Keys |-> TableMap(s)[k]]
  BY DEF TableMap
<1>7. TableMap(a) = [TableMap(s) EXCEPT ![r[Pk]] = r]
  BY <1>5, <1>6
<1> QED
  BY <1>7 DEF a

LEMMA ReplaceMap ==
  ASSUME NEW s, IsTable(s), KeysDiffer(s), NEW n \in 1..Len(s),
         NEW r, IsRow(r), r[Pk] = s[n][Pk]
  PROVE  TableMap([s EXCEPT ![n] = r]) = [TableMap(s) EXCEPT ![r[Pk]] = r]
<1> DEFINE e == [s EXCEPT ![n] = r]
<1>1. /\ IsTable(e) /\ Len(e) = Len(s)
      /\ \A j \in 1..Len(s) : e[j] = IF j = n THEN r ELSE s[j]
  BY ReplaceInTable
<1>2. KeysDiffer(e)
  BY ReplaceKeysDiffer
<1> HIDE DEF e
<1>5. ASSUME NEW k \in Keys
      PROVE  TableMap(e)[k] = IF k = r[Pk] THEN r ELSE TableMap(s)[k]
  <2>1. CASE k = r[Pk]
    BY <1>1, <1>2, <2>1, TableMapAt
  <2>2. CASE k # r[Pk] /\ \E j \in 1..Len(s) : s[j][Pk] = k
    <3>1. PICK j \in 1..Len(s) : s[j][Pk] = k
      BY <2>2
    <3>2. TableMap(s)[k] = s[j]
      BY <3>1, TableMapAt
    <3>3. TableMap(e)[e[j][Pk]] = e[j]
      BY <1>1, <1>2, TableMapAt
    <3> QED
      BY <1>1, <2>2, <3>1, <3>2, <3>3
  <2>3. CASE k # r[Pk] /\ \A j \in 1..Len(s) : s[j][Pk] # k
    <3>1. TableMap(s)[k] = NoRow
      BY <2>3, TableMapAt
    <3>2. \A j \in 1..Len(e) : e[j][Pk] # k
      BY <1>1, <2>3
    <3> QED
      BY <1>1, <1>2, <2>3, <3>1, <3>2, TableMapAt
  <2> QED
    BY <2>1, <2>2, <2>3
<1>6. /\ TableMap(e) = [k \in Keys |-> TableMap(e)[k]]
      /\ TableMap(s) = [k \in Keys |-> TableMap(s)[k]]
  BY DEF TableMap
<1>7. TableMap(e) = [TableMap(s) EXCEPT ![r[Pk]] = r]
  BY <1>5, <1>6
<1> QED
  BY <1>7 DEF e

LEMMA DropMap ==
  ASSUME NEW s, IsTable(s), KeysDiffer(s), NEW n \in 1..Len(s)
  PROVE  TableMap(DropRow(s, n)) = [TableMap(s) EXCEPT ![s[n][Pk]] = NoRow]
<1> DEFINE d == DropRow(s, n)
<1>1. /\ IsTable(d) /\ Len(d) = Len(s) - 1 /\ Len(s) \in Nat
      /\ \A i \in 1..(Len(s) - 1) : d[i] = IF i < n THEN s[i] ELSE s[i + 1]
  BY DropFromTable
<1>2. KeysDiffer(d)
  BY DropKeysDiffer
<1> HIDE DEF d
<1>3. ASSUME NEW i \in 1..Len(s), i # n
      PROVE  \E j \in 1..Len(d) : d[j] = s[i]
  <2>1. CASE i < n
    <3>1. i \in 1..(Len(s) - 1)
      BY <1>1, <2>1
    <3> QED
      BY <1>1, <2>1, <3>1
  <2>2. CASE ~(i < n)
    <3>1. i - 1 \in 1..(Len(s) - 1) /\ ~(i - 1 < n) /\ (i - 1) + 1 = i
      BY <1>1, <1>3, <2>2
    <3> QED
      BY <1>1, <3>1
  <2> QED
    BY <2>1, <2>2
<1>4. ASSUME NEW j \in 1..Len(d) PROVE \E i \in 1..Len(s) : i # n /\ d[j] = s[i]
  <2>1. j \in 1..(Len(s) - 1) /\ j \in 1..Len(s) /\ j + 1 \in 1..Len(s)
    BY <1>1
  <2> QED
    BY <1>1, <2>1
<1>5. ASSUME NEW k \in Keys
      PROVE  TableMap(d)[k] = IF k = s[n][Pk] THEN NoRow ELSE TableMap(s)[k]
  <2>1. CASE k = s[n][Pk]
    <3>1. \A j \in 1..Len(d) : d[j][Pk] # k
      BY <1>4, <2>1 DEF KeysDiffer
    <3> QED
      BY <1>1, <1>2, <2>1, <3>1, TableMapAt
  <2>2. CASE k # s[n][Pk] /\ \E i \in 1..Len(s) : s[i][Pk] = k
    <3>1. PICK i \in 1..Len(s) : s[i][Pk] = k
      BY <2>2
    <3>2. PICK j \in 1..Len(d) : d[j] = s[i]
      BY <1>3, <2>2, <3>1
    <3>3. TableMap(s)[k] = s[i]
      BY <3>1, TableMapAt
    <3>4. TableMap(d)[d[j][Pk]] = d[j]
      BY <1>1, <1>2, TableMapAt
    <3> QED
      BY <2>2, <3>1, <3>2, <3>3, <3>4
  <2>3. CASE k # s[n][Pk] /\ \A i \in 1..Len(s) : s[i][Pk] # k
    <3>1. TableMap(s)[k] = NoRow
      BY <2>3, TableMapAt
    <3>2. \A j \in 1..Len(d) : d[j][Pk] # k
      BY <1>4, <2>3
    <3> QED
      BY <1>1, <1>2, <2>3, <3>1, <3>2, TableMapAt
  <2> QED
    BY <2>1, <2>2, <2>3
<1>6. /\ TableMap(d) = [k \in Keys |-> TableMap(d)[k]]
      /\ TableMap(s) = [k \in Keys |-> TableMap(s)[k]]
  BY DEF TableMap
<1>7. TableMap(d) = [TableMap(s) EXCEPT ![s[n][Pk]] = NoRow]
  BY <1>5, <1>6
<1> QED
  BY <1>7 DEF d

\* One table changed is one row of the map of tables changed.
WithRow(map, t, k, r) == [map EXCEPT ![t][k] = r]

LEMMA OneTableMap ==
  ASSUME NEW content, IsContent(content), NEW t \in Tables, NEW s, NEW k, NEW r,
         TableMap(s) = [TableMap(content[t]) EXCEPT ![k] = r]
  PROVE  AsMap([content EXCEPT ![t] = s]) = WithRow(AsMap(content), t, k, r)
<1> DEFINE changed == [content EXCEPT ![t] = s]
<1>1. \A u \in Tables : changed[u] = IF u = t THEN s ELSE content[u]
  BY DEF IsContent
<1>2. AsMap(content) = [u \in Tables |-> TableMap(content[u])]
  BY MapOfTables
<1>3. AsMap(changed) = [u \in Tables |-> TableMap(changed[u])]
  BY MapOfTables
<1> HIDE DEF changed
<1>4. AsMap(changed) = [AsMap(content) EXCEPT ![t] = [TableMap(content[t]) EXCEPT ![k] = r]]
  BY <1>1, <1>2, <1>3
<1>5. AsMap(content)[t] = TableMap(content[t])
  BY <1>2
<1>6. AsMap(changed) = WithRow(AsMap(content), t, k, r)
  BY <1>4, <1>5 DEF WithRow
<1> QED
  BY <1>6 DEF changed

-----------------------------------------------------------------------------
(* Each step of the store as a step of the map. *)

\* Nothing is answered while the process is down.
DownQuiet ==
  phase = "down" => answer = [client |-> NoClient, status |-> "ok"]

LEMMA DownQuietStep == LockInv /\ DownQuiet /\ [Next]_vars => DownQuiet'
<1> SUFFICES ASSUME LockInv, DownQuiet, [Next]_vars PROVE DownQuiet'
  OBVIOUS
<1>1. ASSUME NEW c \in Clients, Call(c) PROVE DownQuiet'
  BY <1>1 DEF Call, DownQuiet
<1>2. ASSUME NEW c \in Clients, Runs(c) \/ Flushes(c) PROVE DownQuiet'
  <2>1. phase # "down"
    <3>1. pc[c] # "idle"
      BY <1>2, RunsShape DEF Flushes, FlushOpen, FlushOpenFails, FlushWrite,
         FlushWriteFails
    <3> QED
      BY <3>1 DEF LockInv, DownIdle
  <2>2. phase' = phase
    BY <1>2, RunsShape DEF Flushes, FlushOpen, FlushOpenFails, FlushWrite,
       FlushWriteFails
  <2> QED
    BY <2>1, <2>2 DEF DownQuiet
<1>3. CASE Crash \/ Restart
  BY <1>3 DEF Crash, Restart, Quiet, DownQuiet
<1>4. CASE UNCHANGED vars
  BY <1>4 DEF vars, DownQuiet
<1> QED
  BY <1>1, <1>2, <1>3, <1>4 DEF Next

\* A row is in the map just when its table has it.
LEMMA PresentInMap ==
  ASSUME IsContent(rows), DistinctOn(rows, Pk), NoRow \notin RowSet,
         NEW r \in Requests, r.table \in Tables
  PROVE  Map!Present(r) <=>
           \E n \in 1..Len(rows[r.table]) : rows[r.table][n][Pk] = r.in[Pk]
<1> DEFINE s == rows[r.table]
<1>1. IsTable(s) /\ KeysDiffer(s)
  BY DistinctTables DEF IsContent
<1>2. AsMap(rows)[r.table] = TableMap(s)
  BY MapOfTables
<1>3. \A n \in 1..Len(s) : s[n][Pk] \in Keys /\ s[n] # NoRow
  BY <1>1, TableKeys, RowSetIsRow DEF IsTable
<1>4. ASSUME r.in[Pk] \in Keys
      PROVE  TableMap(s)[r.in[Pk]] # NoRow <=> \E n \in 1..Len(s) : s[n][Pk] = r.in[Pk]
  BY <1>1, <1>3, <1>4, TableMapAt
<1>5. Map!Present(r) <=> r.in[Pk] \in Keys /\ TableMap(s)[r.in[Pk]] # NoRow
  BY <1>2 DEF Map!Present, Map!Known, RequestKey
<1> HIDE DEF s
<1>6. Map!Present(r) <=> \E n \in 1..Len(s) : s[n][Pk] = r.in[Pk]
  BY <1>3, <1>4, <1>5
<1> QED
  BY <1>6 DEF s

LEMMA ReturnAnswers ==
  ASSUME TypeOK, NEW c \in Clients, NEW status, Return(c, status)
  PROVE  Map!Answer(c, status)
<1>1. pc \in [Clients -> {"idle", "lock", "open", "write"}]
  BY DEF TypeOK
<1>2. [d \in Clients |-> Stage(d)]' = [[d \in Clients |-> Stage(d)] EXCEPT ![c] = "idle"]
  BY <1>1 DEF Return, Stage
<1> QED
  BY <1>2 DEF Return, Map!Answer

LEMMA FlushApplies ==
  ASSUME TypeOK, FileBacked, NEW c \in Clients, StartFlush(c)
  PROVE  /\ [d \in Clients |-> Stage(d)]' = [[d \in Clients |-> Stage(d)] EXCEPT ![c] = "applied"]
         /\ Map!Quiet /\ UNCHANGED req
<1>1. pc \in [Clients -> {"idle", "lock", "open", "write"}]
  BY DEF TypeOK
<1> QED
  BY <1>1 DEF StartFlush, Stage, Quiet, Map!Quiet

LEMMA CallMaps ==
  ASSUME TypeOK, NEW c \in Clients, Call(c)
  PROVE  Map!Call(c)
<1>1. pc \in [Clients -> {"idle", "lock", "open", "write"}]
  BY DEF TypeOK
<1>2. [d \in Clients |-> Stage(d)]' = [[d \in Clients |-> Stage(d)] EXCEPT ![c] = "called"]
  BY <1>1 DEF Call, Stage
<1>3. [d \in Clients |-> Stage(d)][c] = "idle"
  BY DEF Call, Stage
<1>4. /\ UNCHANGED <<rows, file, phase>> /\ phase = "up"
      /\ \E r \in Requests : req' = [req EXCEPT ![c] = r]
      /\ Map!Quiet
  BY DEF Call, Quiet, Map!Quiet
<1>5. UNCHANGED <<AsMap(rows), [readable |-> file.state # "torn", store |-> AsMap(file.rows)],
                  phase = "up">>
  BY <1>4
<1> QED
  BY <1>2, <1>3, <1>4, <1>5 DEF Map!Call

\* A call that leaves the tables alone and may answer what it does.
LEMMA ObserveMaps ==
  ASSUME NEW c \in Clients, pc[c] = "lock", UNCHANGED <<rows, file, phase>>,
         NEW status, Map!Answer(c, status),
         \/ status = "error"
         \/ req[c].op = "query" /\ status \in {"ok", "notfound"}
         \/ req[c].op = "setup" /\ status = "ok"
         \/ req[c].op = "insert" /\ Map!Present(req[c]) /\ status = "conflict"
         \/ req[c].op = "igsert" /\ Map!Present(req[c]) /\ status = "ok"
         \/ req[c].op = "delete" /\ ~Map!Present(req[c]) /\ status = "ok"
  PROVE  Map!Observe(c)
<1>1. [d \in Clients |-> Stage(d)][c] = "called"
  BY DEF Stage
<1>2. UNCHANGED <<AsMap(rows), [readable |-> file.state # "torn", store |-> AsMap(file.rows)],
                  phase = "up">>
  OBVIOUS
<1> QED
  BY <1>1, <1>2 DEF Map!Observe

\* Errors, queries and table set-ups.
LEMMA ReadMaps ==
  ASSUME TypeOK, NEW c \in Clients,
         \/ EmptyInsert(c) \/ TableSetup(c) \/ TableNotFound(c) \/ InsertInvalid(c)
         \/ DeleteInvalid(c) \/ Query(c)
  PROVE  Map!Observe(c)
<1>1. CASE EmptyInsert(c)
  <2>1. pc \in [Clients -> {"idle", "lock", "open", "write"}]
    BY DEF TypeOK
  <2>2. [d \in Clients |-> Stage(d)]' = [[d \in Clients |-> Stage(d)] EXCEPT ![c] = "idle"]
    BY <1>1, <2>1 DEF EmptyInsert, Stage
  <2>3. Map!Answer(c, "error") /\ pc[c] = "lock" /\ UNCHANGED <<rows, file, phase>>
    BY <1>1, <2>2 DEF EmptyInsert, Map!Answer
  <2> QED
    BY <2>3, ObserveMaps
<1>2. CASE TableNotFound(c) \/ InsertInvalid(c) \/ DeleteInvalid(c)
  <2>1. pc[c] = "lock" /\ Return(c, "error") /\ UNCHANGED <<rows, file, phase>>
    BY <1>2 DEF TableNotFound, InsertInvalid, DeleteInvalid, Serves, Enters
  <2> QED
    BY <2>1, ReturnAnswers, ObserveMaps
<1>3. CASE TableSetup(c)
  <2>1. /\ pc[c] = "lock" /\ req[c].op = "setup" /\ UNCHANGED <<rows, file, phase>>
        /\ Return(c, "ok") \/ Return(c, "error")
    BY <1>3 DEF TableSetup, Enters
  <2> QED
    BY <2>1, ReturnAnswers, ObserveMaps
<1>4. CASE Query(c)
  <2>1. /\ pc[c] = "lock" /\ req[c].op = "query" /\ UNCHANGED <<rows, file, phase>>
        /\ Return(c, "ok") \/ Return(c, "notfound")
    BY <1>4 DEF Query, Serves, Enters
  <2> QED
    BY <2>1, ReturnAnswers, ObserveMaps
<1> QED
  BY <1>1, <1>2, <1>3, <1>4

\* Without generated keys the request is taken as it is.
LEMMA CompletedAsIs ==
  ASSUME GenIds = {}, NEW r \in Requests, NEW in \in Completed(r.in)
  PROVE  in = r.in /\ in[Pk] # Absent
  BY DEF Completed

LEMMA HitIsPresent ==
  ASSUME Uks = {}, GenIds = {}, IsContent(rows), DistinctOn(rows, Pk), NoRow \notin RowSet,
         NEW r \in Requests, r.table \in Tables, NEW in \in Completed(r.in)
  PROVE  Map!Present(r) <=> HitRows(r.table, in) # {}
<1>1. in = r.in /\ in[Pk] # Absent
  BY CompletedAsIs
<1>2. HitRows(r.table, in) = {n \in 1..Len(rows[r.table]) : rows[r.table][n][Pk] = r.in[Pk]}
  BY <1>1, HitIsKey DEF HitRows
<1> QED
  BY <1>2, PresentInMap

LEMMA InsertHitMaps ==
  ASSUME Uks = {}, GenIds = {}, TypeOK, DistinctOn(rows, Pk), NoRow \notin RowSet,
         NEW c \in Clients, InsertHit(c)
  PROVE  Map!Observe(c)
<1>1. /\ req[c] \in Requests /\ req[c].op \in {"insert", "igsert"}
      /\ req[c].table \in Tables /\ pc[c] = "lock" /\ IsContent(rows)
  BY ServedRequest DEF InsertHit, TypeOK
<1>2. PICK in \in Completed(req[c].in) : HitRows(req[c].table, in) # {}
  BY DEF InsertHit
<1>3. Map!Present(req[c])
  BY <1>1, <1>2, HitIsPresent
<1>4. /\ UNCHANGED <<rows, file, phase>>
      /\ \/ req[c].op = "insert" /\ Return(c, "conflict")
         \/ req[c].op = "igsert" /\ Return(c, "ok")
  BY <1>1 DEF InsertHit
<1> QED
  BY <1>1, <1>3, <1>4, ReturnAnswers, ObserveMaps

\* The rows that KeyedStore may hold under a key are those of the table.
IsRowsOf == RowsOf = [k \in Keys |-> {r \in RowSet : r[Pk] = k}]

LEMMA UpsertHitMaps ==
  ASSUME FileBacked, Uks = {}, GenIds = {}, IsRowsOf, TypeOK, DistinctOn(rows, Pk),
         NoRow \notin RowSet, NEW c \in Clients, UpsertHit(c)
  PROVE  Map!Put(c) \/ Map!Spoil(c)
<1> DEFINE t == req[c].table
           s == rows[t]
           k == req[c].in[Pk]
<1>1. /\ req[c] \in Requests /\ t \in Tables /\ IsTable(s)
      /\ req[c].op = "upsert" /\ pc[c] = "lock"
      /\ IsContent(rows) /\ KeysDiffer(s)
      /\ UNCHANGED <<file, phase>>
  BY ServedRequest, DistinctTables DEF UpsertHit, TypeOK
<1>2. PICK in \in Completed(req[c].in) :
        /\ Hit(c, in) \in HitRows(t, in)
        /\ Hit(c, in) \in 1..Len(s)
        /\ IsSource(Decoded(in))
        /\ IsRow(Upserted(c, in).row)
        /\ rows' = [rows EXCEPT ![t] = [s EXCEPT ![Hit(c, in)] = Upserted(c, in).row]]
        /\ IF Upserted(c, in).ok THEN StartFlush(c) ELSE Return(c, "error")
  BY UpsertStep
<1> DEFINE n == Hit(c, in)
           row == Upserted(c, in).row
<1>3. in = req[c].in /\ in[Pk] # Absent
  BY <1>1, CompletedAsIs
<1>4. s[n][Pk] = k
  BY <1>2, <1>3, HitIsKey DEF HitRows
<1>5. row[Pk] = k
  <2>1. Decoded(in)[Pk] = k /\ Decoded(in)[Pk] # Absent
    BY <1>3, KeyField DEF Decoded
  <2>2. row[Pk] \in {s[n][Pk], Decoded(in)[Pk]}
    BY <2>1, MergeKey DEF Upserted
  <2> QED
    BY <1>4, <2>1, <2>2
<1>6. k \in Keys /\ row \in RowsOf[k]
  <2>1. k \in Keys
    BY <1>1, <1>2, <1>4, TableKeys
  <2> QED
    BY <1>2, <1>5, <2>1, RowSetIsRow DEF IsRowsOf
<1>7. AsMap(rows') = WithRow(AsMap(rows), t, k, row)
  <2>1. /\ n \in 1..Len(s) /\ IsTable(s) /\ KeysDiffer(s) /\ IsRow(row) /\ s = rows[t]
        /\ row[Pk] = s[n][Pk] /\ row[Pk] = k /\ t \in Tables /\ IsContent(rows)
        /\ rows' = [rows EXCEPT ![t] = [s EXCEPT ![n] = row]]
    BY <1>1, <1>2, <1>4, <1>5
  <2> HIDE DEF n, row, s, k, t
  <2>2. TableMap([s EXCEPT ![n] = row]) = [TableMap(s) EXCEPT ![row[Pk]] = row]
    BY <2>1, ReplaceMap, ZenonT(60)
  <2>3. TableMap([s EXCEPT ![n] = row]) = [TableMap(rows[t]) EXCEPT ![k] = row]
    BY <2>1, <2>2
  <2> DEFINE e == [s EXCEPT ![n] = row]
  <2>4. TableMap(e) = [TableMap(rows[t]) EXCEPT ![k] = row] /\ rows' = [rows EXCEPT ![t] = e]
    BY <2>1, <2>3
  <2> HIDE DEF e
  <2>5. /\ IsContent(rows) /\ t \in Tables
        /\ TableMap(e) = [TableMap(rows[t]) EXCEPT ![k] = row]
    BY <2>1, <2>4
  <2>6. AsMap([rows EXCEPT ![t] = e]) = WithRow(AsMap(rows), t, k, row)
    BY ONLY <2>5, OneTableMap
  <2> QED
    BY <2>4, <2>6
<1>8. Map!Known(req[c]) /\ Map!Present(req[c])
  BY <1>1, <1>2, <1>6, HitIsPresent DEF Map!Known, RequestKey
<1>9. [d \in Clients |-> Stage(d)][c] = "called"
  BY <1>1 DEF Stage
<1>10. UNCHANGED <<[readable |-> file.state # "torn", store |-> AsMap(file.rows)],
                   phase = "up">>
  BY <1>1
<1>11. CASE StartFlush(c)
  <2>1. /\ [d \in Clients |-> Stage(d)]' = [[d \in Clients |-> Stage(d)] EXCEPT ![c] = "applied"]
        /\ Map!Quiet /\ UNCHANGED req
    BY <1>11, FlushApplies
  <2> HIDE DEF row
  <2>2. \E x \in RowsOf[RequestKey(req[c])] :
          AsMap(rows') = [AsMap(rows) EXCEPT ![req[c].table][RequestKey(req[c])] = x]
    BY <1>6, <1>7 DEF RequestKey, WithRow
  <2> QED
    BY <1>1, <1>8, <1>9, <1>10, <2>1, <2>2 DEF Map!Put
<1>12. CASE Return(c, "error")
  <2>1. Map!Answer(c, "error")
    BY <1>12, ReturnAnswers
  <2> HIDE DEF row
  <2>2. \E x \in RowsOf[RequestKey(req[c])] :
          AsMap(rows') = [AsMap(rows) EXCEPT ![req[c].table][RequestKey(req[c])] = x]
    BY <1>6, <1>7 DEF RequestKey, WithRow
  <2> QED
    BY <1>1, <1>8, <1>9, <1>10, <2>1, <2>2 DEF Map!Spoil
<1> QED
  BY <1>2, <1>11, <1>12

LEMMA InsertNewMaps ==
  ASSUME FileBacked, Uks = {}, GenIds = {}, IsRowsOf, TypeOK, DistinctOn(rows, Pk),
         NoRow \notin RowSet, NEW c \in Clients, InsertNew(c)
  PROVE  Map!Put(c) \/ Map!Observe(c)
<1> DEFINE t == req[c].table
           s == rows[t]
           k == req[c].in[Pk]
<1>1. /\ req[c] \in Requests /\ t \in Tables /\ IsTable(s)
      /\ req[c].op \in InsertOps /\ pc[c] = "lock"
      /\ IsContent(rows) /\ KeysDiffer(s)
      /\ UNCHANGED <<file, phase>>
  BY ServedRequest, DistinctTables DEF InsertNew, TypeOK
<1>2. PICK in \in Completed(req[c].in) :
        /\ HitRows(t, in) = {}
        /\ IsRow(Inserted(in).row)
        /\ \/ /\ Inserted(in).ok /\ StartFlush(c)
              /\ rows' = [rows EXCEPT ![t] = Append(s, Inserted(in).row)]
           \/ rows' = rows /\ Return(c, "error")
  BY InsertStep
<1> DEFINE row == Inserted(in).row
<1>3. in = req[c].in /\ in[Pk] # Absent
  BY <1>1, CompletedAsIs
<1>4. CASE rows' = rows /\ Return(c, "error")
  BY <1>1, <1>4, ReturnAnswers, ObserveMaps
<1>5. CASE /\ Inserted(in).ok /\ StartFlush(c)
           /\ rows' = [rows EXCEPT ![t] = Append(s, row)]
  <2>1. row[Pk] = k
    <3>1. Decoded(in)[Pk] = k /\ Decoded(in)[Pk] # Absent
      BY <1>3, KeyField DEF Decoded
    <3>2. ZeroRow[Pk] = ""
      BY KeyField DEF ZeroRow
    <3> QED
      BY <1>5, <3>1, <3>2, MergeKey DEF Inserted
  <2>2. \A i \in 1..Len(s) : s[i][Pk] # k
    BY <1>2, <1>3, HitIsKey DEF HitRows
  <2>3. k \in Keys /\ row \in RowsOf[k]
    <3>1. k \in Keys
      BY <1>2, <2>1, KeyField DEF IsRow, Keys
    <3> QED
      BY <1>2, <2>1, <3>1, RowSetIsRow DEF IsRowsOf
  <2>4. AsMap(rows') = WithRow(AsMap(rows), t, k, row)
    <3>1. /\ IsTable(s) /\ KeysDiffer(s) /\ IsRow(row) /\ row[Pk] = k
          /\ \A i \in 1..Len(s) : s[i][Pk] # row[Pk]
      BY <1>1, <1>2, <2>1, <2>2
    <3> DEFINE e == Append(s, row)
    <3>2. TableMap(e) = [TableMap(rows[t]) EXCEPT ![k] = row]
      <4> HIDE DEF row
      <4>1. TableMap(e) = [TableMap(s) EXCEPT ![row[Pk]] = row]
        BY <3>1, AppendMap
      <4> QED
        BY <3>1, <4>1
    <3>3. IsContent(rows) /\ t \in Tables
      BY <1>1
    <3>5. rows' = [rows EXCEPT ![t] = e]
      BY <1>5
    <3> HIDE DEF e, row, k, t, s
    <3>4. AsMap([rows EXCEPT ![t] = e]) = WithRow(AsMap(rows), t, k, row)
      BY ONLY <3>2, <3>3, OneTableMap
    <3> QED
      BY <3>4, <3>5
  <2>5. Map!Known(req[c]) /\ ~Map!Present(req[c])
    BY <1>1, <1>2, <2>3, HitIsPresent DEF Map!Known, RequestKey
  <2>6. [d \in Clients |-> Stage(d)][c] = "called"
    BY <1>1 DEF Stage
  <2>7. UNCHANGED <<[readable |-> file.state # "torn", store |-> AsMap(file.rows)],
                    phase = "up">>
    BY <1>1
  <2>8. /\ [d \in Clients |-> Stage(d)]' = [[d \in Clients |-> Stage(d)] EXCEPT ![c] = "applied"]
        /\ Map!Quiet /\ UNCHANGED req
    BY <1>5, FlushApplies
  <2>9. \/ req[c].op \in {"insert", "igsert"} /\ ~Map!Present(req[c])
        \/ req[c].op = "upsert"
    BY <1>1, <2>5 DEF InsertOps
  <2> HIDE DEF row
  <2>10. \E x \in RowsOf[RequestKey(req[c])] :
           AsMap(rows') = [AsMap(rows) EXCEPT ![req[c].table][RequestKey(req[c])] = x]
    BY <2>3, <2>4 DEF RequestKey, WithRow
  <2> QED
    BY <2>5, <2>6, <2>7, <2>8, <2>9, <2>10 DEF Map!Put
<1> QED
  BY <1>2, <1>4, <1>5

LEMMA DeleteMaps ==
  ASSUME FileBacked, TypeOK, DistinctOn(rows, Pk), NoRow \notin RowSet,
         NEW c \in Clients, Delete(c)
  PROVE  Map!Remove(c) \/ Map!Observe(c)
<1> DEFINE t    == req[c].table
           s    == rows[t]
           k    == req[c].in[Pk]
           hits == KeyRows(t, req[c].in)
           n    == FirstOf(hits)
<1>1. /\ req[c] \in Requests /\ t \in Tables /\ IsTable(s)
      /\ req[c].op = "delete" /\ pc[c] = "lock"
      /\ IsContent(rows) /\ KeysDiffer(s)
      /\ UNCHANGED <<file, phase>>
  <2>1. Serves(c, {"delete"}) /\ UNCHANGED <<file, phase>>
    BY DEF Delete
  <2>2. /\ req[c] \in Requests /\ t \in Tables /\ IsTable(s)
        /\ req[c].op = "delete" /\ pc[c] = "lock"
    BY <2>1, ServedRequest
  <2>3. IsContent(rows) /\ KeysDiffer(s)
    BY <2>2, DistinctTables DEF TypeOK
  <2> QED
    BY <2>1, <2>2, <2>3
<1>2. Map!Present(req[c]) <=> hits # {}
  BY <1>1, PresentInMap DEF KeyRows
<1>3. CASE hits = {}
  <2>1. rows' = rows /\ Return(c, "ok")
    BY <1>3 DEF Delete
  <2> QED
    BY <1>1, <1>2, <1>3, <2>1, ReturnAnswers, ObserveMaps
<1>4. CASE hits # {}
  <2>1. rows' = [rows EXCEPT ![t] = DropRow(s, n)] /\ StartFlush(c)
    BY <1>4 DEF Delete
  <2>2. n \in 1..Len(s) /\ s[n][Pk] = k
    <3>1. hits \subseteq Nat
      BY <1>1 DEF KeyRows, IsTable
    <3>2. n \in hits
      BY <1>4, <3>1, FirstExists
    <3> QED
      BY <3>2 DEF KeyRows
  <2>3. AsMap(rows') = WithRow(AsMap(rows), t, k, NoRow)
    <3>1. IsTable(s) /\ KeysDiffer(s) /\ n \in 1..Len(s) /\ s[n][Pk] = k
      BY <1>1, <2>2
    <3> DEFINE e == DropRow(s, n)
    <3>2. TableMap(e) = [TableMap(rows[t]) EXCEPT ![k] = NoRow]
      <4> HIDE DEF n
      <4>1. TableMap(e) = [TableMap(s) EXCEPT ![s[n][Pk]] = NoRow]
        BY <3>1, DropMap
      <4> QED
        BY <3>1, <4>1
    <3>3. IsContent(rows) /\ t \in Tables
      BY <1>1
    <3>5. rows' = [rows EXCEPT ![t] = e]
      BY <2>1
    <3> HIDE DEF e, k, t, s, n, hits
    <3>4. AsMap([rows EXCEPT ![t] = e]) = WithRow(AsMap(rows), t, k, NoRow)
      BY ONLY <3>2, <3>3, OneTableMap
    <3> QED
      BY <3>4, <3>5
  <2>4. [d \in Clients |-> Stage(d)][c] = "called"
    BY <1>1 DEF Stage
  <2>5. UNCHANGED <<[readable |-> file.state # "torn", store |-> AsMap(file.rows)],
                    phase = "up">>
    BY <1>1
  <2>6. /\ [d \in Clients |-> Stage(d)]' = [[d \in Clients |-> Stage(d)] EXCEPT ![c] = "applied"]
        /\ Map!Quiet /\ UNCHANGED req
    BY <2>1, FlushApplies
  <2>7. AsMap(rows') = [AsMap(rows) EXCEPT ![req[c].table][RequestKey(req[c])] = NoRow]
    BY <2>3 DEF RequestKey, WithRow
  <2> QED
    BY <1>1, <1>2, <1>4, <2>4, <2>5, <2>6, <2>7 DEF Map!Remove
<1> QED
  BY <1>3, <1>4

LEMMA FlushMaps ==
  ASSUME TypeOK, NEW c \in Clients, Flushes(c)
  PROVE  Map!Overwrite(c) \/ Map!Save(c) \/ Map!SaveFails(c)
<1>0. pc \in [Clients -> {"idle", "lock", "open", "write"}]
  BY DEF TypeOK
<1>1. [d \in Clients |-> Stage(d)][c] = "applied" /\ UNCHANGED <<rows, phase>>
  BY DEF Flushes, FlushOpen, FlushOpenFails, FlushWrite, FlushWriteFails, Stage
<1>2. UNCHANGED <<AsMap(rows), phase = "up">>
  BY <1>1
<1>3. CASE FlushOpen(c)
  <2>1. AsMap(NoRows) = Map!Empty
    <3>1. \A t \in Tables : NoRows[t] = <<>>
      BY DEF NoRows
    <3> QED
      BY <3>1, MapOfTables, EmptyMap DEF Map!Empty
  <2>2. [readable |-> file.state # "torn", store |-> AsMap(file.rows)]'
          = [readable |-> FALSE, store |-> Map!Empty]
    BY <1>3, <2>1 DEF FlushOpen, Torn
  <2>3. UNCHANGED [d \in Clients |-> Stage(d)]
    BY <1>0, <1>3 DEF FlushOpen, Stage
  <2>4. Map!Quiet /\ UNCHANGED req
    BY <1>3 DEF FlushOpen, Quiet, Map!Quiet
  <2> QED
    BY <1>1, <1>2, <2>2, <2>3, <2>4 DEF Map!Overwrite
<1>4. CASE FlushWrite(c)
  <2>1. [readable |-> file.state # "torn", store |-> AsMap(file.rows)]'
          = [readable |-> TRUE, store |-> AsMap(rows)]
    BY <1>4 DEF FlushWrite, Image
  <2>2. Map!Answer(c, "ok")
    BY <1>4, ReturnAnswers DEF FlushWrite
  <2> QED
    BY <1>1, <1>2, <2>1, <2>2 DEF Map!Save
<1>5. CASE FlushOpenFails(c) \/ FlushWriteFails(c)
  <2>1. Map!Answer(c, "error") /\ file' = file
    BY <1>5, ReturnAnswers DEF FlushOpenFails, FlushWriteFails
  <2>2. UNCHANGED [readable |-> file.state # "torn", store |-> AsMap(file.rows)]
    BY <2>1
  <2> QED
    BY <1>1, <1>2, <2>1, <2>2 DEF Map!SaveFails
<1> QED
  BY <1>3, <1>4, <1>5 DEF Flushes

LEMMA NoRowsMap == AsMap(NoRows) = Map!Empty
<1>1. \A t \in Tables : NoRows[t] = <<>>
  BY DEF NoRows
<1> QED
  BY <1>1, MapOfTables, EmptyMap DEF Map!Empty

LEMMA CrashMaps ==
  ASSUME Crash
  PROVE  Map!Crash
<1>1. AsMap(rows') = Map!Empty /\ UNCHANGED file /\ phase = "up" /\ phase' = "down"
  BY NoRowsMap DEF Crash
<1>2. [d \in Clients |-> Stage(d)]' = [d \in Clients |-> "idle"]
  BY DEF Crash, Stage
<1>3. UNCHANGED [readable |-> file.state # "torn", store |-> AsMap(file.rows)]
  BY <1>1
<1>4. (phase = "up") /\ ~(phase = "up")'
  BY <1>1
<1>5. req' = [d \in Clients |-> NoRequest] /\ Map!Quiet
  BY DEF Crash, Quiet, Map!Quiet
<1> QED
  BY <1>1, <1>2, <1>3, <1>4, <1>5 DEF Map!Crash

\* A process that finds a torn file stays down.
LEMMA RestartMaps ==
  ASSUME DownQuiet, Restart
  PROVE  Map!Restart \/ UNCHANGED vars
<1>1. UNCHANGED <<tables, file, holder, pc, req>> /\ phase = "down"
  BY DEF Restart
<1>2. CASE file.state = "torn"
  <2>1. UNCHANGED <<rows, phase, answer>>
    BY <1>1, <1>2 DEF Restart, DownQuiet, Quiet
  <2> QED
    BY <1>1, <2>1 DEF vars
<1>3. CASE file.state # "torn"
  <2>1. rows' = file.rows /\ phase' = "up"
    BY <1>3 DEF Restart
  <2>2. UNCHANGED <<[readable |-> file.state # "torn", store |-> AsMap(file.rows)],
                    [d \in Clients |-> Stage(d)]>>
    BY <1>1 DEF Stage
  <2>3. AsMap(rows') = AsMap(file.rows)
    BY <2>1
  <2>4. ~(phase = "up") /\ (phase = "up")'
    BY <1>1, <2>1
  <2>5. Map!Quiet
    BY DEF Restart, Quiet, Map!Quiet
  <2> QED
    BY <1>1, <1>3, <2>2, <2>3, <2>4, <2>5 DEF Map!Restart
<1> QED
  BY <1>2, <1>3

LEMMA VarsMap == UNCHANGED vars => UNCHANGED Map!vars
  BY DEF vars, Map!vars, Stage

\* For every set of clients, tables and requests, every spec of the rows and
\* every fault: a file-backed store whose tables have no key but the primary
\* one, which requests give, does what KeyedStore does.  Each call takes effect
\* at one point, on the row of its key alone; success of a change means that
\* the whole map was saved; a restart brings back the last whole save.
THEOREM StoreImplementsMap ==
  ASSUME FileBacked, Uks = {}, GenIds = {}, IsRowsOf, NoRow \notin RowSet
  PROVE  Spec => ImplementsMap
<1>1. Init => Map!Init
  <2> SUFFICES ASSUME Init PROVE Map!Init
    OBVIOUS
  <2>1. AsMap(rows) = Map!Empty
    BY NoRowsMap DEF Init
  <2>2. [readable |-> file.state # "torn", store |-> AsMap(file.rows)]
          = [readable |-> TRUE, store |-> Map!Empty]
    BY NoRowsMap DEF Init, NoFile
  <2>3. [d \in Clients |-> Stage(d)] = [d \in Clients |-> "idle"]
    BY DEF Init, Stage
  <2> QED
    BY <2>1, <2>2, <2>3 DEF Init, Map!Init
<1>2. TypeOK /\ DownQuiet /\ PrimaryKeyUnique /\ [Next]_vars => [Map!Next]_(Map!vars)
  <2> SUFFICES ASSUME TypeOK, DownQuiet, PrimaryKeyUnique, [Next]_vars
               PROVE  Map!Next \/ UNCHANGED Map!vars
    OBVIOUS
  <2>1. DistinctOn(rows, Pk)
    BY DEF PrimaryKeyUnique
  <2>2. ASSUME NEW c \in Clients, Call(c) PROVE Map!Next
    BY <2>2, CallMaps DEF Map!Next
  <2>3. ASSUME NEW c \in Clients, Runs(c) PROVE Map!Next
    <3>1. \/ Map!Observe(c) \/ Map!Put(c) \/ Map!Spoil(c) \/ Map!Remove(c)
      BY <2>1, <2>3, ReadMaps, InsertHitMaps, UpsertHitMaps, InsertNewMaps, DeleteMaps
         DEF Runs
    <3> QED
      BY <3>1 DEF Map!Next
  <2>4. ASSUME NEW c \in Clients, Flushes(c) PROVE Map!Next
    BY <2>4, FlushMaps DEF Map!Next
  <2>5. CASE Crash
    BY <2>5, CrashMaps DEF Map!Next
  <2>6. CASE Restart
    BY <2>6, RestartMaps, VarsMap DEF Map!Next
  <2>7. CASE UNCHANGED vars
    BY <2>7, VarsMap
  <2> QED
    BY <2>2, <2>3, <2>4, <2>5, <2>6, <2>7 DEF Next
<1>3. Init => DownQuiet
  BY DEF Init, DownQuiet
<1> QED
  BY <1>1, <1>2, <1>3, DownQuietStep, TypeCorrect, LockAlways, PrimaryKeyStaysUnique, PTL
     DEF Spec, ImplementsMap, Map!Spec
=============================================================================
