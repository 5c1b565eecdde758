----------------------------- MODULE OneObject -----------------------------
(***************************************************************************)
(* The table store of go/oneobject/oneobject.go: an Instance keeps one Go  *)
(* object whose slices of structs are served as tables, under one mutex,   *)
(* and a file-backed Instance rewrites the whole file after every change.  *)
(*                                                                         *)
(* Clients are the goroutines that call Insert, Igsert, Upsert, Delete,    *)
(* Query and TableSetup.  Each holds the mutex from its first access to    *)
(* the object until it returns, so a call that writes no file is one step; *)
(* a call that flushes is three: the change in memory, the open of the     *)
(* file, which truncates it, and the write.  The process can crash between *)
(* any two steps and is started again from the file.                       *)
(***************************************************************************)
EXTENDS RowMerge

CONSTANTS
  Clients,
  Tables,       \* the paths of the object that TableSetup accepts
  Names,        \* the table names a request can carry
  Unreachable,  \* the tables whose path crosses a struct pointer
  Pk,           \* position of the field with attribute primary_key
  Uks,          \* positions of the fields with attribute unique_key
  GenIds,       \* ids of rand_hex/object_id; {} when Pk has no such attribute
  Ops,          \* the operations clients call
  Inputs,       \* the fields of a request, by position
  Mistyped,     \* a value the Go type of the field cannot take, or one without a
                \* kind, which does not encode (for a key an id is generated then,
                \* but what is encoded is the value given)
  Limit,        \* the row limit of a query
  FileBacked,   \* NewInstanceFromFile or NewInstance
  Faults,       \* what can go wrong: "open", "write", "crash"
  MaxRows,      \* bound on the rows of a table
  NoRequest, NoClient

InsertOps == {"insert", "igsert", "upsert"}
AllOps    == InsertOps \cup {"delete", "query", "setup"}
Keyed     == {Pk} \cup Uks
Requests  == [op : Ops, table : Names, in : Inputs]
Statuses  == {"ok", "conflict", "notfound", "error"}

ASSUME StoreAssumption ==
  /\ Tables \subseteq Names /\ Unreachable \subseteq Tables
  /\ Ops \subseteq AllOps
  /\ Pk \in FieldIdx /\ Uks \subseteq FieldIdx \ {Pk}
  /\ \A i \in Keyed : Fields[i].kind = "string" /\ Fields[i].parent = 0
  /\ DefValue(Fields[Pk]) = ""
  /\ GenIds \subseteq Values[Pk]
  /\ \A in \in Inputs :
       /\ in = [i \in FieldIdx |-> in[i]]
       /\ \A i \in FieldIdx : in[i] \in Values[i] \cup {Absent, Mistyped}
  /\ \A i \in FieldIdx : Mistyped \notin Values[i] \cup {Absent}
  /\ FileBacked \in BOOLEAN /\ Limit \in Nat /\ MaxRows \in Nat
  /\ NoClient \notin Clients /\ NoRequest \notin Requests

\* A request gives a nested field inside of its struct.
ASSUME NestedAssumption ==
  \A in \in Inputs : \A i \in FieldIdx :
    Fields[i].parent # 0 /\ in[i] # Absent => in[Fields[i].parent] = TRUE

VARIABLES
  rows,    \* rows[t]: the slice of table t
  tables,  \* the tables set up
  file,    \* the file: missing, torn (not a JSON document) or saved
  phase,   \* whether the process runs
  holder,  \* the client that holds mu
  pc,      \* where each client is
  req,     \* what it asked for
  answer   \* the answer given by the last step, if it gave one

vars == <<rows, tables, file, phase, holder, pc, req, answer>>

-----------------------------------------------------------------------------
\* Requests.

Given(in) == {i \in FieldIdx : in[i] # Absent}

\* The request once its missing primary key is generated: with no such
\* attribute on the key there is no way to complete it.
Completed(in) ==
  IF in[Pk] # Absent THEN {in} ELSE {[in EXCEPT ![Pk] = id] : id \in GenIds}

Decodable(in) == \A i \in FieldIdx : in[i] # Mistyped

\* The object the request decodes to: fields it leaves out are zero.
Decoded(in) ==
  [i \in FieldIdx |-> IF in[i] = Absent THEN Zero(Fields[i]) ELSE in[i]]

\* Mutated forms of HitBy: one kind of key is forgotten.
HitByUnique(row, in)  == \E i \in Uks : in[i] # Absent /\ in[i] = row[i]
HitByPrimary(row, in) == in[Pk] # Absent /\ in[Pk] = row[Pk]

\* A row is hit when any key the request gives has the row's value.
HitBy(row, in) == \E i \in Keyed : in[i] # Absent /\ in[i] = row[i]

FirstOf(hits) == CHOOSE i \in hits : \A j \in hits : i <= j

HitRows(t, in) == {i \in 1..Len(rows[t]) : HitBy(rows[t][i], in)}
KeyRows(t, in) == {i \in 1..Len(rows[t]) : rows[t][i][Pk] = in[Pk]}

\* The rows a query returns: a filter on a field that is no string is dropped.
QueryRows(t, in) ==
  {i \in 1..Len(rows[t]) :
     \A k \in Given(in) : Fields[k].kind = "string" => rows[t][i][k] = in[k]}

\* A mutated form of DropRow: the last row goes, whichever was hit.
DropLastRow(s, n) == [i \in 1..(Len(s) - 1) |-> s[i]]

DropRow(s, n) == [i \in 1..(Len(s) - 1) |-> IF i < n THEN s[i] ELSE s[i + 1]]

NoRows == [t \in Tables |-> <<>>]
NoFile == [state |-> "missing", rows |-> NoRows]
Torn   == [state |-> "torn", rows |-> NoRows]
Image  == [state |-> "saved", rows |-> rows]

-----------------------------------------------------------------------------
Init ==
  /\ rows = NoRows
  /\ tables = {}
  /\ file = NoFile
  /\ phase = "up"
  /\ holder = NoClient
  /\ pc = [c \in Clients |-> "idle"]
  /\ req = [c \in Clients |-> NoRequest]
  /\ answer = [client |-> NoClient, status |-> "ok"]

Quiet == answer' = [client |-> NoClient, status |-> "ok"]

Return(c, status) ==
  /\ pc' = [pc EXCEPT ![c] = "idle"]
  /\ req' = [req EXCEPT ![c] = NoRequest]
  /\ holder' = NoClient
  /\ answer' = [client |-> c, status |-> status]

\* A mutated form of StartFlush: the mutex is released before the flush.
StartFlushUnlocked(c) ==
  IF FileBacked
  THEN /\ pc' = [pc EXCEPT ![c] = "open"]
       /\ Quiet
       /\ UNCHANGED <<holder, req>>
  ELSE Return(c, "ok")

\* Flush returns at once without a file; with one the caller keeps the mutex
\* over its two steps.
StartFlush(c) ==
  IF FileBacked
  THEN /\ pc' = [pc EXCEPT ![c] = "open"]
       /\ holder' = c
       /\ Quiet
       /\ UNCHANGED req
  ELSE Return(c, "ok")

Call(c) ==
  /\ phase = "up" /\ pc[c] = "idle"
  /\ \E r \in Requests : req' = [req EXCEPT ![c] = r]
  /\ pc' = [pc EXCEPT ![c] = "lock"]
  /\ Quiet
  /\ UNCHANGED <<rows, tables, file, phase, holder>>

\* insert refuses a request without fields before it locks.
EmptyInsert(c) ==
  /\ pc[c] = "lock"
  /\ req[c].op \in InsertOps /\ Given(req[c].in) = {}
  /\ pc' = [pc EXCEPT ![c] = "idle"]
  /\ req' = [req EXCEPT ![c] = NoRequest]
  /\ answer' = [client |-> c, status |-> "error"]
  /\ UNCHANGED <<rows, tables, file, phase, holder>>

\* c takes the mutex to run one of ops.
Enters(c, ops) ==
  /\ pc[c] = "lock" /\ holder = NoClient
  /\ req[c].op \in ops
  /\ req[c].op \in InsertOps => Given(req[c].in) # {}

\* ... on a table that is set up and that findValue finds.
Serves(c, ops) ==
  /\ Enters(c, ops)
  /\ req[c].table \in tables \ Unreachable

TableSetup(c) ==
  /\ Enters(c, {"setup"})
  /\ IF req[c].table \in Tables
     THEN tables' = tables \cup {req[c].table} /\ Return(c, "ok")
     ELSE UNCHANGED tables /\ Return(c, "error")
  /\ UNCHANGED <<rows, file, phase>>

TableNotFound(c) ==
  /\ Enters(c, AllOps \ {"setup"})
  /\ req[c].table \notin tables \ Unreachable
  /\ Return(c, "error")
  /\ UNCHANGED <<rows, tables, file, phase>>

InsertInvalid(c) ==
  /\ Serves(c, InsertOps)
  /\ Completed(req[c].in) = {} \/ ~Decodable(req[c].in)
  /\ Return(c, "error")
  /\ UNCHANGED <<rows, tables, file, phase>>

\* insert and igsert change nothing when a row is hit.
InsertHit(c) ==
  /\ Serves(c, {"insert", "igsert"})
  /\ Decodable(req[c].in)
  /\ \E in \in Completed(req[c].in) : HitRows(req[c].table, in) # {}
  /\ Return(c, IF req[c].op = "insert" THEN "conflict" ELSE "ok")
  /\ UNCHANGED <<rows, tables, file, phase>>

\* A mutated form of UpsertHit: the row is left as it is.
UpsertHitIgnored(c) ==
  /\ Serves(c, {"upsert"})
  /\ Decodable(req[c].in)
  /\ \E in \in Completed(req[c].in) : HitRows(req[c].table, in) # {}
  /\ StartFlush(c)
  /\ UNCHANGED <<rows, tables, file, phase>>

\* upsert merges into the first row hit, in place: after an error the fields
\* before it stay changed, and nothing is flushed.
UpsertHit(c) ==
  /\ Serves(c, {"upsert"})
  /\ Decodable(req[c].in)
  /\ \E in \in Completed(req[c].in) :
       LET t == req[c].table
           n == FirstOf(HitRows(t, in))
           m == Merge("unspec", rows[t][n], Decoded(in)) IN
       /\ HitRows(t, in) # {}
       /\ rows' = [rows EXCEPT ![t][n] = m.row]
       /\ IF m.ok THEN StartFlush(c) ELSE Return(c, "error")
  /\ UNCHANGED <<tables, file, phase>>

\* With no row hit the request is merged into a zero row, which is appended.
InsertNew(c) ==
  /\ Serves(c, InsertOps)
  /\ Decodable(req[c].in)
  /\ \E in \in Completed(req[c].in) :
       LET t == req[c].table
           m == Merge("unspec", ZeroRow, Decoded(in)) IN
       /\ HitRows(t, in) = {}
       /\ Len(rows[t]) < MaxRows
       /\ IF m.ok
          THEN rows' = [rows EXCEPT ![t] = Append(@, m.row)] /\ StartFlush(c)
          ELSE UNCHANGED rows /\ Return(c, "error")
  /\ UNCHANGED <<tables, file, phase>>

\* A delete needs a filter on the primary key with a nonblank string.
DeleteInvalid(c) ==
  /\ Serves(c, {"delete"})
  /\ req[c].in[Pk] \in {Absent, Mistyped, ""}
  /\ Return(c, "error")
  /\ UNCHANGED <<rows, tables, file, phase>>

Delete(c) ==
  /\ Serves(c, {"delete"})
  /\ req[c].in[Pk] \notin {Absent, Mistyped, ""}
  /\ LET t    == req[c].table
         hits == KeyRows(t, req[c].in) IN
     IF hits = {}
     THEN UNCHANGED rows /\ Return(c, "ok")
     ELSE rows' = [rows EXCEPT ![t] = DropRow(@, FirstOf(hits))] /\ StartFlush(c)
  /\ UNCHANGED <<tables, file, phase>>

Query(c) ==
  /\ Serves(c, {"query"})
  /\ LET found == Limit > 0 /\ QueryRows(req[c].table, req[c].in) # {}
     IN  Return(c, IF found THEN "ok" ELSE "notfound")
  /\ UNCHANGED <<rows, tables, file, phase>>

\* ioutil.WriteFile: opening truncates, then the encoded object is written.
\* The mutex is held, so the object written is the one encoded before.
FlushOpen(c) ==
  /\ pc[c] = "open"
  /\ file' = Torn
  /\ pc' = [pc EXCEPT ![c] = "write"]
  /\ Quiet
  /\ UNCHANGED <<rows, tables, phase, holder, req>>

\* A mutated form of FlushOpenFails: the error returns without the unlock.
FlushOpenFailsLocked(c) ==
  /\ "open" \in Faults
  /\ pc[c] = "open"
  /\ pc' = [pc EXCEPT ![c] = "idle"]
  /\ req' = [req EXCEPT ![c] = NoRequest]
  /\ answer' = [client |-> c, status |-> "error"]
  /\ UNCHANGED <<rows, tables, file, phase, holder>>

FlushOpenFails(c) ==
  /\ "open" \in Faults
  /\ pc[c] = "open"
  /\ Return(c, "error")
  /\ UNCHANGED <<rows, tables, file, phase>>

FlushWrite(c) ==
  /\ pc[c] = "write"
  /\ file' = Image
  /\ Return(c, "ok")
  /\ UNCHANGED <<rows, tables, phase>>

\* A mutated form of FlushWriteFails: the error is dropped.
FlushWriteFailsSilently(c) ==
  /\ "write" \in Faults
  /\ pc[c] = "write"
  /\ Return(c, "ok")
  /\ UNCHANGED <<rows, tables, file, phase>>

FlushWriteFails(c) ==
  /\ "write" \in Faults
  /\ pc[c] = "write"
  /\ Return(c, "error")
  /\ UNCHANGED <<rows, tables, file, phase>>

\* The process ends: memory, the mutex and the calls under way are gone.
Crash ==
  /\ "crash" \in Faults
  /\ phase = "up"
  /\ phase' = "down"
  /\ rows' = NoRows
  /\ tables' = {}
  /\ holder' = NoClient
  /\ pc' = [c \in Clients |-> "idle"]
  /\ req' = [c \in Clients |-> NoRequest]
  /\ Quiet
  /\ UNCHANGED file

\* NewInstanceFromFile: a missing file leaves the object as it is, a torn one
\* is an error and there is no Instance.
Restart ==
  /\ phase = "down"
  /\ IF file.state = "torn"
     THEN UNCHANGED <<rows, phase>>
     ELSE rows' = file.rows /\ phase' = "up"
  /\ Quiet
  /\ UNCHANGED <<tables, file, holder, pc, req>>

Runs(c) ==
  \/ EmptyInsert(c) \/ TableSetup(c) \/ TableNotFound(c)
  \/ InsertInvalid(c) \/ InsertHit(c) \/ UpsertHit(c) \/ InsertNew(c)
  \/ DeleteInvalid(c) \/ Delete(c) \/ Query(c)

Flushes(c) ==
  \/ FlushOpen(c) \/ FlushOpenFails(c) \/ FlushWrite(c) \/ FlushWriteFails(c)

Next ==
  \/ \E c \in Clients : Call(c) \/ Runs(c) \/ Flushes(c)
  \/ Crash
  \/ Restart

Spec == Init /\ [][Next]_vars

\* The kernel finishes a file operation, and a Go mutex is handed to a waiter
\* that keeps losing it (starvation mode), so a call that can take it again
\* and again runs some day.  Nobody has to call, crash or restart.
Fairness ==
  \A c \in Clients : SF_vars(Runs(c)) /\ WF_vars(Flushes(c))

FairSpec == Spec /\ Fairness

-----------------------------------------------------------------------------
IsTable(s) ==
  /\ s = [i \in 1..Len(s) |-> s[i]] /\ Len(s) \in Nat
  /\ \A i \in 1..Len(s) : IsRow(s[i])

IsContent(content) ==
  /\ content = [t \in Tables |-> content[t]]
  /\ \A t \in Tables : IsTable(content[t])

TypeOK ==
  /\ IsContent(rows)
  /\ tables \subseteq Tables
  /\ file = [state |-> file.state, rows |-> file.rows]
  /\ file.state \in {"missing", "torn", "saved"}
  /\ IsContent(file.rows)
  /\ phase \in {"up", "down"}
  /\ holder \in Clients \cup {NoClient}
  /\ pc \in [Clients -> {"idle", "lock", "open", "write"}]
  /\ req \in [Clients -> Requests \cup {NoRequest}]
  /\ \A c \in Clients : pc[c] # "idle" => req[c] \in Requests
  /\ answer \in [client : Clients \cup {NoClient}, status : Statuses]

\* Only the holder of the mutex is inside a flush, and it is in one.
MutexHeld ==
  \A c \in Clients : (pc[c] \in {"open", "write"}) <=> (holder = c)

DistinctOn(content, i) ==
  \A t \in Tables : \A m, n \in 1..Len(content[t]) :
    content[t][m][i] = content[t][n][i] => m = n

\* In a table whose only key is the primary one no two rows have the same key,
\* neither in memory nor in a file that can be read, whatever fails or crashes
\* on the way.  (With a unique key as well, an upsert may write a key that
\* another row has.)
PrimaryKeyUnique == DistinctOn(rows, Pk) /\ DistinctOn(file.rows, Pk)

KeysUniqueIn(content) ==
  \A i \in Keyed, t \in Tables : \A m, n \in 1..Len(content[t]) :
    content[t][m][i] = content[t][n][i] /\ content[t][m][i] # "" => m = n

\* No two rows of a table share a nonblank key, primary or unique.
KeysUnique == KeysUniqueIn(rows)

\* c runs an upsert whose keys hit more rows than one.
TakesOver(c) ==
  /\ pc[c] = "lock" /\ pc'[c] # "lock"
  /\ req[c].op = "upsert" /\ req[c].table \in Tables
  /\ \E in \in Completed(req[c].in) : Cardinality(HitRows(req[c].table, in)) > 1

\* No step makes two rows share a key, in memory or in the file, but for an
\* upsert that hits one row by one of its keys and another by the other.
KeysStayUnique ==
  [][KeysUniqueIn(rows) /\ KeysUniqueIn(file.rows) /\ ~(\E c \in Clients : TakesOver(c))
       => KeysUniqueIn(rows') /\ KeysUniqueIn(file'.rows)]_vars

\* A row is never stored under a blank primary key.
NoBlankKey == \A t \in Tables : \A n \in 1..Len(rows[t]) : rows[t][n][Pk] # ""

Answers(c, status, ops) ==
  answer'.client = c /\ answer'.status = status /\ req[c].op \in ops

\* When an insert or an upsert is answered with success, the file holds all
\* that memory holds: a crash right after loses nothing.
AckedWriteSaved ==
  [][\A c \in Clients : Answers(c, "ok", {"insert", "upsert"}) => file' = Image']_vars

\* When an insert or an upsert is answered with success, one row of the table
\* has every nonzero string and number the request gave, keys included.
AckedWriteVisible ==
  [][\A c \in Clients : Answers(c, "ok", {"insert", "upsert"}) =>
       LET in == req[c].in
           s  == rows'[req[c].table] IN
       \E n \in 1..Len(s) : \A i \in Given(in) :
         Fields[i].kind \in ScalarKinds /\ in[i] # Zero(Fields[i]) => s[n][i] = in[i]]_vars

\* When a delete is answered with success, no row in memory has its key any
\* more.  (The file may have it, when an earlier delete of the key removed the
\* row and failed to write the file: this one found no row and wrote nothing.)
AckedDeleteRemoves ==
  [][\A c \in Clients : Answers(c, "ok", {"delete"}) =>
       LET s == rows'[req[c].table]
       IN  \A n \in 1..Len(s) : s[n][Pk] # req[c].in[Pk]]_vars

SameKeys(s1, s2) ==
  Len(s1) = Len(s2) /\ \A n \in 1..Len(s1) : s1[n][Pk] = s2[n][Pk]

Resting == phase = "up" /\ holder = NoClient

\* The file can be read and has as many rows as memory ...
Readable ==
  file.state # "torn" /\ \A t \in Tables : Len(file.rows[t]) = Len(rows[t])

\* ... and the rows are those of memory, by key and order.
Tracked == Readable /\ \A t \in Tables : SameKeys(file.rows[t], rows[t])

\* c runs an upsert that is denied, on a row it hit by a unique key only.
Renames(c) ==
  /\ pc[c] = "lock" /\ pc'[c] # "lock"
  /\ req[c].op = "upsert" /\ answer'.status = "error"
  /\ req[c].table \in Tables
  /\ \E in \in Completed(req[c].in) :
       LET hits == HitRows(req[c].table, in)
       IN  hits # {} /\ rows[req[c].table][FirstOf(hits)][Pk] # in[Pk]

\* While no file operation fails, a process that runs and is not inside a
\* flush has in the file the rows it has in memory, by key and order: a crash
\* then takes no row back that a query showed and brings none back that was
\* deleted, and the restart finds a file it can read.  (A crash in the middle
\* of a later flush may leave a file that cannot be read; the process does not
\* run again then, and nothing is said.)  Only the fields of a row can be ahead
\* of the file, after an upsert that was denied half-way, its primary key
\* included when the upsert hit the row by another key.
FileTracksMemory ==
  [][FileBacked /\ Faults \cap {"open", "write"} = {} /\ Resting' =>
       /\ (Resting => Readable) => Readable'
       /\ (Resting => Tracked) /\ ~(\E c \in Clients : Renames(c)) => Tracked']_vars

\* Every call returns, or its process crashes.
EveryCallReturns == \A c \in Clients : pc[c] = "lock" ~> pc[c] = "idle"
=============================================================================
