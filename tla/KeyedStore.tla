----------------------------- MODULE KeyedStore -----------------------------
(***************************************************************************)
(* What a file-backed table with a primary key promises its clients        *)
(* (go/oneobject): it is a map from keys to rows.  Every call takes effect *)
(* in one step, on the one key it names; a change is answered with success *)
(* only when the whole map has been saved after it; a restart brings back  *)
(* the map that was saved last, or nothing at all.  The order of the rows, *)
(* the mutex and the file operations are not part of the promise.          *)
(***************************************************************************)
CONSTANTS
  Clients, Tables, Requests, NoRequest, NoClient,
  Keys,
  RowsOf,      \* RowsOf[k]: the rows with key k
  KeyOf(_),    \* the key a request names
  NoRow

VARIABLES
  store,   \* store[t][k]: the row of table t with key k, or NoRow
  saved,   \* the map last saved, and whether it can be read back
  running,
  stage,   \* of each client: idle, called or applied
  req,
  answer

vars == <<store, saved, running, stage, req, answer>>

Empty == [t \in Tables |-> [k \in Keys |-> NoRow]]

Init ==
  /\ store = Empty
  /\ saved = [readable |-> TRUE, store |-> Empty]
  /\ running = TRUE
  /\ stage = [c \in Clients |-> "idle"]
  /\ req = [c \in Clients |-> NoRequest]
  /\ answer = [client |-> NoClient, status |-> "ok"]

Quiet == answer' = [client |-> NoClient, status |-> "ok"]

Answer(c, status) ==
  /\ stage' = [stage EXCEPT ![c] = "idle"]
  /\ req' = [req EXCEPT ![c] = NoRequest]
  /\ answer' = [client |-> c, status |-> status]

Known(r) == r.table \in Tables /\ KeyOf(r) \in Keys
Present(r) == Known(r) /\ store[r.table][KeyOf(r)] # NoRow

Call(c) ==
  /\ running /\ stage[c] = "idle"
  /\ \E r \in Requests : req' = [req EXCEPT ![c] = r]
  /\ stage' = [stage EXCEPT ![c] = "called"]
  /\ Quiet
  /\ UNCHANGED <<store, saved, running>>

\* A call that changes nothing says success only when there is nothing to
\* change, and conflict only to an insert of a key that is there.
Observe(c) ==
  /\ stage[c] = "called"
  /\ \/ Answer(c, "error")
     \/ req[c].op = "query" /\ \E s \in {"ok", "notfound"} : Answer(c, s)
     \/ req[c].op = "setup" /\ Answer(c, "ok")
     \/ req[c].op = "insert" /\ Present(req[c]) /\ Answer(c, "conflict")
     \/ req[c].op = "igsert" /\ Present(req[c]) /\ Answer(c, "ok")
     \/ req[c].op = "delete" /\ ~Present(req[c]) /\ Answer(c, "ok")
  /\ UNCHANGED <<store, saved, running>>

\* An upsert that is denied may have changed the row it names.
Spoil(c) ==
  /\ stage[c] = "called"
  /\ req[c].op = "upsert" /\ Present(req[c])
  /\ \E row \in RowsOf[KeyOf(req[c])] :
       store' = [store EXCEPT ![req[c].table][KeyOf(req[c])] = row]
  /\ Answer(c, "error")
  /\ UNCHANGED <<saved, running>>

Put(c) ==
  /\ stage[c] = "called" /\ Known(req[c])
  /\ \/ req[c].op \in {"insert", "igsert"} /\ ~Present(req[c])
     \/ req[c].op = "upsert"
  /\ \E row \in RowsOf[KeyOf(req[c])] :
       store' = [store EXCEPT ![req[c].table][KeyOf(req[c])] = row]
  /\ stage' = [stage EXCEPT ![c] = "applied"]
  /\ Quiet
  /\ UNCHANGED <<saved, running, req>>

Remove(c) ==
  /\ stage[c] = "called"
  /\ req[c].op = "delete" /\ Present(req[c])
  /\ store' = [store EXCEPT ![req[c].table][KeyOf(req[c])] = NoRow]
  /\ stage' = [stage EXCEPT ![c] = "applied"]
  /\ Quiet
  /\ UNCHANGED <<saved, running, req>>

\* While a change is being saved the previous save is gone.
Overwrite(c) ==
  /\ stage[c] = "applied"
  /\ saved' = [readable |-> FALSE, store |-> Empty]
  /\ Quiet
  /\ UNCHANGED <<store, running, stage, req>>

Save(c) ==
  /\ stage[c] = "applied"
  /\ saved' = [readable |-> TRUE, store |-> store]
  /\ Answer(c, "ok")
  /\ UNCHANGED <<store, running>>

SaveFails(c) ==
  /\ stage[c] = "applied"
  /\ Answer(c, "error")
  /\ UNCHANGED <<store, saved, running>>

Crash ==
  /\ running /\ running' = FALSE
  /\ store' = Empty
  /\ stage' = [c \in Clients |-> "idle"]
  /\ req' = [c \in Clients |-> NoRequest]
  /\ Quiet
  /\ UNCHANGED saved

Restart ==
  /\ ~running
  /\ saved.readable
  /\ store' = saved.store
  /\ running' = TRUE
  /\ Quiet
  /\ UNCHANGED <<saved, stage, req>>

Next ==
  \/ \E c \in Clients :
       \/ Call(c) \/ Observe(c) \/ Spoil(c) \/ Put(c) \/ Remove(c)
       \/ Overwrite(c) \/ Save(c) \/ SaveFails(c)
  \/ Crash
  \/ Restart

Spec == Init /\ [][Next]_vars
=============================================================================
