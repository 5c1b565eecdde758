---------------------------- MODULE DataProjects ----------------------------
(***************************************************************************)
(* The data services of a server: dataProjectManager of go/lynkapi/data.go *)
(* with the handlers DataProject and DataQuery of service.go and the       *)
(* tables of a data service, an Instance of go/oneobject, which sets up    *)
(* tables at any time.                                                     *)
(*                                                                         *)
(* A registration lists the tables that the service had when it was asked, *)
(* before the manager's mutex was taken.  DataProject hands out the live   *)
(* list, unlocked.                                                         *)
(***************************************************************************)
EXTENDS Naturals, Sequences

CONSTANTS
  Procs,       \* goroutines
  Services,    \* the data services
  NameOf,      \* NameOf[s]: the name of s
  ValidNames,  \* names that are identifiers
  Tables,
  NoService, NoJob, NoName, Nobody

Names == {NameOf[s] : s \in Services} \cap ValidNames

ASSUME ProjectsAssumption ==
  /\ DOMAIN NameOf = Services
  /\ NoService \notin Services /\ NoName \notin Names /\ Nobody \notin Procs

VARIABLES
  tables,     \* tables[s]: the tables set up in s
  instances,  \* the list: name and tables of each instance
  index,      \* index[n]: the place of n in the list, 0 for none
  services,   \* services[n]: the data service that serves n
  mu,         \* the goroutine that holds the manager's mutex
  pc, job,    \* where a goroutine is
  seen,       \* seen[p]: the <<name, table>> p last saw listed
  answer,     \* the answer given by the last step, if it gave one
  settled     \* settled[s]: what a registration of s cannot miss any more

vars == <<tables, instances, index, services, mu, pc, job, seen, answer, settled>>

NoAnswer == [proc |-> Nobody, query |-> <<NoName, NoName>>, status |-> "none"]

Init ==
  /\ tables = [s \in Services |-> {}]
  /\ instances = <<>>
  /\ index = [n \in Names |-> 0]
  /\ services = [n \in Names |-> NoService]
  /\ mu = Nobody
  /\ pc = [p \in Procs |-> "idle"]
  /\ job = [p \in Procs |-> NoJob]
  /\ seen = [p \in Procs |-> {}]
  /\ answer = NoAnswer
  /\ settled = [s \in Services |-> {}]

Goto(p, place, j) ==
  /\ pc' = [pc EXCEPT ![p] = place]
  /\ job' = [job EXCEPT ![p] = j]

Step(p, place, j) == Goto(p, place, j) /\ answer' = NoAnswer

Return(p, q, status) ==
  /\ Goto(p, "idle", NoJob)
  /\ answer' = [proc |-> p, query |-> q, status |-> status]

TableSetup(s, t) ==
  /\ t \notin tables[s]
  /\ tables' = [tables EXCEPT ![s] = @ \cup {t}]
  /\ answer' = NoAnswer
  /\ UNCHANGED <<instances, index, services, mu, pc, job, seen, settled>>

-----------------------------------------------------------------------------
\* RegisterService.

Registering(n) ==
  {p \in Procs : pc[p] \in {"snapshot", "add", "serve"}
                   /\ NameOf[job[p].service] = n}

\* A name that is no identifier is refused.  The first of the registrations of
\* a name that overlap settles what the last of them cannot miss.
RegisterService(p, s) ==
  /\ pc[p] = "idle"
  /\ IF NameOf[s] \in ValidNames
     THEN /\ Step(p, "snapshot", [service |-> s, tables |-> tables[s]])
          /\ settled' = IF Registering(NameOf[s]) = {}
                        THEN [x \in Services |->
                                IF NameOf[x] = NameOf[s] THEN tables[x] ELSE settled[x]]
                        ELSE settled
     ELSE Return(p, <<NoName, NoName>>, "invalid") /\ UNCHANGED settled
  /\ UNCHANGED <<tables, instances, index, services, mu, seen>>

Lock(p) ==
  /\ pc[p] = "snapshot" /\ mu = Nobody
  /\ mu' = p
  /\ Step(p, "add", job[p])
  /\ UNCHANGED <<tables, instances, index, services, seen, settled>>

\* A mutated form of AddInstance: a name that is listed keeps what it has.
AddInstanceOnce(p) ==
  /\ pc[p] = "add"
  /\ LET n   == NameOf[job[p].service]
         new == [name |-> n, tables |-> job[p].tables] IN
       IF index[n] = 0
       THEN /\ index' = [index EXCEPT ![n] = Len(instances) + 1]
            /\ instances' = Append(instances, new)
       ELSE UNCHANGED <<index, instances>>
  /\ Step(p, "serve", job[p])
  /\ UNCHANGED <<tables, services, mu, seen, settled>>

AddInstance(p) ==
  /\ pc[p] = "add"
  /\ LET n   == NameOf[job[p].service]
         new == [name |-> n, tables |-> job[p].tables] IN
       IF index[n] = 0
       THEN /\ index' = [index EXCEPT ![n] = Len(instances) + 1]
            /\ instances' = Append(instances, new)
       ELSE /\ instances' = [instances EXCEPT ![index[n]] = new]
            /\ UNCHANGED index
  /\ Step(p, "serve", job[p])
  /\ UNCHANGED <<tables, services, mu, seen, settled>>

\* A mutated form of Serve: the first service of a name stays.
ServeFirst(p) ==
  /\ pc[p] = "serve"
  /\ LET n == NameOf[job[p].service] IN
       services' = IF services[n] = NoService
                   THEN [services EXCEPT ![n] = job[p].service] ELSE services
  /\ mu' = Nobody
  /\ Step(p, "idle", NoJob)
  /\ UNCHANGED <<tables, instances, index, seen, settled>>

Serve(p) ==
  /\ pc[p] = "serve"
  /\ services' = [services EXCEPT ![NameOf[job[p].service]] = job[p].service]
  /\ mu' = Nobody
  /\ Step(p, "idle", NoJob)
  /\ UNCHANGED <<tables, instances, index, seen, settled>>

-----------------------------------------------------------------------------
\* The handlers.

Listed == {<<instances[i].name, t>> : i \in DOMAIN instances, t \in Tables}

Offered(n, t) ==
  \E i \in DOMAIN instances : instances[i].name = n /\ t \in instances[i].tables

\* The entries are read when the response is encoded; that a place of the list
\* never changes its name makes this one step.
DataProject(p) ==
  /\ pc[p] = "idle"
  /\ seen' = [seen EXCEPT ![p] = {q \in Listed : Offered(q[1], q[2])}]
  /\ answer' = NoAnswer
  /\ UNCHANGED <<tables, instances, index, services, mu, pc, job, settled>>

\* The list is read while it is appended to: a data race.
DataProjectTorn(p) ==
  /\ pc[p] = "idle" /\ \E r \in Procs : pc[r] = "add"
  /\ seen' = [seen EXCEPT ![p] = {}]
  /\ answer' = NoAnswer
  /\ UNCHANGED <<tables, instances, index, services, mu, pc, job, settled>>

DataQuery(p, n, t) ==
  /\ pc[p] = "idle"
  /\ Step(p, "find", [query |-> <<n, t>>])
  /\ UNCHANGED <<tables, instances, index, services, mu, seen, settled>>

\* A mutated form of Find: the mutex is not taken.
FindUnlocked(p) ==
  /\ pc[p] = "find"
  /\ LET s == services[job[p].query[1]] IN
       IF s = NoService
       THEN Return(p, job[p].query, "no instance")
       ELSE Step(p, "run", [query |-> job[p].query, service |-> s])
  /\ UNCHANGED <<tables, instances, index, services, mu, seen, settled>>

\* The mutex is taken and released around the look at the services ...
Find(p) ==
  /\ pc[p] = "find" /\ mu = Nobody
  /\ LET s == services[job[p].query[1]] IN
       IF s = NoService
       THEN Return(p, job[p].query, "no instance")
       ELSE Step(p, "run", [query |-> job[p].query, service |-> s])
  /\ UNCHANGED <<tables, instances, index, services, mu, seen, settled>>

\* ... and the service looks for the table.
Query(p) ==
  /\ pc[p] = "run"
  /\ Return(p, job[p].query,
            IF job[p].query[2] \in tables[job[p].service] THEN "served" ELSE "no table")
  /\ UNCHANGED <<tables, instances, index, services, mu, seen, settled>>

Registers(p) == Lock(p) \/ AddInstance(p) \/ Serve(p)

Next ==
  \/ \E s \in Services, t \in Tables : TableSetup(s, t)
  \/ \E p \in Procs :
       \/ \E s \in Services : RegisterService(p, s)
       \/ Registers(p)
       \/ DataProject(p) \/ DataProjectTorn(p)
       \/ \E n \in Names, t \in Tables : DataQuery(p, n, t)
       \/ Find(p) \/ Query(p)

Spec == Init /\ [][Next]_vars

-----------------------------------------------------------------------------
Registration == [service : {s \in Services : NameOf[s] \in ValidNames},
                 tables : SUBSET Tables]

Lookup  == [query : Names \X Tables]
Serving == [query : Names \X Tables, service : Services]

Jobs    == {NoJob} \cup Registration \cup Lookup \cup Serving

JobOK(p) ==
  /\ pc[p] = "idle" => job[p] = NoJob
  /\ pc[p] \in {"snapshot", "add", "serve"} =>
       /\ job[p] \in Registration
       /\ job[p].tables \subseteq tables[job[p].service]
  /\ pc[p] \in {"add", "serve"} => mu = p
  /\ pc[p] = "find" => job[p] \in Lookup
  /\ pc[p] = "run" => job[p] \in Serving

TypeOK ==
  /\ tables \in [Services -> SUBSET Tables]
  /\ instances \in Seq([name : Names, tables : SUBSET Tables])
  /\ index \in [Names -> 0..Len(instances)]
  /\ services \in [Names -> Services \cup {NoService}]
  /\ mu \in Procs \cup {Nobody}
  /\ pc \in [Procs -> {"idle", "snapshot", "add", "serve", "find", "run"}]
  /\ job \in [Procs -> Jobs]
  /\ \A p \in Procs : JobOK(p)
  /\ seen \in [Procs -> SUBSET (Names \X Tables)]

\* Outside a registration the list has each name that is served once and no
\* other, and its tables are tables of the service that serves it, whichever
\* services of that name were registered in whatever order.
ListedIsServed ==
  mu = Nobody =>
    \A n \in Names :
      /\ index[n] = 0 <=> services[n] = NoService
      /\ \A i \in DOMAIN instances : instances[i].name = n <=> i = index[n]
      /\ index[n] # 0 => instances[index[n]].tables \subseteq tables[services[n]]

\* A query of an instance that p saw listed, even in the middle of its
\* registration, finds the instance.
SeenIsFound ==
  [][\A p \in Procs : answer'.proc = p /\ answer'.status = "no instance"
       => \A q \in seen[p] : q[1] # answer'.query[1]]_vars

\* Once no registration of a name is running, its list has every table that its
\* service had set up before the first of those that overlapped began.
RegisteredIsListed ==
  \A n \in Names :
    Registering(n) = {} /\ index[n] # 0
      => settled[services[n]] \subseteq instances[index[n]].tables
=============================================================================
