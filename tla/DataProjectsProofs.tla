-------------------------- MODULE DataProjectsProofs --------------------------
(***************************************************************************)
(* The list of data projects and the services behind it agree, for any     *)
(* number of goroutines, services, names and tables.                       *)
(***************************************************************************)
EXTENDS DataProjects, TLAPS

Instance == [name : Names, tables : SUBSET Tables]

\* The list and its index agree at every moment ...
Indexed ==
  \A n \in Names : \A i \in DOMAIN instances : instances[i].name = n <=> i = index[n]

Agrees(n) ==
  /\ index[n] = 0 <=> services[n] = NoService
  /\ index[n] # 0 => instances[index[n]].tables \subseteq tables[services[n]]

Serves(p, n) == pc[p] = "serve" /\ NameOf[job[p].service] = n

\* ... and with the services, but for a name that is being registered: it is
\* listed already with the tables of the service that is about to serve it.
Served ==
  \A n \in Names :
    /\ (\A p \in Procs : ~ Serves(p, n)) => Agrees(n)
    /\ \A p \in Procs : Serves(p, n) =>
         index[n] # 0 /\ instances[index[n]].tables = job[p].tables

Holder == \A p \in Procs : mu = p => pc[p] \in {"add", "serve"}

IInv == TypeOK /\ Indexed /\ Served /\ Holder

LEMMA NamesFact ==
  /\ \A s \in Services : NameOf[s] \in ValidNames => NameOf[s] \in Names
  /\ NoService \notin Services
  /\ Nobody \notin Procs
  BY ProjectsAssumption DEF Names

LEMMA InitIInv == Init => IInv
<1> SUFFICES ASSUME Init PROVE IInv
  OBVIOUS
<1>1. instances \in Seq(Instance) /\ Len(instances) = 0 /\ DOMAIN instances = {}
  BY DEF Init
<1>2. TypeOK
  BY <1>1, NamesFact DEF Init, TypeOK, JobOK, Jobs, Instance
<1>3. Indexed /\ Served /\ Holder
  BY <1>1, NamesFact DEF Init, Indexed, Served, Serves, Agrees, Holder
<1> QED
  BY <1>2, <1>3 DEF IInv

LEMMA TableSetupIInv ==
  ASSUME IInv, NEW s \in Services, NEW t \in Tables, TableSetup(s, t)
  PROVE  IInv'
<1>1. /\ tables' \in [Services -> SUBSET Tables]
      /\ \A x \in Services : tables[x] \subseteq tables'[x]
      /\ UNCHANGED <<instances, index, services, mu, pc, job, seen>>
  BY DEF IInv, TypeOK, TableSetup
<1>2. TypeOK'
  <2>1. ASSUME NEW p \in Procs PROVE JobOK(p)'
    BY <1>1, <2>1 DEF IInv, TypeOK, JobOK, Registration
  <2> QED
    BY <1>1, <2>1 DEF IInv, TypeOK
<1>3. Served'
  <2>1. ASSUME NEW n \in Names, Agrees(n) PROVE Agrees(n)'
    BY <1>1, <2>1, NamesFact DEF IInv, TypeOK, Agrees
  <2>2. \A p \in Procs, n \in Names : Serves(p, n)' <=> Serves(p, n)
    BY <1>1 DEF Serves
  <2> QED
    BY <1>1, <2>1, <2>2 DEF IInv, Served
<1> QED
  BY <1>1, <1>2, <1>3 DEF IInv, Indexed, Holder

\* A step that touches neither the tables nor the list nor the services, and
\* takes no goroutine out of or into a registration that holds the mutex.
LEMMA QuietIInv ==
  ASSUME IInv, NEW p \in Procs,
         UNCHANGED <<tables, instances, index, services, mu>>,
         TypeOK',
         pc[p] \notin {"add", "serve"}, pc'[p] \notin {"add", "serve"},
         \A r \in Procs : r # p => pc'[r] = pc[r] /\ job'[r] = job[r]
  PROVE  IInv'
<1>1. \A r \in Procs, n \in Names : Serves(r, n)' <=> Serves(r, n)
  BY DEF Serves
<1>2. \A r \in Procs, n \in Names : Serves(r, n) => job'[r] = job[r]
  BY DEF Serves
<1>3. Served'
  BY <1>1, <1>2 DEF IInv, Served, Agrees
<1>4. Holder'
  BY DEF IInv, Holder
<1> QED
  BY <1>3, <1>4 DEF IInv, Indexed

LEMMA RegisterServiceIInv ==
  ASSUME IInv, NEW p \in Procs, NEW s \in Services, RegisterService(p, s)
  PROVE  IInv'
<1>1. /\ UNCHANGED <<tables, instances, index, services, mu, seen>>
      /\ pc[p] = "idle"
      /\ \/ /\ NameOf[s] \in ValidNames
            /\ pc' = [pc EXCEPT ![p] = "snapshot"]
            /\ job' = [job EXCEPT ![p] = [service |-> s, tables |-> tables[s]]]
         \/ /\ pc' = [pc EXCEPT ![p] = "idle"]
            /\ job' = [job EXCEPT ![p] = NoJob]
  BY DEF RegisterService, Step, Return, Goto
<1>2. TypeOK'
  <2>1. ASSUME NEW r \in Procs PROVE JobOK(r)'
    <3>1. CASE r = p
      BY <1>1, <3>1 DEF IInv, TypeOK, JobOK, Registration
    <3>2. CASE r # p
      BY <1>1, <3>2 DEF IInv, TypeOK, JobOK
    <3> QED
      BY <3>1, <3>2
  <2>2. pc' \in [Procs -> {"idle", "snapshot", "add", "serve", "find", "run"}]
    BY <1>1 DEF IInv, TypeOK
  <2>3. NoJob \in Jobs /\ (NameOf[s] \in ValidNames =>
                            [service |-> s, tables |-> tables[s]] \in Jobs)
    BY DEF IInv, TypeOK, Jobs, Registration
  <2>4. job' \in [Procs -> Jobs]
    BY <1>1, <2>3 DEF IInv, TypeOK
  <2> QED
    BY <1>1, <2>1, <2>2, <2>4 DEF IInv, TypeOK
<1>3. \A r \in Procs : r # p => pc'[r] = pc[r] /\ job'[r] = job[r]
  BY <1>1 DEF IInv, TypeOK
<1>4. pc'[p] \notin {"add", "serve"}
  BY <1>1 DEF IInv, TypeOK
<1> QED
  BY <1>1, <1>2, <1>3, <1>4, QuietIInv

LEMMA LockIInv ==
  ASSUME IInv, NEW p \in Procs, Lock(p)
  PROVE  IInv'
<1>1. /\ UNCHANGED <<tables, instances, index, services, job, seen>>
      /\ pc[p] = "snapshot" /\ mu = Nobody /\ mu' = p
      /\ pc' = [pc EXCEPT ![p] = "add"]
  BY DEF IInv, TypeOK, Lock, Step, Goto
<1>2. TypeOK'
  <2>1. ASSUME NEW r \in Procs PROVE JobOK(r)'
    BY <1>1, NamesFact DEF IInv, TypeOK, JobOK
  <2>2. pc' \in [Procs -> {"idle", "snapshot", "add", "serve", "find", "run"}]
    BY <1>1 DEF IInv, TypeOK
  <2> QED
    BY <1>1, <2>1, <2>2 DEF IInv, TypeOK
<1>3. \A r \in Procs, n \in Names : Serves(r, n)' <=> Serves(r, n)
  BY <1>1 DEF IInv, TypeOK, Serves
<1>4. Served'
  BY <1>1, <1>3 DEF IInv, Served, Agrees
<1>5. Holder'
  BY <1>1, NamesFact DEF IInv, TypeOK, Holder
<1> QED
  BY <1>1, <1>2, <1>4, <1>5 DEF IInv, Indexed

LEMMA AddInstanceIInv ==
  ASSUME IInv, NEW p \in Procs, AddInstance(p)
  PROVE  IInv'
<1> DEFINE n   == NameOf[job[p].service]
           new == [name |-> n, tables |-> job[p].tables]
<1>1. /\ UNCHANGED <<tables, services, mu, seen, job>>
      /\ pc[p] = "add" /\ mu = p
      /\ pc' = [pc EXCEPT ![p] = "serve"]
      /\ n \in Names /\ new \in Instance
  BY NamesFact DEF IInv, TypeOK, JobOK, Registration, AddInstance, Step, Goto, Instance
<1>2. /\ instances \in Seq(Instance) /\ index \in [Names -> 0..Len(instances)]
  BY DEF IInv, TypeOK, Instance
<1>3. \/ /\ index[n] = 0
         /\ index' = [index EXCEPT ![n] = Len(instances) + 1]
         /\ instances' = Append(instances, new)
      \/ /\ index[n] # 0 /\ index' = index
         /\ instances' = [instances EXCEPT ![index[n]] = new]
  BY DEF AddInstance
<1> HIDE DEF n, new
<1>4. /\ instances' \in Seq(Instance)
      /\ index' \in [Names -> 0..Len(instances')]
      /\ index'[n] # 0 /\ instances'[index'[n]] = new
      /\ \A m \in Names : m # n => index'[m] = index[m]
      /\ \A i \in DOMAIN instances : i # index[n] => instances'[i] = instances[i]
      /\ DOMAIN instances' = DOMAIN instances \cup {index'[n]}
      /\ index[n] # 0 => index'[n] = index[n]
      /\ index[n] = 0 => index'[n] \notin DOMAIN instances
  <2>1. CASE index[n] = 0
    <3>1. /\ instances' = Append(instances, new)
          /\ index' = [index EXCEPT ![n] = Len(instances) + 1]
      BY <2>1, <1>3
    <3>2. /\ Len(instances) \in Nat /\ DOMAIN instances = 1..Len(instances)
          /\ instances' \in Seq(Instance) /\ Len(instances') = Len(instances) + 1
          /\ DOMAIN instances' = 1..(Len(instances) + 1)
          /\ \A i \in 1..Len(instances) : instances'[i] = instances[i]
          /\ instances'[Len(instances) + 1] = new
      BY <3>1, <1>1, <1>2
    <3>3. /\ index'[n] = Len(instances) + 1
          /\ \A m \in Names : m # n => index'[m] = index[m]
          /\ index' \in [Names -> 0..(Len(instances) + 1)]
      BY <3>1, <3>2, <1>1, <1>2
    <3> QED
      BY <2>1, <3>2, <3>3
  <2>2. CASE index[n] # 0
    <3>1. index[n] \in 1..Len(instances) /\ DOMAIN instances = 1..Len(instances)
      BY <2>2, <1>1, <1>2
    <3>2. index' = index /\ instances' = [instances EXCEPT ![index[n]] = new]
      BY <2>2, <1>3
    <3>3. /\ instances' \in Seq(Instance) /\ Len(instances') = Len(instances)
          /\ DOMAIN instances' = DOMAIN instances
          /\ instances'[index[n]] = new
          /\ \A i \in DOMAIN instances : i # index[n] => instances'[i] = instances[i]
      BY <3>1, <3>2, <1>1, <1>2
    <3> QED
      BY <2>2, <3>1, <3>2, <3>3, <1>2
  <2> QED
    BY <2>1, <2>2
<1>5. TypeOK'
  <2>1. ASSUME NEW r \in Procs PROVE JobOK(r)'
    BY <1>1 DEF IInv, TypeOK, JobOK
  <2>2. pc' \in [Procs -> {"idle", "snapshot", "add", "serve", "find", "run"}]
    BY <1>1 DEF IInv, TypeOK
  <2> QED
    BY <1>1, <1>4, <2>1, <2>2 DEF IInv, TypeOK, Instance
<1>6. Indexed'
  <2> SUFFICES ASSUME NEW m \in Names, NEW i \in DOMAIN instances'
               PROVE  instances'[i].name = m <=> i = index'[m]
    BY DEF Indexed
  <2>1. new.name = n
    BY DEF new
  <2>2. index[m] # 0 => index[m] \in DOMAIN instances
    BY <1>2
  <2>3. DOMAIN instances \subseteq Nat \ {0}
    BY <1>2
  <2>4. \A j \in DOMAIN instances : instances[j].name = m <=> j = index[m]
    BY DEF IInv, Indexed
  <2>5. \A j \in DOMAIN instances : instances[j].name = n <=> j = index[n]
    BY <1>1 DEF IInv, Indexed
  <2>6. CASE i = index'[n]
    <3>1. CASE m = n
      BY <2>1, <2>6, <3>1, <1>4
    <3>2. CASE m # n
      <4>1. index'[m] = index[m]
        BY <3>2, <1>4
      <4>2. index[m] # index'[n]
        BY <3>2, <1>4, <2>2, <2>4, <2>5
      <4> QED
        BY <2>1, <2>6, <3>2, <4>1, <4>2, <1>4
    <3> QED
      BY <3>1, <3>2
  <2>7. CASE i # index'[n]
    <3>1. i \in DOMAIN instances /\ i # index[n] /\ instances'[i] = instances[i]
      BY <2>7, <1>4, <2>3
    <3>2. CASE m = n
      BY <3>1, <3>2, <2>5, <2>7
    <3>3. CASE m # n
      BY <3>1, <3>3, <1>4, <2>4
    <3> QED
      BY <3>2, <3>3
  <2> QED
    BY <2>6, <2>7
<1>7. Served'
  <2>1. \A r \in Procs, m \in Names : Serves(r, m)' <=> (r = p /\ m = n)
    BY <1>1 DEF IInv, TypeOK, JobOK, Serves, n
  <2>2. \A r \in Procs, m \in Names : ~ Serves(r, m)
    BY <1>1 DEF IInv, TypeOK, JobOK, Serves
  <2>3. index'[n] # 0 /\ instances'[index'[n]].tables = job'[p].tables
    BY <1>1, <1>4 DEF new
  <2>4. ASSUME NEW m \in Names, m # n PROVE Agrees(m)'
    <3>1. Agrees(m)
      BY <2>2 DEF IInv, Served
    <3>2. index'[m] = index[m]
      BY <2>4, <1>4
    <3>3. ASSUME index[m] # 0 PROVE instances'[index[m]] = instances[index[m]]
      <4>1. index[m] \in DOMAIN instances
        BY <3>3, <1>2
      <4>2. index[m] # index[n]
        BY <4>1, <2>4, <1>1 DEF IInv, Indexed
      <4> QED
        BY <4>1, <4>2, <1>4
    <3> QED
      BY <3>1, <3>2, <3>3, <1>1 DEF Agrees
  <2> QED
    BY <1>1, <2>1, <2>3, <2>4 DEF Served
<1>8. Holder'
  BY <1>1 DEF IInv, TypeOK, Holder
<1> QED
  BY <1>5, <1>6, <1>7, <1>8 DEF IInv

LEMMA ServeIInv ==
  ASSUME IInv, NEW p \in Procs, Serve(p)
  PROVE  IInv'
<1>0. PICK s \in Services : s = job[p].service
  BY DEF IInv, TypeOK, JobOK, Registration, Serve
<1>1. /\ UNCHANGED <<tables, instances, index, seen>>
      /\ pc[p] = "serve" /\ mu = p /\ mu' = Nobody
      /\ pc' = [pc EXCEPT ![p] = "idle"] /\ job' = [job EXCEPT ![p] = NoJob]
      /\ services' = [services EXCEPT ![NameOf[s]] = s]
      /\ s \in Services /\ NameOf[s] \in Names
      /\ job[p].tables \subseteq tables[s]
  BY <1>0, NamesFact DEF IInv, TypeOK, JobOK, Registration, Serve, Step, Goto
<1>2. TypeOK'
  <2>1. ASSUME NEW r \in Procs PROVE JobOK(r)'
    <3>1. CASE r = p
      BY <1>1, <3>1 DEF IInv, TypeOK, JobOK
    <3>2. CASE r # p
      BY <1>1, <3>2 DEF IInv, TypeOK, JobOK
    <3> QED
      BY <3>1, <3>2
  <2>2. pc' \in [Procs -> {"idle", "snapshot", "add", "serve", "find", "run"}]
    BY <1>1 DEF IInv, TypeOK
  <2>3. services' \in [Names -> Services \cup {NoService}]
    BY <1>1 DEF IInv, TypeOK
  <2>4. job' \in [Procs -> Jobs]
    BY <1>1 DEF IInv, TypeOK, Jobs
  <2> QED
    BY <1>1, <2>1, <2>2, <2>3, <2>4 DEF IInv, TypeOK
<1>3. Served'
  <2>1. \A r \in Procs, m \in Names : Serves(r, m) <=> (r = p /\ m = NameOf[s])
    BY <1>0, <1>1 DEF IInv, TypeOK, JobOK, Serves
  <2>2. \A r \in Procs, m \in Names : ~ Serves(r, m)'
    BY <1>1 DEF IInv, TypeOK, JobOK, Serves
  <2>3. ASSUME NEW m \in Names, m # NameOf[s] PROVE Agrees(m)'
    <3>1. Agrees(m)
      BY <2>1, <2>3 DEF IInv, Served
    <3> QED
      BY <1>1, <2>3, <3>1 DEF IInv, TypeOK, Agrees
  <2>4. Agrees(NameOf[s])'
    <3>1. services'[NameOf[s]] = s /\ s # NoService
      BY <1>1, NamesFact DEF IInv, TypeOK
    <3>2. index[NameOf[s]] # 0 /\ instances[index[NameOf[s]]].tables = job[p].tables
      BY <1>1, <2>1 DEF IInv, Served
    <3> QED
      BY <1>1, <3>1, <3>2 DEF Agrees
  <2> QED
    BY <2>2, <2>3, <2>4 DEF Served
<1>4. Holder'
  BY <1>1, NamesFact DEF Holder
<1> QED
  BY <1>1, <1>2, <1>3, <1>4 DEF IInv, Indexed

\* The steps of a call: they change the caller's place, its list and the answer.
LEMMA CallIInv ==
  ASSUME IInv, NEW p \in Procs,
         \/ DataProject(p) \/ DataProjectTorn(p)
         \/ \E n \in Names, t \in Tables : DataQuery(p, n, t)
         \/ Find(p) \/ Query(p)
  PROVE  IInv'
<1>1. PICK place \in {"idle", "find", "run"}, j \in Jobs :
        /\ UNCHANGED <<tables, instances, index, services, mu>>
        /\ pc[p] \in {"idle", "find", "run"}
        /\ pc' = [pc EXCEPT ![p] = place] /\ job' = [job EXCEPT ![p] = j]
        /\ place = "idle" => j = NoJob
        /\ place = "find" => j \in Lookup
        /\ place = "run" => j \in Serving
  <2>1. CASE DataProject(p) \/ DataProjectTorn(p)
    <3>1. /\ pc[p] = "idle" /\ job[p] = NoJob
          /\ UNCHANGED <<tables, instances, index, services, mu, pc, job>>
      BY <2>1 DEF DataProject, DataProjectTorn, IInv, TypeOK, JobOK
    <3>2. pc = [pc EXCEPT ![p] = "idle"] /\ job = [job EXCEPT ![p] = NoJob]
      BY <3>1 DEF IInv, TypeOK
    <3> QED
      BY <3>1, <3>2 DEF Jobs
  <2>2. CASE \E n \in Names, t \in Tables : DataQuery(p, n, t)
    <3>1. PICK n \in Names, t \in Tables : DataQuery(p, n, t)
      BY <2>2
    <3>2. [query |-> <<n, t>>] \in Lookup
      BY DEF Lookup
    <3> QED
      BY <3>1, <3>2 DEF DataQuery, Step, Goto, Jobs
  <2>3. CASE Find(p)
    <3> DEFINE s == services[job[p].query[1]]
               j == [query |-> job[p].query, service |-> s]
    <3>1. pc[p] = "find" /\ job[p].query \in Names \X Tables
      BY <2>3 DEF Find, IInv, TypeOK, JobOK, Lookup
    <3>2. s \in Services \cup {NoService}
      BY <3>1 DEF IInv, TypeOK
    <3>3. s # NoService => j \in Serving
      BY <3>1, <3>2 DEF Serving
    <3> QED
      BY <2>3, <3>1, <3>3, ZenonT(60) DEF Find, Step, Return, Goto, Jobs
  <2>4. CASE Query(p)
    BY <2>4, ZenonT(60) DEF Query, Return, Goto, Jobs
  <2> QED
    BY <2>1, <2>2, <2>3, <2>4
<1>2. seen' \in [Procs -> SUBSET (Names \X Tables)]
  <2>1. Listed \subseteq Names \X Tables
    <3>1. instances \in Seq(Instance)
      BY DEF IInv, TypeOK, Instance
    <3>2. \A i \in DOMAIN instances : instances[i] \in Instance
      BY <3>1
    <3>3. \A i \in DOMAIN instances : instances[i].name \in Names
      BY <3>2 DEF Instance
    <3> QED
      BY <3>3 DEF Listed
  <2> QED
    BY <2>1, ZenonT(60) DEF IInv, TypeOK, DataProject, DataProjectTorn, DataQuery, Find, Query
<1>3. TypeOK'
  <2>1. ASSUME NEW r \in Procs PROVE JobOK(r)'
    <3>1. CASE r = p
      BY <1>1, <3>1 DEF IInv, TypeOK, JobOK
    <3>2. CASE r # p
      BY <1>1, <3>2 DEF IInv, TypeOK, JobOK
    <3> QED
      BY <3>1, <3>2
  <2>2. pc' \in [Procs -> {"idle", "snapshot", "add", "serve", "find", "run"}]
    BY <1>1 DEF IInv, TypeOK
  <2>3. job' \in [Procs -> Jobs]
    BY <1>1 DEF IInv, TypeOK
  <2> QED
    BY <1>1, <1>2, <2>1, <2>2, <2>3 DEF IInv, TypeOK
<1>4. \A r \in Procs : r # p => pc'[r] = pc[r] /\ job'[r] = job[r]
  BY <1>1 DEF IInv, TypeOK
<1>5. pc[p] \notin {"add", "serve"} /\ pc'[p] \notin {"add", "serve"}
  BY <1>1 DEF IInv, TypeOK
<1> QED
  BY <1>1, <1>3, <1>4, <1>5, QuietIInv

LEMMA NextIInv == IInv /\ [Next]_vars => IInv'
<1> SUFFICES ASSUME IInv, [Next]_vars PROVE IInv'
  OBVIOUS
<1>1. ASSUME NEW s \in Services, NEW t \in Tables, TableSetup(s, t) PROVE IInv'
  BY <1>1, TableSetupIInv
<1>2. ASSUME NEW p \in Procs, NEW s \in Services, RegisterService(p, s) PROVE IInv'
  BY <1>2, RegisterServiceIInv
<1>3. ASSUME NEW p \in Procs, Registers(p) PROVE IInv'
  BY <1>3, LockIInv, AddInstanceIInv, ServeIInv DEF Registers
<1>4. ASSUME NEW p \in Procs,
             \/ DataProject(p) \/ DataProjectTorn(p)
             \/ \E n \in Names, t \in Tables : DataQuery(p, n, t)
             \/ Find(p) \/ Query(p)
      PROVE IInv'
  BY <1>4, CallIInv
<1>5. CASE UNCHANGED vars
  BY <1>5 DEF vars, IInv, TypeOK, JobOK, Indexed, Served, Serves, Agrees, Holder
<1> QED
  BY <1>1, <1>2, <1>3, <1>4, <1>5 DEF Next

LEMMA IInvServed == IInv => ListedIsServed
<1> SUFFICES ASSUME IInv, mu = Nobody, NEW n \in Names
             PROVE  /\ index[n] = 0 <=> services[n] = NoService
                    /\ \A i \in DOMAIN instances : instances[i].name = n <=> i = index[n]
                    /\ index[n] # 0 =>
                         instances[index[n]].tables \subseteq tables[services[n]]
  BY DEF ListedIsServed
<1>1. \A p \in Procs : ~ Serves(p, n)
  BY NamesFact DEF IInv, TypeOK, JobOK, Serves
<1>2. Agrees(n)
  BY <1>1 DEF IInv, Served
<1> QED
  BY <1>2 DEF IInv, Indexed, Agrees

\* Every state of the manager is well formed, and the mutex belongs to the
\* goroutine that is changing the list.
THEOREM ProjectsTypeCorrect == Spec => []TypeOK
<1>1. Init => IInv
  BY InitIInv
<1>2. IInv /\ [Next]_vars => IInv'
  BY NextIInv
<1>3. IInv => TypeOK
  BY DEF IInv
<1> QED
  BY <1>1, <1>2, <1>3, PTL DEF Spec

\* What DataProject lists is what DataQuery serves: dataProjectManager keeps the
\* list, its index and the services together however registrations interleave.
THEOREM ListedAlwaysServed == Spec => []ListedIsServed
<1>1. Init => IInv
  BY InitIInv
<1>2. IInv /\ [Next]_vars => IInv'
  BY NextIInv
<1>3. IInv => ListedIsServed
  BY IInvServed
<1> QED
  BY <1>1, <1>2, <1>3, PTL DEF Spec

-----------------------------------------------------------------------------
(* What a registration cannot miss, and what a listing promises. *)

\* Every registration under way has the tables it cannot miss ...
Complete ==
  /\ settled \in [Services -> SUBSET Tables]
  /\ \A s \in Services : settled[s] \subseteq tables[s]
  /\ \A p \in Procs : pc[p] \in {"snapshot", "add", "serve"} =>
       settled[job[p].service] \subseteq job[p].tables

\* ... and a name is served by a service of that name.
OwnName == \A n \in Names : services[n] # NoService => NameOf[services[n]] = n

SInv == Complete /\ OwnName /\ RegisteredIsListed

\* What a goroutine has seen is still in the list.
SeenStays == \A p \in Procs : \A q \in seen[p] : index[q[1]] # 0

LEMMA RegisteringIs ==
  \A n \in Names : Registering(n) = {} <=>
    \A p \in Procs : pc[p] \in {"snapshot", "add", "serve"} => NameOf[job[p].service] # n
  BY DEF Registering

\* A name that nobody registers and that is listed is served.
LEMMA ListedAtRest ==
  ASSUME IInv, NEW n \in Names, Registering(n) = {}, index[n] # 0
  PROVE  services[n] \in Services
<1>1. \A p \in Procs : ~Serves(p, n)
  BY RegisteringIs DEF Serves
<1>2. Agrees(n)
  BY <1>1 DEF IInv, Served
<1> QED
  BY <1>2 DEF IInv, TypeOK, Agrees

LEMMA TableSetupSInv ==
  ASSUME IInv, SInv, NEW s \in Services, NEW t \in Tables, TableSetup(s, t)
  PROVE  SInv'
<1>1. /\ \A x \in Services : tables[x] \subseteq tables'[x]
      /\ UNCHANGED <<instances, index, services, mu, pc, job, seen, settled>>
  BY DEF IInv, TypeOK, TableSetup
<1>2. \A n \in Names : Registering(n)' = Registering(n)
  BY <1>1 DEF Registering
<1> QED
  BY <1>1, <1>2 DEF SInv, Complete, OwnName, RegisteredIsListed

LEMMA RegisterServiceSInv ==
  ASSUME IInv, SInv, NEW p \in Procs, NEW s \in Services, RegisterService(p, s)
  PROVE  SInv'
<1> DEFINE n == NameOf[s]
<1>0. UNCHANGED <<tables, instances, index, services>> /\ pc[p] = "idle"
  BY DEF RegisterService
<1>1. CASE n \notin ValidNames
  <2>1. /\ pc' = [pc EXCEPT ![p] = "idle"] /\ job' = [job EXCEPT ![p] = NoJob]
        /\ settled' = settled
    BY <1>1 DEF RegisterService, Return, Goto
  <2>2. \A r \in Procs : pc'[r] = pc[r] /\ (pc[r] # "idle" => job'[r] = job[r])
    BY <1>0, <2>1 DEF IInv, TypeOK
  <2>3. \A m \in Names : Registering(m)' = Registering(m)
    BY <2>2 DEF Registering
  <2> QED
    BY <1>0, <2>1, <2>2, <2>3 DEF SInv, Complete, OwnName, RegisteredIsListed
<1>2. CASE n \in ValidNames
  <2>1. /\ pc' = [pc EXCEPT ![p] = "snapshot"]
        /\ job' = [job EXCEPT ![p] = [service |-> s, tables |-> tables[s]]]
        /\ settled' = IF Registering(n) = {}
                      THEN [x \in Services |-> IF NameOf[x] = n THEN tables[x] ELSE settled[x]]
                      ELSE settled
    BY <1>2 DEF RegisterService, Step, Goto
  <2>2. /\ pc'[p] = "snapshot" /\ job'[p].service = s /\ job'[p].tables = tables[s]
        /\ \A r \in Procs : r # p => pc'[r] = pc[r] /\ job'[r] = job[r]
    BY <2>1 DEF IInv, TypeOK
  <2>3. /\ settled' \in [Services -> SUBSET Tables]
        /\ \A x \in Services : settled'[x] \subseteq tables[x]
        /\ \A x \in Services : NameOf[x] # n \/ Registering(n) # {} => settled'[x] = settled[x]
    BY <2>1 DEF IInv, TypeOK, SInv, Complete
  <2>4. ASSUME NEW r \in Procs, pc'[r] \in {"snapshot", "add", "serve"}
        PROVE  settled'[job'[r].service] \subseteq job'[r].tables
    <3>1. CASE r = p
      BY <2>2, <2>3, <3>1
    <3>2. CASE r # p
      <4>1. /\ pc[r] \in {"snapshot", "add", "serve"} /\ job'[r] = job[r]
            /\ job[r].service \in Services
        BY <2>2, <2>4, <3>2 DEF IInv, TypeOK, JobOK, Registration
      <4>2. NameOf[job[r].service] # n \/ Registering(n) # {}
        BY <4>1 DEF Registering
      <4> QED
        BY <2>3, <4>1, <4>2 DEF SInv, Complete
    <3> QED
      BY <3>1, <3>2
  <2>5. RegisteredIsListed'
    <3> SUFFICES ASSUME NEW m \in Names, Registering(m)' = {}, index'[m] # 0
                 PROVE  settled'[services'[m]] \subseteq instances'[index'[m]].tables
      BY DEF RegisteredIsListed
    <3>1. m # n
      BY <2>2 DEF Registering
    <3>2. Registering(m) = {}
      BY <1>0, <2>2 DEF Registering
    <3>3. services[m] \in Services
      BY <1>0, <3>2, ListedAtRest
    <3>4. NameOf[services[m]] # n
      BY <3>1, <3>3, NamesFact DEF SInv, OwnName
    <3> QED
      BY <1>0, <2>3, <3>2, <3>3, <3>4 DEF SInv, RegisteredIsListed
  <2> QED
    BY <1>0, <2>3, <2>4, <2>5 DEF SInv, Complete, OwnName
<1> QED
  BY <1>1, <1>2

LEMMA LockSInv ==
  ASSUME IInv, SInv, NEW p \in Procs, Lock(p)
  PROVE  SInv'
<1>1. /\ UNCHANGED <<tables, instances, index, services, settled>>
      /\ pc[p] = "snapshot" /\ job' = job
      /\ pc' = [pc EXCEPT ![p] = "add"]
  BY DEF IInv, TypeOK, Lock, Step, Goto
<1>2. \A r \in Procs :
        pc'[r] \in {"snapshot", "add", "serve"} <=> pc[r] \in {"snapshot", "add", "serve"}
  BY <1>1 DEF IInv, TypeOK
<1>3. \A m \in Names : Registering(m)' = Registering(m)
  BY <1>1, <1>2 DEF Registering
<1> QED
  BY <1>1, <1>2, <1>3 DEF SInv, Complete, OwnName, RegisteredIsListed

LEMMA AddInstanceSInv ==
  ASSUME IInv, SInv, NEW p \in Procs, AddInstance(p)
  PROVE  SInv'
<1> DEFINE n   == NameOf[job[p].service]
           new == [name |-> n, tables |-> job[p].tables]
<1>1. /\ UNCHANGED <<tables, services, settled>>
      /\ pc[p] = "add" /\ job' = job
      /\ pc' = [pc EXCEPT ![p] = "serve"]
  BY DEF IInv, TypeOK, AddInstance, Step, Goto
<1>2. \A r \in Procs :
        pc'[r] \in {"snapshot", "add", "serve"} <=> pc[r] \in {"snapshot", "add", "serve"}
  BY <1>1 DEF IInv, TypeOK
<1>3. \A m \in Names : Registering(m)' = Registering(m)
  BY <1>1, <1>2 DEF Registering
<1>4. ASSUME NEW m \in Names, Registering(m) = {}, index'[m] # 0
      PROVE  index'[m] = index[m] /\ instances'[index[m]] = instances[index[m]]
  <2>1. m # n
    BY <1>1, <1>4 DEF Registering
  <2>2. /\ n \in Names
        /\ \/ /\ index[n] = 0
              /\ index' = [index EXCEPT ![n] = Len(instances) + 1]
              /\ instances' = Append(instances, new)
           \/ /\ index[n] # 0 /\ index' = index
              /\ instances' = [instances EXCEPT ![index[n]] = new]
    BY NamesFact DEF IInv, TypeOK, JobOK, Registration, AddInstance
  <2>3. instances \in Seq(Instance) /\ index \in [Names -> 0..Len(instances)]
    BY DEF IInv, TypeOK, Instance
  <2> HIDE DEF n, new
  <2>4. index'[m] = index[m] /\ index[m] \in 1..Len(instances)
    BY <1>4, <2>1, <2>2, <2>3
  <2>5. index[m] # index[n]
    <3>1. index[m] \in DOMAIN instances
      BY <2>3, <2>4
    <3> QED
      BY <2>1, <2>2, <3>1 DEF IInv, Indexed
  <2>6. instances'[index[m]] = instances[index[m]]
    BY <2>2, <2>3, <2>4, <2>5
  <2> QED
    BY <2>4, <2>6
<1>5. RegisteredIsListed'
  BY <1>1, <1>3, <1>4 DEF SInv, RegisteredIsListed
<1> QED
  BY <1>1, <1>2, <1>5 DEF SInv, Complete, OwnName

LEMMA ServeSInv ==
  ASSUME IInv, SInv, NEW p \in Procs, Serve(p)
  PROVE  SInv'
<1>0. PICK s \in Services : s = job[p].service
  BY DEF IInv, TypeOK, JobOK, Registration, Serve
<1>1. /\ UNCHANGED <<tables, instances, index, settled>>
      /\ pc[p] = "serve"
      /\ pc' = [pc EXCEPT ![p] = "idle"] /\ job' = [job EXCEPT ![p] = NoJob]
      /\ services' = [services EXCEPT ![NameOf[s]] = s]
      /\ s \in Services /\ NameOf[s] \in Names
  BY <1>0, NamesFact DEF IInv, TypeOK, JobOK, Registration, Serve, Step, Goto
<1>2. /\ pc'[p] = "idle"
      /\ \A r \in Procs : r # p => pc'[r] = pc[r] /\ job'[r] = job[r]
      /\ services'[NameOf[s]] = s
      /\ \A m \in Names : m # NameOf[s] => services'[m] = services[m]
  BY <1>1 DEF IInv, TypeOK
<1>3. Complete' /\ OwnName'
  BY <1>1, <1>2 DEF SInv, Complete, OwnName
<1>4. RegisteredIsListed'
  <2> SUFFICES ASSUME NEW m \in Names, Registering(m)' = {}, index'[m] # 0
               PROVE  settled'[services'[m]] \subseteq instances'[index'[m]].tables
    BY DEF RegisteredIsListed
  <2>1. CASE m = NameOf[s]
    <3>1. instances[index[m]].tables = job[p].tables
      BY <1>0, <1>1, <2>1 DEF IInv, Served, Serves
    <3>2. settled[s] \subseteq job[p].tables
      BY <1>0, <1>1 DEF SInv, Complete
    <3> QED
      BY <1>1, <1>2, <2>1, <3>1, <3>2
  <2>2. CASE m # NameOf[s]
    <3>1. Registering(m) = {}
      BY <1>0, <1>2, <2>2 DEF Registering
    <3> QED
      BY <1>1, <1>2, <2>2, <3>1 DEF SInv, RegisteredIsListed
  <2> QED
    BY <2>1, <2>2
<1> QED
  BY <1>3, <1>4 DEF SInv

\* A step that no registration takes.
LEMMA CallSInv ==
  ASSUME IInv, SInv, NEW p \in Procs,
         \/ DataProject(p) \/ DataProjectTorn(p)
         \/ \E n \in Names, t \in Tables : DataQuery(p, n, t)
         \/ Find(p) \/ Query(p)
  PROVE  SInv'
<1>1. /\ UNCHANGED <<tables, instances, index, services, settled>>
      /\ pc[p] \in {"idle", "find", "run"} /\ pc'[p] \in {"idle", "find", "run"}
      /\ \A r \in Procs : r # p => pc'[r] = pc[r] /\ job'[r] = job[r]
  <2>1. CASE DataProject(p) \/ DataProjectTorn(p)
    BY <2>1 DEF DataProject, DataProjectTorn
  <2>2. CASE \E n \in Names, t \in Tables : DataQuery(p, n, t)
    BY <2>2 DEF DataQuery, Step, Goto, IInv, TypeOK
  <2>3. CASE Find(p)
    BY <2>3 DEF Find, Step, Return, Goto, IInv, TypeOK
  <2>4. CASE Query(p)
    BY <2>4 DEF Query, Return, Goto, IInv, TypeOK
  <2> QED
    BY <2>1, <2>2, <2>3, <2>4
<1>2. \A m \in Names : Registering(m)' = Registering(m)
  BY <1>1 DEF Registering
<1>3. Complete'
  BY <1>1 DEF SInv, Complete
<1> QED
  BY <1>1, <1>2, <1>3 DEF SInv, OwnName, RegisteredIsListed

LEMMA SInvAlways == Spec => [](IInv /\ SInv)
<1>1. Init => SInv
  BY DEF Init, SInv, Complete, OwnName, RegisteredIsListed
<1>2. IInv /\ SInv /\ [Next]_vars => SInv'
  <2> SUFFICES ASSUME IInv, SInv, [Next]_vars PROVE SInv'
    OBVIOUS
  <2>1. ASSUME NEW p \in Procs,
               \/ DataProject(p) \/ DataProjectTorn(p)
               \/ \E n \in Names, t \in Tables : DataQuery(p, n, t)
               \/ Find(p) \/ Query(p)
        PROVE SInv'
    BY <2>1, CallSInv
  <2>2. CASE UNCHANGED vars
    BY <2>2 DEF vars, SInv, Complete, OwnName, RegisteredIsListed, Registering
  <2> QED
    BY <2>1, <2>2, TableSetupSInv, RegisterServiceSInv, LockSInv, AddInstanceSInv, ServeSInv
    DEF Next, Registers
<1>3. Init => IInv
  BY InitIInv
<1>4. IInv /\ [Next]_vars => IInv'
  BY NextIInv
<1> QED
  BY <1>1, <1>2, <1>3, <1>4, PTL DEF Spec

\* However registrations of a name overlap, and whichever services it had
\* before: once none of them runs, the list has every table that its service
\* had set up before the first of them began.
THEOREM RegisteredAlwaysListed == Spec => []RegisteredIsListed
<1>1. IInv /\ SInv => RegisteredIsListed
  BY DEF SInv
<1> QED
  BY <1>1, SInvAlways, PTL

LEMMA SeenStaysAlways == Spec => [](IInv /\ SeenStays)
<1>1. Init => SeenStays
  BY DEF Init, SeenStays
<1>2. IInv /\ SeenStays /\ [Next]_vars => SeenStays'
  <2> SUFFICES ASSUME IInv, SeenStays, [Next]_vars PROVE SeenStays'
    OBVIOUS
  <2>0. seen \in [Procs -> SUBSET (Names \X Tables)] /\ index \in [Names -> 0..Len(instances)]
        /\ instances \in Seq(Instance)
    BY DEF IInv, TypeOK, Instance
  <2>1. \A n \in Names : index[n] # 0 => index'[n] # 0
    <3>1. ASSUME NEW p \in Procs, AddInstance(p)
          PROVE  \A n \in Names : index[n] # 0 => index'[n] # 0
      <4>1. \/ index' = index
            \/ \E m \in Names : index' = [index EXCEPT ![m] = Len(instances) + 1]
        BY <3>1, NamesFact DEF AddInstance, IInv, TypeOK, JobOK, Registration
      <4>2. Len(instances) \in Nat
        BY <2>0
      <4> QED
        BY <2>0, <4>1, <4>2
    <3> QED
      BY <3>1 DEF Next, vars, TableSetup, RegisterService, Registers, Lock, Serve,
                  DataProject, DataProjectTorn, DataQuery, Find, Query
  <2>2. CASE seen' = seen
    BY <2>0, <2>1, <2>2 DEF SeenStays
  <2>3. ASSUME NEW p \in Procs, DataProject(p) \/ DataProjectTorn(p) PROVE SeenStays'
    <3>1. index' = index /\ \A r \in Procs : r # p => seen'[r] = seen[r]
      BY <2>0, <2>3 DEF DataProject, DataProjectTorn
    <3>2. ASSUME NEW q \in seen'[p] PROVE index[q[1]] # 0
      <4>1. q \in Listed
        BY <2>0, <2>3 DEF DataProject, DataProjectTorn
      <4>2. PICK i \in DOMAIN instances : q[1] = instances[i].name
        BY <4>1 DEF Listed
      <4>3. instances[i] \in Instance /\ i # 0
        BY <2>0
      <4> QED
        BY <4>2, <4>3 DEF IInv, Indexed, Instance
    <3> QED
      BY <3>1, <3>2 DEF SeenStays
  <2> QED
    BY <2>2, <2>3 DEF Next, vars, TableSetup, RegisterService, Registers, Lock,
                      AddInstance, Serve, DataQuery, Find, Query
<1>3. Init => IInv
  BY InitIInv
<1>4. IInv /\ [Next]_vars => IInv'
  BY NextIInv
<1> QED
  BY <1>1, <1>2, <1>3, <1>4, PTL DEF Spec

\* The list is handed out while a registration is changing it, before the
\* service is there to serve; a query still finds every instance that its
\* caller saw listed, since it waits for the mutex.
THEOREM SeenAlwaysFound == Spec => SeenIsFound
<1> DEFINE Found == \A p \in Procs : answer'.proc = p /\ answer'.status = "no instance"
                      => \A q \in seen[p] : q[1] # answer'.query[1]
<1>1. IInv /\ SeenStays /\ [Next]_vars => [Found]_vars
  <2> SUFFICES ASSUME IInv, SeenStays, Next, NEW p \in Procs,
                      answer'.proc = p, answer'.status = "no instance"
               PROVE  \A q \in seen[p] : q[1] # answer'.query[1]
    OBVIOUS
  <2>1. answer' # NoAnswer
    <3>1. ASSUME answer' = NoAnswer PROVE FALSE
      <4>1. answer'.status = "none"
        BY ONLY <3>1 DEF NoAnswer
      <4> QED
        BY <4>1
    <3> QED
      BY <3>1
  <2>2. PICK r \in Procs : Find(r)
    <3>1. ASSUME NEW o, NEW x, NEW status, Return(o, x, status)
          PROVE  status = "no instance"
      <4>1. answer' = [proc |-> o, query |-> x, status |-> status]
        BY <3>1 DEF Return
      <4>2. answer'.status = status
        BY ONLY <4>1
      <4> QED
        BY <4>2
    <3>2. ASSUME NEW o \in Procs, NEW s \in Services, RegisterService(o, s) PROVE FALSE
      <4>1. ~Return(o, <<NoName, NoName>>, "invalid")
        BY <3>1
      <4> QED
        BY <2>1, <3>2, <4>1 DEF RegisterService, Step
    <3>3. ASSUME NEW o \in Procs, Query(o) PROVE FALSE
      <4>1. \E x : Return(o, x, "served") \/ Return(o, x, "no table")
        BY <3>3 DEF Query
      <4> QED
        BY <3>1, <4>1
    <3> QED
      BY <2>1, <3>2, <3>3 DEF Next, TableSetup, Registers, Lock, AddInstance, Serve,
                              DataProject, DataProjectTorn, DataQuery, Step
  <2> DEFINE n == job[r].query[1]
  <2>3. pc[r] = "find" /\ mu = Nobody /\ job[r] \in Lookup
    <3>1. pc[r] = "find" /\ mu = Nobody
      BY <2>2 DEF Find
    <3>2. pc[r] = "find" => job[r] \in Lookup
      BY DEF IInv, TypeOK, JobOK
    <3> QED
      BY <3>1, <3>2
  <2>4. services[n] = NoService /\ Return(r, job[r].query, "no instance")
    BY <2>1, <2>2 DEF Find, Step
  <2>5. n \in Names /\ answer'.query = job[r].query
    BY <2>3, <2>4 DEF Lookup, Return
  <2>6. index[n] = 0
    BY <2>3, <2>4, <2>5, IInvServed DEF ListedIsServed
  <2> QED
    BY <2>5, <2>6 DEF SeenStays
<1> QED
  BY <1>1, SeenStaysAlways, PTL DEF Spec, SeenIsFound
=============================================================================
