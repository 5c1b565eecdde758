------------------------ MODULE ServiceRegistryProofs ------------------------
(***************************************************************************)
(* Who answers a name of the registry, for any number of goroutines, types *)
(* and methods: every method a service lists is bound to that service,     *)
(* whatever was registered before or after it, and stays bound.            *)
(***************************************************************************)
EXTENDS ServiceRegistry, TLAPS

\* Method m of service n is listed and about to be bound.
Binds(p, n, m) ==
  pc[p] = "bind" /\ NameOf[job[p].object] = n /\ Head(job[p].todo).name = m

Pending(n, m) == \E p \in Procs : Binds(p, n, m)

BoundOwn(n, m) ==
  /\ methods[<<n, m>>] # NoBinding
  /\ methods[<<n, m>>].service = n
  /\ methods[<<n, m>>].object = services[n].object

\* A method that is listed is bound or about to be ...
Bound ==
  \A n \in Registered : \A m \in services[n].listed : Pending(n, m) \/ BoundOwn(n, m)

Listed(n, m) == n \in Registered /\ m \in services[n].listed

\* ... and what is bound, under the name of its service or under the alias,
\* is listed by that service and not bound again.
Owned ==
  \A q \in Queries : methods[q] # NoBinding =>
    LET n == methods[q].service IN
      /\ q[1] \in {n, AliasOf[n]}
      /\ Listed(n, q[2])
      /\ ~ Pending(n, q[2])

\* A registration binds under the alias of its own service.
AliasJob(p) ==
  pc[p] \in {"register", "bind"} =>
    job[p].alias \in {NoName, AliasOf[NameOf[job[p].object]]}

\* A service whose object has a PreMethod has one.
ServiceGuarded ==
  \A n \in Registered : TypeOf[services[n].object] \in Guarded => services[n].pre # NoType

\* What was seen in a list stays listed.
SeenListed == \A p \in Procs : \A q \in seen[p] : Listed(q[1], q[2])

IInv ==
  /\ TypeOK
  /\ \A p \in Procs : AliasJob(p)
  /\ Bound
  /\ Owned
  /\ ServiceGuarded
  /\ GuardNotSkipped
  /\ SeenListed

Places == {"idle", "register", "bind", "list", "lookup", "pre", "call"}

-----------------------------------------------------------------------------
(* Facts that every step needs.                                            *)

LEMMA ConstantsFact ==
  /\ \A o \in Objects : NameOf[o] \in Names /\ TypeOf[o] \in Types
  /\ \A o \in Objects : Methods[TypeOf[o]] \in Seq(Method)
  /\ NoService \notin Services /\ NoBinding \notin Binding
  /\ NoName \notin Names /\ NoType \notin Types /\ Nobody \notin Procs
BY RegistryAssumption DEF Types

\* Only the process that has the mutex registers.
LEMMA OneRegisters ==
  ASSUME TypeOK, NEW p \in Procs, pc[p] \in {"register", "bind"}
  PROVE  /\ mu = p
         /\ job[p] \in Work
         /\ NameOf[job[p].object] \in Names
         /\ NameOf[job[p].object] \in Registered
         /\ job[p].alias \notin Registered
         /\ \A r \in Procs : r # p => pc[r] \notin {"register", "bind"}
BY ConstantsFact DEF TypeOK, JobOK, Work

LEMMA ServiceFact ==
  ASSUME TypeOK, NEW n \in Registered
  PROVE  n \in Names /\ services[n] \in Services
BY DEF TypeOK, Registered

LEMMA GotoFact ==
  ASSUME TypeOK, NEW p \in Procs, NEW place \in Places, NEW j, Goto(p, place, j)
  PROVE  /\ pc' \in [Procs -> Places]
         /\ pc'[p] = place /\ job'[p] = j
         /\ \A r \in Procs : r # p => pc'[r] = pc[r] /\ job'[r] = job[r]
BY DEF TypeOK, Goto, Places

-----------------------------------------------------------------------------
(* Steps that register nothing.                                            *)

LEMMA QuietIInv ==
  ASSUME IInv, NEW p \in Procs,
         NEW place \in {"idle", "list", "lookup", "pre", "call"},
         NEW j \in Jobs, Goto(p, place, j),
         UNCHANGED <<services, methods, mu>>,
         pc[p] \notin {"register", "bind"},
         seen' \in [Procs -> SUBSET Queries],
         \A r \in Procs : \A q \in seen'[r] : q \in seen[r] \/ Listed(q[1], q[2]),
         place = "idle" => j = NoJob,
         place = "list" => j \in Listing /\ j.names \subseteq Registered,
         place = "lookup" => j \in Asked,
         place \in {"pre", "call"} => j \in Hits
  PROVE  IInv'
<1>1. /\ pc' \in [Procs -> Places]
      /\ pc'[p] = place /\ job'[p] = j
      /\ \A r \in Procs : r # p => pc'[r] = pc[r] /\ job'[r] = job[r]
  BY GotoFact DEF IInv, Places
<1>2. TypeOK'
  <2>1. ASSUME NEW r \in Procs PROVE JobOK(r)'
    <3>1. CASE r = p
      BY <1>1, <3>1 DEF JobOK, Registered
    <3>2. CASE r # p
      BY <1>1, <3>2 DEF IInv, TypeOK, JobOK, Registered
    <3> QED
      BY <3>1, <3>2
  <2>2. job' \in [Procs -> Jobs]
    BY DEF IInv, TypeOK, Goto
  <2> QED
    BY <1>1, <2>1, <2>2 DEF IInv, TypeOK, Places
<1>3. \A n, m : Pending(n, m)' <=> Pending(n, m)
  BY <1>1 DEF Pending, Binds
<1>4. Bound' /\ Owned'
  BY <1>3 DEF IInv, Bound, Owned, BoundOwn, Listed, Registered
<1>5. \A r \in Procs : AliasJob(r)'
  BY <1>1 DEF IInv, AliasJob
<1>6. ServiceGuarded' /\ GuardNotSkipped'
  BY DEF IInv, ServiceGuarded, GuardNotSkipped, Registered
<1>7. SeenListed'
  BY DEF IInv, SeenListed, Listed, Registered
<1> QED
  BY <1>2, <1>4, <1>5, <1>6, <1>7 DEF IInv

LEMMA ListsIInv ==
  ASSUME IInv, NEW p \in Procs, Lists(p)
  PROVE  IInv'
<1> NoJob \in Jobs
  BY DEF Jobs
<1>1. CASE ApiList(p)
  <2>1. [names |-> Registered] \in Listing
    BY DEF Listing, Registered
  <2>2. [names |-> Registered] \in Jobs /\ [names |-> Registered].names \subseteq Registered
    BY <2>1 DEF Jobs
  <2>3. /\ pc[p] = "idle" /\ Goto(p, "list", [names |-> Registered])
        /\ UNCHANGED <<services, methods, mu, seen>>
    BY <1>1 DEF ApiList, Step
  <2> QED
    BY <2>1, <2>2, <2>3, QuietIInv DEF IInv, TypeOK
<1>2. CASE ApiListEncode(p)
  <2> DEFINE new == {q \in Queries : q[1] \in job[p].names /\ q[2] \in services[q[1]].listed}
  <2>1. /\ pc[p] = "list" /\ Goto(p, "idle", NoJob)
        /\ UNCHANGED <<services, methods, mu>>
        /\ seen' = [seen EXCEPT ![p] = new]
    BY <1>2 DEF ApiListEncode, Step
  <2>2. \A q \in new : Listed(q[1], q[2])
    BY <2>1 DEF IInv, TypeOK, JobOK, Listed
  <2>3. new \subseteq Queries
    OBVIOUS
  <2> HIDE DEF new
  <2>4. seen' \in [Procs -> SUBSET Queries]
    BY <2>1, <2>3 DEF IInv, TypeOK
  <2>5. \A r \in Procs : \A q \in seen'[r] : q \in seen[r] \/ Listed(q[1], q[2])
    BY <2>1, <2>2 DEF IInv, TypeOK
  <2> QED
    BY <2>1, <2>4, <2>5, QuietIInv
<1>3. CASE ApiListTorn(p)
  <2>1. /\ pc[p] = "list" /\ Goto(p, "idle", NoJob)
        /\ UNCHANGED <<services, methods, mu>>
        /\ seen' = [seen EXCEPT ![p] = {}]
    BY <1>3 DEF ApiListTorn, Step
  <2>2. seen' \in [Procs -> SUBSET Queries]
    BY <2>1 DEF IInv, TypeOK
  <2>3. \A r \in Procs : \A q \in seen'[r] : q \in seen[r] \/ Listed(q[1], q[2])
    BY <2>1 DEF IInv, TypeOK
  <2> QED
    BY <2>1, <2>2, <2>3, QuietIInv
<1> QED
  BY <1>1, <1>2, <1>3 DEF Lists

\* What a call has asked for, and what it has found.
LEMMA CallFact ==
  ASSUME TypeOK, NEW p \in Procs
  PROVE  /\ pc[p] = "lookup" => job[p].query \in Queries /\ job[p].depth \in 1..MaxDepth
         /\ pc[p] \in {"pre", "call"} =>
              job[p] \in Hits /\ job[p].query \in Queries /\ job[p].depth \in 1..MaxDepth
BY DEF TypeOK, JobOK, Asked, Hits

LEMMA AskedFact ==
  ASSUME NEW q \in Queries, NEW d \in 1..MaxDepth
  PROVE  [query |-> q, depth |-> d] \in Asked \cap Jobs
BY DEF Asked, Jobs

LEMMA ReturnIInv ==
  ASSUME IInv, NEW p \in Procs, NEW status, Return(p, status),
         pc[p] \notin {"register", "bind"},
         UNCHANGED <<services, methods, mu, seen>>
  PROVE  IInv'
<1>1. Goto(p, "idle", NoJob) /\ NoJob \in Jobs
  BY DEF Return, Jobs
<1> QED
  BY <1>1, QuietIInv DEF IInv, TypeOK

LEMMA ExecIInv ==
  ASSUME IInv, NEW p \in Procs, NEW q \in Queries, Exec(p, q)
  PROVE  IInv'
<1>1. 1 \in 1..MaxDepth
  BY RegistryAssumption
<1>2. /\ pc[p] = "idle" /\ Goto(p, "lookup", [query |-> q, depth |-> 1])
      /\ UNCHANGED <<services, methods, mu, seen>>
  BY DEF Exec, Step
<1>3. [query |-> q, depth |-> 1] \in Asked \cap Jobs
  BY <1>1, AskedFact
<1> QED
  BY <1>2, <1>3, QuietIInv DEF IInv, TypeOK

LEMMA LookupIInv ==
  ASSUME IInv, NEW p \in Procs, Lookup(p)
  PROVE  IInv'
<1> DEFINE q == job[p].query
<1>1. pc[p] = "lookup" /\ UNCHANGED <<services, methods, mu, seen>>
  BY DEF Lookup
<1>2. q \in Queries /\ job[p].depth \in 1..MaxDepth
  BY <1>1, CallFact DEF IInv
<1>3. CASE methods[q] = NoBinding
  BY <1>1, <1>3, ReturnIInv DEF Lookup
<1>4. CASE methods[q] # NoBinding
  <2> DEFINE found == [query |-> q, depth |-> job[p].depth, hit |-> methods[q]]
  <2>1. Goto(p, "pre", found)
    BY <1>4 DEF Lookup, Step
  <2>2. methods[q] \in Binding
    BY <1>2, <1>4 DEF IInv, TypeOK
  <2>3. found \in Hits /\ found \in Jobs
    BY <1>2, <2>2 DEF Hits, Jobs
  <2> HIDE DEF found
  <2> QED
    BY <1>1, <2>1, <2>3, QuietIInv DEF IInv, TypeOK
<1> QED
  BY <1>3, <1>4

LEMMA CallsIInv ==
  ASSUME IInv, NEW p \in Procs, Calls(p)
  PROVE  IInv'
<1>1. pc[p] \in {"pre", "call"} /\ UNCHANGED <<services, methods, mu, seen>>
  BY DEF Calls, Denied, Panics, PreMethod, CallMethod
<1>2. job[p] \in Hits /\ job[p].depth \in 1..MaxDepth
  BY <1>1, CallFact DEF IInv
<1>3. ASSUME NEW status, Return(p, status) PROVE IInv'
  BY <1>1, <1>3, ReturnIInv
<1>4. CASE PreMethod(p)
  <2>1. Goto(p, "call", job[p]) /\ job[p] \in Jobs
    BY <1>2, <1>4 DEF PreMethod, Step, Jobs
  <2> QED
    BY <1>1, <1>2, <2>1, QuietIInv DEF IInv, TypeOK
<1>5. ASSUME NEW q \in Queries, job[p].depth < MaxDepth,
             Step(p, "lookup", [query |-> q, depth |-> job[p].depth + 1])
      PROVE  IInv'
  <2>1. job[p].depth + 1 \in 1..MaxDepth
    BY <1>2, <1>5, RegistryAssumption
  <2> DEFINE again == [query |-> q, depth |-> job[p].depth + 1]
  <2>2. again \in Asked \cap Jobs /\ Goto(p, "lookup", again)
    BY <1>5, <2>1, AskedFact DEF Step
  <2> HIDE DEF again
  <2> QED
    BY <1>1, <2>2, QuietIInv DEF IInv, TypeOK
<1> QED
  BY <1>3, <1>4, <1>5 DEF Calls, Denied, Panics, CallMethod

LEMMA ApiMethodIInv ==
  ASSUME IInv, NEW p \in Procs, NEW q \in Queries, ApiMethod(p, q)
  PROVE  IInv'
BY DEF ApiMethod, IInv, TypeOK, JobOK, AliasJob, Bound, Owned, BoundOwn, Pending, Binds,
       Listed, ServiceGuarded, GuardNotSkipped, SeenListed, Registered

-----------------------------------------------------------------------------
(* Registration.                                                           *)

LEMMA RegisterServiceIInv ==
  ASSUME IInv, NEW p \in Procs, NEW o \in Objects, RegisterService(p, o)
  PROVE  IInv'
<1> DEFINE n == NameOf[o]
           entry == [Entry(o) EXCEPT !.pre = IF TypeOf[o] \in Guarded THEN TypeOf[o] ELSE @]
<1>1. /\ pc[p] = "idle" /\ mu = Nobody /\ mu' = p
      /\ services' = [services EXCEPT ![n] = entry]
      /\ Goto(p, "register", Job(o, AliasFor(n)))
      /\ UNCHANGED <<methods, seen>>
  BY DEF RegisterService, Step
<1>2. n \in Names
  BY ConstantsFact
\* The entry of n: new, or the one it has with another PreMethod.
<1>3. /\ entry \in Services
      /\ n \in Registered =>
           entry.object = services[n].object /\ entry.listed = services[n].listed
      /\ n \notin Registered => entry.object = o /\ entry.listed = {}
      /\ TypeOf[entry.object] \in Guarded => entry.pre # NoType
  <2>1. CASE services[n] = NoService
    <3>1. Entry(o) = [object |-> o, listed |-> {}, pre |-> NoType]
      BY <2>1 DEF Entry
    <3>2. entry = [object |-> o, listed |-> {},
                   pre |-> IF TypeOf[o] \in Guarded THEN TypeOf[o] ELSE NoType]
      BY <3>1
    <3>3. n \notin Registered
      BY <2>1 DEF Registered
    <3> QED
      BY <3>2, <3>3, ConstantsFact DEF Services
  <2>2. CASE services[n] # NoService
    <3>1. Entry(o) = services[n] /\ n \in Registered /\ services[n] \in Services
      BY <1>2, <2>2 DEF Entry, IInv, TypeOK, Registered
    <3>2. entry = [object |-> services[n].object, listed |-> services[n].listed,
                   pre |-> IF TypeOf[o] \in Guarded THEN TypeOf[o] ELSE services[n].pre]
      BY <3>1 DEF Services
    <3>3. TypeOf[services[n].object] \in Guarded => services[n].pre # NoType
      BY <3>1 DEF IInv, ServiceGuarded
    <3> QED
      BY <3>1, <3>2, <3>3, ConstantsFact DEF Services
  <2> QED
    BY <2>1, <2>2
<1> HIDE DEF entry
<1>4. /\ services' \in [Names -> Services \cup {NoService}]
      /\ services'[n] = entry
      /\ \A k \in Names : k # n => services'[k] = services[k]
      /\ Registered' = Registered \cup {n}
  BY <1>1, <1>2, <1>3, ConstantsFact DEF IInv, TypeOK, Registered
<1>5. \A k, m : Listed(k, m)' <=> Listed(k, m)
  BY <1>2, <1>3, <1>4 DEF Listed, Registered
<1>6. /\ pc' \in [Procs -> Places]
      /\ pc'[p] = "register" /\ job'[p] = Job(o, AliasFor(n))
      /\ \A r \in Procs : r # p => pc'[r] = pc[r] /\ job'[r] = job[r]
  BY <1>1, GotoFact DEF IInv, Places
<1>7. \A r \in Procs : pc[r] \notin {"register", "bind"}
  BY <1>1, OneRegisters, ConstantsFact DEF IInv
<1>8. /\ Job(o, AliasFor(n)) \in Work
      /\ Job(o, AliasFor(n)).object = o
      /\ Job(o, AliasFor(n)).alias = AliasFor(n)
  <2>1. AliasFor(n) \in Names \cup {NoName}
    BY <1>2, RegistryAssumption DEF AliasFor
  <2> QED
    BY <2>1, ConstantsFact DEF Job, Work
<1>9. /\ AliasFor(n) \in {NoName, AliasOf[n]}
      /\ AliasFor(n) \notin Registered'
  BY <1>2, <1>4, RegistryAssumption DEF AliasFor, Registered
<1>10. TypeOK'
  <2>1. ASSUME NEW r \in Procs PROVE JobOK(r)'
    <3>1. CASE r = p
      BY <1>1, <1>4, <1>6, <1>8, <1>9, <3>1 DEF JobOK
    <3>2. CASE r # p
      BY <1>4, <1>6, <1>7, <3>2 DEF IInv, TypeOK, JobOK
    <3> QED
      BY <3>1, <3>2
  <2>2. job' \in [Procs -> Jobs]
    BY <1>1, <1>8 DEF IInv, TypeOK, Goto, Jobs
  <2> QED
    BY <1>1, <1>4, <1>6, <2>1, <2>2 DEF IInv, TypeOK, Places
<1>11. \A k, m : ~ Pending(k, m) /\ ~ Pending(k, m)'
  BY <1>6, <1>7 DEF Pending, Binds
<1>12. \A r \in Procs : AliasJob(r)'
  BY <1>6, <1>7, <1>8, <1>9 DEF AliasJob
<1>13. Bound'
  <2>1. ASSUME NEW k \in Registered', NEW m \in services'[k].listed
        PROVE  BoundOwn(k, m)'
    <3>1. k \in Registered /\ m \in services[k].listed /\ services'[k].object = services[k].object
      <4>1. k \in Registered \cup {n} /\ \A x \in Registered : x \in Names
        BY <1>4, <2>1, ServiceFact DEF IInv
      <4>2. CASE k = n
        BY <1>3, <1>4, <2>1, <4>1, <4>2
      <4>3. CASE k # n
        BY <1>4, <2>1, <4>1, <4>3
      <4> QED
        BY <4>2, <4>3
    <3>2. BoundOwn(k, m)
      BY <1>11, <3>1 DEF IInv, Bound
    <3> QED
      BY <1>1, <3>1, <3>2 DEF BoundOwn
  <2> QED
    BY <2>1 DEF Bound
<1>14. Owned'
  BY <1>1, <1>5, <1>11 DEF IInv, Owned
<1>15. ServiceGuarded' /\ GuardNotSkipped'
  BY <1>1, <1>3, <1>4 DEF IInv, ServiceGuarded, GuardNotSkipped, Registered
<1>16. SeenListed'
  BY <1>1, <1>5 DEF IInv, SeenListed
<1> QED
  BY <1>10, <1>12, <1>13, <1>14, <1>15, <1>16 DEF IInv

\* A step of the registration of the process that has the mutex: it goes on
\* with the same object and alias.
LEMMA WorkStep ==
  ASSUME IInv, NEW p \in Procs, pc[p] \in {"register", "bind"},
         NEW place \in {"register", "bind"}, NEW j \in Work, Goto(p, place, j),
         j.object = job[p].object, j.alias = job[p].alias,
         UNCHANGED <<mu, seen>>,
         services' \in [Names -> Services \cup {NoService}],
         methods' \in [Queries -> Binding \cup {NoBinding}],
         Registered' = Registered,
         place = "bind" =>
           j.todo # <<>> /\ Head(j.todo).name \in services'[NameOf[j.object]].listed
  PROVE  /\ TypeOK' /\ \A r \in Procs : AliasJob(r)'
         /\ pc'[p] = place /\ job'[p] = j
         /\ \A n, m : Pending(n, m)' <=> Binds(p, n, m)'
<1>1. /\ mu = p /\ NameOf[job[p].object] \in Registered /\ job[p].alias \notin Registered
      /\ \A r \in Procs : r # p => pc[r] \notin {"register", "bind"}
  BY OneRegisters DEF IInv
<1>2. /\ pc' \in [Procs -> Places]
      /\ pc'[p] = place /\ job'[p] = j
      /\ \A r \in Procs : r # p => pc'[r] = pc[r] /\ job'[r] = job[r]
  BY GotoFact DEF IInv, Places
<1>3. ASSUME NEW r \in Procs PROVE JobOK(r)'
  <2>1. CASE r = p
    BY <1>1, <1>2, <2>1 DEF JobOK
  <2>2. CASE r # p
    <3>1. JobOK(r)
      BY DEF IInv, TypeOK
    <3> QED
      BY <1>1, <1>2, <2>2, <3>1 DEF JobOK
  <2> QED
    BY <2>1, <2>2
<1>4. job' \in [Procs -> Jobs]
  BY DEF IInv, TypeOK, Goto, Jobs
<1>5. TypeOK'
  BY <1>2, <1>3, <1>4 DEF IInv, TypeOK, Places
<1>6. \A r \in Procs : AliasJob(r)'
  BY <1>1, <1>2 DEF IInv, AliasJob
<1>7. \A n, m : Pending(n, m)' <=> Binds(p, n, m)'
  BY <1>1, <1>2 DEF Pending, Binds
<1> QED
  BY <1>2, <1>5, <1>6, <1>7

\* What is left to do when the first method is done with.
LEMMA TailJob ==
  ASSUME NEW w \in Work, w.todo # <<>>
  PROVE  /\ [w EXCEPT !.todo = Tail(@)] \in Work
         /\ [w EXCEPT !.todo = Tail(@)].object = w.object
         /\ [w EXCEPT !.todo = Tail(@)].alias = w.alias
         /\ Head(w.todo).name \in MethodNames
<1>1. /\ w.todo \in Seq(Method) /\ w.object \in Objects /\ w.alias \in Names \cup {NoName}
  BY DEF Work
<1>2. Tail(w.todo) \in Seq(Method) /\ Head(w.todo) \in Method
  BY <1>1
<1>3. [w EXCEPT !.todo = Tail(@)] =
        [object |-> w.object, alias |-> w.alias, todo |-> Tail(w.todo)]
  <2> DEFINE A == Names \cup {NoName}
             T == Seq(Method)
             rest == Tail(w.todo)
  <2>1. w \in [object : Objects, alias : A, todo : T]
    BY DEF Work
  <2> HIDE DEF A, T, rest
  <2>2. [w EXCEPT !.todo = rest] = [object |-> w.object, alias |-> w.alias, todo |-> rest]
    BY <2>1
  <2> QED
    BY <2>2 DEF rest
<1> QED
  BY <1>1, <1>2, <1>3 DEF Work, Method

\* Nothing is about to be bound but by the process that has the mutex.
LEMMA PendingFact ==
  ASSUME TypeOK, NEW p \in Procs, pc[p] \in {"register", "bind"}, NEW n, NEW m
  PROVE  Pending(n, m) <=> Binds(p, n, m)
BY OneRegisters DEF Pending, Binds

LEMMA SkipMethodIInv ==
  ASSUME IInv, NEW p \in Procs, SkipMethod(p)
  PROVE  IInv'
<1> DEFINE j == [job[p] EXCEPT !.todo = Tail(@)]
<1>1. /\ pc[p] = "register" /\ job[p].todo # <<>>
      /\ Goto(p, "register", j)
      /\ UNCHANGED <<services, methods, mu, seen>>
  BY DEF SkipMethod, Step
<1>2. job[p] \in Work
  BY <1>1, OneRegisters DEF IInv
<1>3. j \in Work /\ j.object = job[p].object /\ j.alias = job[p].alias
  BY <1>1, <1>2, TailJob
<1> HIDE DEF j
<1>4. Registered' = Registered
  BY <1>1 DEF Registered
<1>5. /\ TypeOK' /\ \A r \in Procs : AliasJob(r)'
      /\ pc'[p] = "register"
      /\ \A n, m : Pending(n, m)' <=> Binds(p, n, m)'
  BY <1>1, <1>3, <1>4, WorkStep DEF IInv, TypeOK
<1>6. \A n, m : ~ Pending(n, m)
  BY <1>1, PendingFact DEF IInv, Binds
<1>7. \A n, m : ~ Pending(n, m)'
  BY <1>5 DEF Binds
<1>8. Bound' /\ Owned'
  BY <1>1, <1>4, <1>6, <1>7 DEF IInv, Bound, Owned, BoundOwn, Listed
<1>9. ServiceGuarded' /\ GuardNotSkipped' /\ SeenListed'
  BY <1>1, <1>4 DEF IInv, ServiceGuarded, GuardNotSkipped, SeenListed, Listed
<1> QED
  BY <1>5, <1>8, <1>9 DEF IInv

LEMMA ListMethodIInv ==
  ASSUME IInv, NEW p \in Procs, ListMethod(p)
  PROVE  IInv'
<1> DEFINE m == Head(job[p].todo).name
           n == NameOf[job[p].object]
<1>1. /\ pc[p] = "register" /\ job[p].todo # <<>>
      /\ m \notin services[n].listed
      /\ services' = [services EXCEPT ![n].listed = @ \cup {m}]
      /\ Goto(p, "bind", job[p])
      /\ UNCHANGED <<methods, mu, seen>>
  BY DEF ListMethod, Step
<1>2. job[p] \in Work /\ n \in Registered /\ n \in Names /\ services[n] \in Services
  BY <1>1, OneRegisters, ServiceFact DEF IInv
<1>3. m \in MethodNames
  BY <1>1, <1>2, TailJob
<1>4. /\ services' \in [Names -> Services \cup {NoService}]
      /\ services'[n].listed = services[n].listed \cup {m}
      /\ services'[n].object = services[n].object /\ services'[n].pre = services[n].pre
      /\ services'[n] \in Services
      /\ \A k \in Names : k # n => services'[k] = services[k]
  <2> HIDE DEF n, m
  <2> DEFINE entry == [object |-> services[n].object, listed |-> services[n].listed \cup {m},
                       pre |-> services[n].pre]
  <2>1. entry \in Services
    BY <1>2, <1>3 DEF Services
  <2>2. [services[n] EXCEPT !.listed = @ \cup {m}] = entry
    BY <1>2 DEF Services
  <2>3. services' = [services EXCEPT ![n] = entry]
    BY <1>1, <2>2
  <2>4. services \in [Names -> Services \cup {NoService}]
    BY DEF IInv, TypeOK
  <2> HIDE DEF entry
  <2>5. /\ services' \in [Names -> Services \cup {NoService}]
        /\ services'[n] = entry
        /\ \A k \in Names : k # n => services'[k] = services[k]
    BY <1>2, <2>1, <2>3, <2>4
  <2> QED
    BY <2>1, <2>5 DEF entry
<1>5. Registered' = Registered
  BY <1>2, <1>4, ConstantsFact DEF Registered
<1> HIDE DEF m, n
<1>6. /\ TypeOK' /\ \A r \in Procs : AliasJob(r)'
      /\ pc'[p] = "bind" /\ job'[p] = job[p]
      /\ \A k, x : Pending(k, x)' <=> Binds(p, k, x)'
  BY <1>1, <1>2, <1>4, <1>5, WorkStep DEF IInv, TypeOK, m, n
<1>7. \A k, x : ~ Pending(k, x)
  BY <1>1, PendingFact DEF IInv, Binds
<1>8. \A k, x : Pending(k, x)' <=> k = n /\ x = m
  BY <1>6 DEF Binds, m, n
<1>9. \A k, x : Listed(k, x)' <=> Listed(k, x) \/ (k = n /\ x = m)
  BY <1>2, <1>4, <1>5, ServiceFact DEF IInv, Listed
<1>10. \A k \in Registered : services'[k].object = services[k].object
                           /\ services'[k].pre = services[k].pre
  BY <1>4, ServiceFact DEF IInv
<1>11. Bound'
  <2>1. ASSUME NEW k \in Registered', NEW x \in services'[k].listed,
               ~ (k = n /\ x = m)
        PROVE  BoundOwn(k, x)'
    <3>1. Listed(k, x)
      BY <1>9, <2>1 DEF Listed
    <3>2. BoundOwn(k, x)
      BY <1>7, <3>1 DEF IInv, Bound, Listed
    <3> QED
      BY <1>1, <1>10, <3>1, <3>2 DEF BoundOwn, Listed
  <2> QED
    BY <1>8, <2>1 DEF Bound
<1>12. Owned'
  <2>1. ~ Listed(n, m)
    BY <1>1 DEF Listed, n, m
  <2> QED
    BY <1>1, <1>8, <1>9, <2>1 DEF IInv, Owned
<1>13. ServiceGuarded' /\ GuardNotSkipped'
  BY <1>1, <1>5, <1>10 DEF IInv, ServiceGuarded, GuardNotSkipped
<1>14. SeenListed'
  BY <1>1, <1>9 DEF IInv, SeenListed
<1> QED
  BY <1>6, <1>11, <1>12, <1>13, <1>14 DEF IInv

\* What a binding step changes: the method becomes reachable under the name of
\* its service, where it was not bound to that service before, and under the
\* alias, where nothing was bound.
LEMMA BindFact ==
  ASSUME IInv, NEW p \in Procs, BindMethod(p)
  PROVE  LET m == Head(job[p].todo).name
             n == NameOf[job[p].object]
             binding == [service |-> n, object |-> services[n].object,
                         type |-> TypeOf[job[p].object], pre |-> services[n].pre]
         IN /\ job[p] \in Work /\ job[p].todo # <<>>
            /\ n \in Registered /\ Listed(n, m) /\ Pending(n, m)
            /\ binding \in Binding
            /\ methods' \in [Queries -> Binding \cup {NoBinding}]
            /\ \A q \in Queries :
                 \/ methods'[q] = methods[q] /\ q # <<n, m>>
                 \/ /\ q = <<n, m>> /\ methods'[q] = binding
                    /\ methods[q] # NoBinding => methods[q].service # n
                 \/ /\ q[1] = AliasOf[n] /\ q[1] \notin Registered /\ q[2] = m
                    /\ methods[q] = NoBinding /\ methods'[q] = binding
<1> DEFINE m == Head(job[p].todo).name
           n == NameOf[job[p].object]
           binding == [service |-> n, object |-> services[n].object,
                       type |-> TypeOf[job[p].object], pre |-> services[n].pre]
<1>1. /\ pc[p] = "bind"
      /\ methods' = [q \in Queries |->
           IF q \in {<<n, m>>, <<job[p].alias, m>>} THEN binding ELSE methods[q]]
  BY DEF BindMethod
<1>2. /\ job[p] \in Work /\ job[p].todo # <<>>
      /\ n \in Registered /\ n \in Names /\ services[n] \in Services
      /\ job[p].alias \notin Registered
      /\ job[p].alias \in {NoName, AliasOf[n]}
      /\ m \in services[n].listed
  BY <1>1, OneRegisters, ServiceFact DEF IInv, TypeOK, JobOK, AliasJob
<1>3. Listed(n, m) /\ Pending(n, m)
  BY <1>1, <1>2 DEF Listed, Pending, Binds
<1>4. binding \in Binding
  BY <1>2, ConstantsFact DEF Binding, Services, Work
<1> HIDE DEF m, n, binding
<1>5. methods' \in [Queries -> Binding \cup {NoBinding}]
  BY <1>1, <1>4 DEF IInv, TypeOK
<1>6. ASSUME NEW q \in Queries
      PROVE  \/ methods'[q] = methods[q] /\ q # <<n, m>>
             \/ /\ q = <<n, m>> /\ methods'[q] = binding
                /\ methods[q] # NoBinding => methods[q].service # n
             \/ /\ q[1] = AliasOf[n] /\ q[1] \notin Registered /\ q[2] = m
                /\ methods[q] = NoBinding /\ methods'[q] = binding
  <2>1. CASE q = <<n, m>>
    <3>1. methods'[q] = binding
      BY <1>1, <2>1
    <3>2. methods[q] # NoBinding => methods[q].service # n
      BY <1>3, <2>1 DEF IInv, Owned
    <3> QED
      BY <2>1, <3>1, <3>2
  <2>2. CASE q # <<n, m>> /\ q = <<job[p].alias, m>>
    <3>1. methods'[q] = binding
      BY <1>1, <2>2
    <3>2. q[1] \in Names /\ q[1] = AliasOf[n] /\ q[1] \notin Registered /\ q[2] = m
      BY <1>2, <2>2, ConstantsFact DEF Queries
    <3>3. ASSUME methods[q] # NoBinding PROVE FALSE
      <4> DEFINE k == methods[q].service
      <4>1. k \in Names /\ q[1] \in {k, AliasOf[k]} /\ Listed(k, m) /\ ~ Pending(k, m)
        BY <3>2, <3>3 DEF IInv, TypeOK, Binding, Owned
      <4>2. AliasOf[k] = AliasOf[n]
        BY <3>2, <4>1 DEF Listed
      <4>3. k = n
        BY <1>2, <3>2, <4>1, <4>2, RegistryAssumption
      <4> QED
        BY <1>3, <4>1, <4>3
    <3> QED
      BY <3>1, <3>2, <3>3
  <2>3. CASE q \notin {<<n, m>>, <<job[p].alias, m>>}
    BY <1>1, <2>3
  <2> QED
    BY <2>1, <2>2, <2>3
<1> QED
  BY <1>2, <1>3, <1>4, <1>5, <1>6 DEF m, n, binding

LEMMA BindMethodIInv ==
  ASSUME IInv, NEW p \in Procs, BindMethod(p)
  PROVE  IInv'
<1> DEFINE m == Head(job[p].todo).name
           n == NameOf[job[p].object]
           binding == [service |-> n, object |-> services[n].object,
                       type |-> TypeOf[job[p].object], pre |-> services[n].pre]
           j == [job[p] EXCEPT !.todo = Tail(@)]
<1>1. /\ pc[p] = "bind" /\ Goto(p, "register", j)
      /\ UNCHANGED <<services, mu, seen>>
  BY DEF BindMethod, Step
<1>2. /\ job[p] \in Work /\ job[p].todo # <<>>
      /\ n \in Registered /\ Listed(n, m) /\ Pending(n, m)
      /\ binding \in Binding
      /\ methods' \in [Queries -> Binding \cup {NoBinding}]
      /\ \A q \in Queries :
           \/ methods'[q] = methods[q] /\ q # <<n, m>>
           \/ /\ q = <<n, m>> /\ methods'[q] = binding
              /\ methods[q] # NoBinding => methods[q].service # n
           \/ /\ q[1] = AliasOf[n] /\ q[1] \notin Registered /\ q[2] = m
              /\ methods[q] = NoBinding /\ methods'[q] = binding
  BY BindFact
<1>3. j \in Work /\ j.object = job[p].object /\ j.alias = job[p].alias /\ m \in MethodNames
  BY <1>2, TailJob
<1>4. binding.service = n /\ binding.object = services[n].object /\ binding.pre = services[n].pre
  OBVIOUS
<1>5. n \in Names /\ <<n, m>> \in Queries
  BY <1>2, <1>3, ServiceFact DEF IInv, Queries
<1>6. Registered' = Registered
  BY <1>1 DEF Registered
<1>7. \A k, x : Pending(k, x) <=> k = n /\ x = m
  BY <1>1, PendingFact DEF IInv, Binds
<1>8. binding # NoBinding
  BY <1>2, RegistryAssumption
<1> HIDE DEF m, n, binding, j
<1>9. /\ TypeOK' /\ \A r \in Procs : AliasJob(r)'
      /\ pc'[p] = "register"
      /\ \A k, x : Pending(k, x)' <=> Binds(p, k, x)'
  BY <1>1, <1>2, <1>3, <1>6, WorkStep DEF IInv, TypeOK
<1>10. \A k, x : ~ Pending(k, x)'
  BY <1>9 DEF Binds
<1>11. \A k, x : Listed(k, x)' <=> Listed(k, x)
  BY <1>1, <1>6 DEF Listed
<1>12. Bound'
  <2>1. ASSUME NEW k \in Registered, NEW x \in services[k].listed PROVE BoundOwn(k, x)'
    <3>1. k \in Names /\ x \in MethodNames /\ <<k, x>> \in Queries
      BY <2>1, ServiceFact DEF IInv, Services, Queries
    <3>2. CASE k = n /\ x = m
      BY <1>1, <1>2, <1>4, <1>5, <1>8, <3>2 DEF BoundOwn
    <3>3. CASE ~ (k = n /\ x = m)
      <4>1. BoundOwn(k, x)
        BY <1>7, <2>1, <3>3 DEF IInv, Bound
      <4>2. methods'[<<k, x>>] = methods[<<k, x>>]
        BY <1>2, <2>1, <3>1, <3>3
      <4> QED
        BY <1>1, <4>1, <4>2 DEF BoundOwn
    <3> QED
      BY <3>2, <3>3
  <2> QED
    BY <1>1, <1>6, <2>1 DEF Bound
<1>13. Owned'
  <2>1. ASSUME NEW q \in Queries, methods'[q] # NoBinding
        PROVE  /\ q[1] \in {methods'[q].service, AliasOf[methods'[q].service]}
               /\ Listed(methods'[q].service, q[2])
    <3>1. CASE methods'[q] = methods[q]
      BY <2>1, <3>1 DEF IInv, Owned
    <3>2. CASE methods'[q] = binding /\ q[1] \in {n, AliasOf[n]} /\ q[2] = m
      BY <1>2, <1>4, <3>2
    <3> QED
      BY <1>2, <3>1, <3>2
  <2> QED
    BY <1>10, <1>11, <2>1 DEF Owned
<1>14. GuardNotSkipped'
  <2>1. TypeOf[binding.object] \in Guarded => binding.pre # NoType
    BY <1>2, <1>4 DEF IInv, ServiceGuarded
  <2> QED
    BY <1>2, <2>1 DEF IInv, GuardNotSkipped
<1>15. ServiceGuarded' /\ SeenListed'
  BY <1>1, <1>6, <1>11 DEF IInv, ServiceGuarded, SeenListed
<1> QED
  BY <1>9, <1>12, <1>13, <1>14, <1>15 DEF IInv

LEMMA RegisterEndIInv ==
  ASSUME IInv, NEW p \in Procs, RegisterEnd(p)
  PROVE  IInv'
<1>1. /\ pc[p] = "register" /\ mu' = Nobody /\ Goto(p, "idle", NoJob)
      /\ UNCHANGED <<services, methods, seen>>
  BY DEF RegisterEnd, Step
<1>2. /\ pc' \in [Procs -> Places]
      /\ pc'[p] = "idle" /\ job'[p] = NoJob
      /\ \A r \in Procs : r # p => pc'[r] = pc[r] /\ job'[r] = job[r]
  BY <1>1, GotoFact DEF IInv, Places
<1>3. \A r \in Procs : r # p => pc[r] \notin {"register", "bind"}
  BY <1>1, OneRegisters DEF IInv
<1>4. Registered' = Registered
  BY <1>1 DEF Registered
<1>5. TypeOK'
  <2>1. ASSUME NEW r \in Procs PROVE JobOK(r)'
    <3>1. CASE r = p
      BY <1>2, <3>1 DEF JobOK
    <3>2. CASE r # p
      BY <1>2, <1>3, <1>4, <3>2 DEF IInv, TypeOK, JobOK
    <3> QED
      BY <3>1, <3>2
  <2>2. job' \in [Procs -> Jobs]
    BY <1>1 DEF IInv, TypeOK, Goto, Jobs
  <2> QED
    BY <1>1, <1>2, <2>1, <2>2 DEF IInv, TypeOK, Places
<1>6. \A n, m : ~ Pending(n, m) /\ ~ Pending(n, m)'
  BY <1>1, <1>2, <1>3 DEF Pending, Binds
<1>7. \A r \in Procs : AliasJob(r)'
  BY <1>2, <1>3 DEF AliasJob
<1>8. Bound' /\ Owned'
  BY <1>1, <1>4, <1>6 DEF IInv, Bound, Owned, BoundOwn, Listed
<1>9. ServiceGuarded' /\ GuardNotSkipped' /\ SeenListed'
  BY <1>1, <1>4 DEF IInv, ServiceGuarded, GuardNotSkipped, SeenListed, Listed
<1> QED
  BY <1>5, <1>7, <1>8, <1>9 DEF IInv

LEMMA StutterIInv == IInv /\ UNCHANGED vars => IInv'
BY DEF vars, IInv, TypeOK, JobOK, AliasJob, Bound, Owned, BoundOwn, Pending, Binds,
       Listed, ServiceGuarded, GuardNotSkipped, SeenListed, Registered

LEMMA InitIInv == Init => IInv
<1> SUFFICES ASSUME Init PROVE IInv
  OBVIOUS
<1>1. Registered = {}
  BY DEF Init, Registered
<1>2. TypeOK
  BY DEF Init, TypeOK, JobOK, Jobs
<1>3. \A p \in Procs : AliasJob(p)
  BY DEF Init, AliasJob
<1> QED
  BY <1>1, <1>2, <1>3 DEF Init, IInv, Bound, Owned, ServiceGuarded, GuardNotSkipped, SeenListed

LEMMA NextIInv == IInv /\ [Next]_vars => IInv'
<1> SUFFICES ASSUME IInv, [Next]_vars PROVE IInv'
  OBVIOUS
<1>1. ASSUME NEW p \in Procs, Registers(p) PROVE IInv'
  BY <1>1, SkipMethodIInv, ListMethodIInv, BindMethodIInv, RegisterEndIInv DEF Registers
<1>2. ASSUME NEW p \in Listers, Lists(p) PROVE IInv'
  BY <1>2, ListsIInv, RegistryAssumption
<1> QED
  BY <1>1, <1>2, RegisterServiceIInv, ExecIInv, ApiMethodIInv, LookupIInv, CallsIInv,
     StutterIInv DEF Next

LEMMA AlwaysIInv == Spec => []IInv
BY InitIInv, NextIInv, PTL DEF Spec

-----------------------------------------------------------------------------
(* The theorems.                                                           *)

\* Every registration that is under way holds the mutex, works on a service
\* that is registered and has an alias that no service is registered under.
THEOREM TypeCorrect == Spec => []TypeOK
<1>1. IInv => TypeOK
  BY DEF IInv
<1> QED
  BY <1>1, AlwaysIInv, PTL

\* When no registration is under way, every method that a service lists is
\* bound under its name to that service and to its object, in whatever order
\* the services and their aliases were registered.
THEOREM NameWins == Spec => []NameBeatsAlias
<1>1. IInv => NameBeatsAlias
  <2> SUFFICES ASSUME IInv, mu = Nobody, NEW n \in Registered, NEW m \in services[n].listed
               PROVE  BoundOwn(n, m)
    BY DEF NameBeatsAlias, BoundOwn
  <2>1. \A p \in Procs : pc[p] # "bind"
    BY OneRegisters, ConstantsFact DEF IInv
  <2> QED
    BY <2>1 DEF IInv, Bound, Pending, Binds
<1> QED
  BY <1>1, AlwaysIInv, PTL

\* No method of an object whose type has a PreMethod is reachable without one.
THEOREM NoGuardSkipped == Spec => []GuardNotSkipped
<1>1. IInv => GuardNotSkipped
  BY DEF IInv
<1> QED
  BY <1>1, AlwaysIInv, PTL

\* A name that reaches a method goes on reaching it; only the service of that
\* very name takes the name from an alias.
THEOREM BindingsStay == Spec => BindingStable
<1> DEFINE Stays == \A q \in Queries :
              methods[q] # NoBinding /\ methods'[q] # methods[q]
                => methods[q].service # q[1] /\ methods'[q].service = q[1]
<1>1. IInv /\ [Next]_vars => [Stays]_vars
  <2> SUFFICES ASSUME IInv, Next PROVE Stays
    OBVIOUS
  <2>1. ASSUME NEW p \in Procs, BindMethod(p) PROVE Stays
    <3> DEFINE m == Head(job[p].todo).name
               n == NameOf[job[p].object]
               binding == [service |-> n, object |-> services[n].object,
                           type |-> TypeOf[job[p].object], pre |-> services[n].pre]
    <3>1. \A q \in Queries :
            \/ methods'[q] = methods[q]
            \/ /\ q = <<n, m>> /\ methods'[q] = binding
               /\ methods[q] # NoBinding => methods[q].service # n
            \/ methods[q] = NoBinding
      BY <2>1, BindFact
    <3>2. binding.service = n
      OBVIOUS
    <3> HIDE DEF binding, n, m
    <3> QED
      BY <3>1, <3>2
  <2>2. ASSUME UNCHANGED methods PROVE Stays
    BY <2>2
  <2> QED
    BY <2>1, <2>2 DEF Next, Registers, Lists, Calls, RegisterService, SkipMethod, ListMethod,
       RegisterEnd, ApiList, ApiListEncode, ApiListTorn, Exec, Lookup, Denied, Panics,
       PreMethod, CallMethod, ApiMethod
<1> QED
  BY <1>1, AlwaysIInv, PTL DEF Spec, BindingStable

\* What a process saw in a list, one that was read in the middle of another's
\* registration included, is found when that process calls or asks for it.
THEOREM ListedIsFound == Spec => ListedIsCallable
<1> DEFINE Found == \A p \in Procs :
              answer'.proc = p /\ answer'.status \in {"notfound", "undescribed"}
                => answer'.query \notin seen[p]
<1>1. IInv /\ [Next]_vars => [Found]_vars
  <2> SUFFICES ASSUME IInv, Next PROVE Found
    OBVIOUS
  <2>1. ASSUME mu = Nobody, NEW p \in Procs, NEW q \in seen[p]
        PROVE  Listed(q[1], q[2]) /\ methods[q] # NoBinding
    <3>1. Listed(q[1], q[2]) /\ q = <<q[1], q[2]>>
      BY <2>1 DEF IInv, TypeOK, SeenListed, Queries
    <3>2. ~ Pending(q[1], q[2])
      BY <2>1, OneRegisters, ConstantsFact DEF IInv, Pending, Binds
    <3> QED
      BY <3>1, <3>2 DEF IInv, Bound, BoundOwn, Listed
  <2>2. ASSUME NEW p \in Procs, Lookup(p) PROVE Found
    <3>1. CASE methods[job[p].query] = NoBinding
      <4>1. /\ mu = Nobody
            /\ answer' = [proc |-> p, query |-> job[p].query, status |-> "notfound"]
        BY <2>2, <3>1 DEF Lookup, Return
      <4> QED
        BY <2>1, <3>1, <4>1
    <3>2. CASE methods[job[p].query] # NoBinding
      BY <2>2, <3>2 DEF Lookup, Step, NoAnswer
    <3> QED
      BY <3>1, <3>2
  <2>3. ASSUME NEW p \in Procs, NEW q \in Queries, ApiMethod(p, q) PROVE Found
    <3>1. /\ mu = Nobody
          /\ answer' = [proc |-> p, query |-> q,
                        status |-> IF Listed(q[1], q[2]) THEN "described" ELSE "undescribed"]
      BY <2>3 DEF ApiMethod, Listed
    <3> QED
      BY <2>1, <3>1
  <2>4. ASSUME NEW p \in Procs, NEW status \in {"denied", "panic", "served"}, Return(p, status)
        PROVE  Found
    BY <2>4 DEF Return
  <2>5. ASSUME answer' = NoAnswer PROVE Found
    BY <2>5 DEF NoAnswer
  <2>6. ASSUME NEW p \in Procs, Calls(p) PROVE Found
    BY <2>4, <2>5, <2>6 DEF Calls, Denied, Panics, PreMethod, CallMethod, Step
  <2>7. ASSUME NEW p \in Procs, Registers(p) \/ Lists(p) PROVE Found
    BY <2>5, <2>7 DEF Registers, Lists, SkipMethod, ListMethod, BindMethod, RegisterEnd,
       ApiList, ApiListEncode, ApiListTorn, Step
  <2>8. ASSUME NEW p \in Procs, \/ \E o \in Objects : RegisterService(p, o)
                                \/ \E q \in Queries : Exec(p, q)
        PROVE  Found
    BY <2>5, <2>8 DEF RegisterService, Exec, Step
  <2> QED
    BY <2>2, <2>3, <2>6, <2>7, <2>8, RegistryAssumption DEF Next
<1> QED
  BY <1>1, AlwaysIInv, PTL DEF Spec, ListedIsCallable
=============================================================================
