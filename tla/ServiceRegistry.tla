--------------------------- MODULE ServiceRegistry ---------------------------
(***************************************************************************)
(* The registry of go/lynkapi/service.go: RegisterService turns the        *)
(* methods of a Go object into remote methods under the short name of its  *)
(* type, and under that name without its suffix "Service" as an alias;     *)
(* Exec and the HTTP handler find a method by name and call it by          *)
(* reflection; ApiList hands out the live list of services, unlocked.      *)
(*                                                                         *)
(* Processes are goroutines.  A registration holds the mutex from its      *)
(* first to its last step; a call holds it only to find the method, for a  *)
(* method may call the registry again: LynkService registers itself.       *)
(***************************************************************************)
EXTENDS Naturals, Sequences

CONSTANTS
  Procs,        \* goroutines that register and call
  Listers,      \* those of them that ask for the list as well
  Objects,      \* the Go values registered
  NameOf,       \* NameOf[o]: the short name of o's type
  TypeOf,       \* TypeOf[o]: the type of o, package and all
  Methods,      \* Methods[t]: the methods of t, in the order of their names
  Guarded,      \* the types with a PreMethod
  Forwarding,   \* <<t, m>>: method m of t executes another request
  Names,        \* short names and aliases
  MethodNames,
  AliasOf,      \* AliasOf[n]: n without "Service", or NoName
  MaxDepth,     \* bound on the calls nested in one another
  NoName, NoType, NoService, NoBinding, NoJob, Nobody

Method  == [name : MethodNames, sig : {"grpc", "std", "other"}]
Types   == {TypeOf[o] : o \in Objects}
Queries == Names \X MethodNames

Binding  ==
  [service : Names, object : Objects, type : Types, pre : Types \cup {NoType}]
Services == [object : Objects, listed : SUBSET MethodNames, pre : Types \cup {NoType}]

ASSUME RegistryAssumption ==
  /\ NameOf \in [Objects -> Names]
  /\ DOMAIN TypeOf = Objects
  /\ \A t \in Types : Methods[t] \in Seq(Method)
  /\ AliasOf \in [Names -> Names \cup {NoName}]
  /\ \A n \in Names : AliasOf[n] # n
  /\ \A k, n \in Names : AliasOf[k] = AliasOf[n] /\ AliasOf[n] # NoName => k = n
  /\ NoName \notin Names /\ NoType \notin Types /\ Nobody \notin Procs
  /\ Listers \subseteq Procs
  /\ NoService \notin Services /\ NoBinding \notin Binding
  /\ MaxDepth \in Nat \ {0}

VARIABLES
  services,  \* services[n]: its object, listed methods and PreMethod
  methods,   \* methods[<<n, m>>]: what a call of n.m runs
  mu,        \* the process that holds the mutex
  pc,        \* where each process is
  job,       \* what it is doing
  seen,      \* the methods its last ApiList returned
  answer     \* the answer given by the last step, if it gave one

vars == <<services, methods, mu, pc, job, seen, answer>>

NoAnswer == [proc |-> Nobody, query |-> <<NoName, NoName>>, status |-> "none"]

Init ==
  /\ services = [n \in Names |-> NoService]
  /\ methods = [q \in Queries |-> NoBinding]
  /\ mu = Nobody
  /\ pc = [p \in Procs |-> "idle"]
  /\ job = [p \in Procs |-> NoJob]
  /\ seen = [p \in Procs |-> {}]
  /\ answer = NoAnswer

Registered == {n \in Names : services[n] # NoService}

Goto(p, place, j) ==
  /\ pc' = [pc EXCEPT ![p] = place]
  /\ job' = [job EXCEPT ![p] = j]

Step(p, place, j) == Goto(p, place, j) /\ answer' = NoAnswer

Return(p, status) ==
  /\ Goto(p, "idle", NoJob)
  /\ answer' = [proc |-> p, query |-> job[p].query, status |-> status]

-----------------------------------------------------------------------------
\* Registration.

Entry(o) ==
  IF services[NameOf[o]] = NoService
  THEN [object |-> o, listed |-> {}, pre |-> NoType]
  ELSE services[NameOf[o]]

\* The alias is given up to a service that has that name.
AliasFor(n) ==
  IF AliasOf[n] \in Registered THEN NoName ELSE AliasOf[n]

Job(o, alias) == [object |-> o, alias |-> alias, todo |-> Methods[TypeOf[o]]]

\* Mutated forms of RegisterService: the mutex is not taken; the alias is taken
\* whoever has that name; the PreMethod is looked for only when the service is
\* registered again.
RegisterServiceUnlocked(p, o) ==
  /\ pc[p] = "idle"
  /\ services' = [services EXCEPT ![NameOf[o]] =
       [Entry(o) EXCEPT !.pre = IF TypeOf[o] \in Guarded THEN TypeOf[o] ELSE @]]
  /\ Step(p, "register", Job(o, AliasFor(NameOf[o])))
  /\ UNCHANGED <<methods, mu, seen>>
RegisterServiceAliasing(p, o) ==
  /\ pc[p] = "idle" /\ mu = Nobody
  /\ mu' = p
  /\ services' = [services EXCEPT ![NameOf[o]] =
       [Entry(o) EXCEPT !.pre = IF TypeOf[o] \in Guarded THEN TypeOf[o] ELSE @]]
  /\ Step(p, "register", Job(o, AliasOf[NameOf[o]]))
  /\ UNCHANGED <<methods, seen>>
RegisterServiceUnguarded(p, o) ==
  /\ pc[p] = "idle" /\ mu = Nobody
  /\ mu' = p
  /\ services' = [services EXCEPT ![NameOf[o]] =
       [Entry(o) EXCEPT !.pre =
          IF TypeOf[o] \in Guarded /\ NameOf[o] \in Registered THEN TypeOf[o] ELSE @]]
  /\ Step(p, "register", Job(o, AliasFor(NameOf[o])))
  /\ UNCHANGED <<methods, seen>>

\* The first object of a name stays the receiver; a PreMethod is kept until a
\* type of the same name brings its own.
RegisterService(p, o) ==
  /\ pc[p] = "idle" /\ mu = Nobody
  /\ mu' = p
  /\ services' = [services EXCEPT ![NameOf[o]] =
       [Entry(o) EXCEPT !.pre = IF TypeOf[o] \in Guarded THEN TypeOf[o] ELSE @]]
  /\ Step(p, "register", Job(o, AliasFor(NameOf[o])))
  /\ UNCHANGED <<methods, seen>>

\* A method with another signature, or one the service has, is passed over.
SkipMethod(p) ==
  /\ pc[p] = "register" /\ job[p].todo # <<>>
  /\ LET m == Head(job[p].todo) IN
       m.sig = "other" \/ m.name \in services[NameOf[job[p].object]].listed
  /\ Step(p, "register", [job[p] EXCEPT !.todo = Tail(@)])
  /\ UNCHANGED <<services, methods, mu, seen>>

\* A mutated form of ListMethod: a method the service has is taken again.
ListMethodAgain(p) ==
  /\ pc[p] = "register" /\ job[p].todo # <<>>
  /\ LET m == Head(job[p].todo)
         n == NameOf[job[p].object] IN
     /\ m.sig # "other"
     /\ services' = [services EXCEPT ![n].listed = @ \cup {m.name}]
  /\ Step(p, "bind", job[p])
  /\ UNCHANGED <<methods, mu, seen>>

\* A new method is listed first ...
ListMethod(p) ==
  /\ pc[p] = "register" /\ job[p].todo # <<>>
  /\ LET m == Head(job[p].todo)
         n == NameOf[job[p].object] IN
     /\ m.sig # "other" /\ m.name \notin services[n].listed
     /\ services' = [services EXCEPT ![n].listed = @ \cup {m.name}]
  /\ Step(p, "bind", job[p])
  /\ UNCHANGED <<methods, mu, seen>>

\* ... and then bound, under the name and the alias.
BindMethod(p) ==
  /\ pc[p] = "bind"
  /\ LET m == Head(job[p].todo).name
         o == job[p].object
         n == NameOf[o]
         binding == [service |-> n, object |-> services[n].object,
                     type |-> TypeOf[o], pre |-> services[n].pre] IN
     methods' = [q \in Queries |->
       IF q \in {<<n, m>>, <<job[p].alias, m>>} THEN binding ELSE methods[q]]
  /\ Step(p, "register", [job[p] EXCEPT !.todo = Tail(@)])
  /\ UNCHANGED <<services, mu, seen>>

RegisterEnd(p) ==
  /\ pc[p] = "register" /\ job[p].todo = <<>>
  /\ mu' = Nobody
  /\ Step(p, "idle", NoJob)
  /\ UNCHANGED <<services, methods, seen>>

-----------------------------------------------------------------------------
\* ApiList returns the live slices and takes no mutex: the services are read
\* by the handler, their methods when the response is encoded.

ApiList(p) ==
  /\ pc[p] = "idle"
  /\ Step(p, "list", [names |-> Registered])
  /\ UNCHANGED <<services, methods, mu, seen>>

ApiListEncode(p) ==
  /\ pc[p] = "list"
  /\ seen' = [seen EXCEPT ![p] =
       {q \in Queries : q[1] \in job[p].names /\ q[2] \in services[q[1]].listed}]
  /\ Step(p, "idle", NoJob)
  /\ UNCHANGED <<services, methods, mu>>

\* While a registration appends to the slices the read is a data race, and
\* what it yields may be no list at all.
ApiListTorn(p) ==
  /\ pc[p] = "list" /\ mu # Nobody
  /\ seen' = [seen EXCEPT ![p] = {}]
  /\ Step(p, "idle", NoJob)
  /\ UNCHANGED <<services, methods, mu>>

-----------------------------------------------------------------------------
\* Calls, by Exec or by HTTP.

Exec(p, q) ==
  /\ pc[p] = "idle"
  /\ Step(p, "lookup", [query |-> q, depth |-> 1])
  /\ UNCHANGED <<services, methods, mu, seen>>

\* Mutated forms of Lookup: no mutex is taken; a method that is not found
\* is looked for again and again.
LookupUnlocked(p) ==
  /\ pc[p] = "lookup"
  /\ IF methods[job[p].query] = NoBinding
     THEN Return(p, "notfound")
     ELSE Step(p, "pre", [query |-> job[p].query, depth |-> job[p].depth,
                          hit |-> methods[job[p].query]])
  /\ UNCHANGED <<services, methods, mu, seen>>
LookupWaits(p) ==
  /\ pc[p] = "lookup" /\ mu = Nobody
  /\ IF methods[job[p].query] = NoBinding
     THEN Step(p, "lookup", job[p])
     ELSE Step(p, "pre", [query |-> job[p].query, depth |-> job[p].depth,
                          hit |-> methods[job[p].query]])
  /\ UNCHANGED <<services, methods, mu, seen>>

\* The mutex is taken and released around the look at the map.
Lookup(p) ==
  /\ pc[p] = "lookup" /\ mu = Nobody
  /\ IF methods[job[p].query] = NoBinding
     THEN Return(p, "notfound")
     ELSE Step(p, "pre", [query |-> job[p].query, depth |-> job[p].depth,
                          hit |-> methods[job[p].query]])
  /\ UNCHANGED <<services, methods, mu, seen>>

\* The request that does not decode, or that PreMethod denies, ends here.
Denied(p) ==
  /\ pc[p] = "pre"
  /\ Return(p, "denied")
  /\ UNCHANGED <<services, methods, mu, seen>>

\* Reflection panics on a PreMethod or a method of another type than the
\* object's: two types share a short name.
Panics(p) ==
  /\ \/ pc[p] = "pre" /\ job[p].hit.pre \notin {NoType, TypeOf[job[p].hit.object]}
     \/ pc[p] = "call" /\ job[p].hit.type # TypeOf[job[p].hit.object]
  /\ Return(p, "panic")
  /\ UNCHANGED <<services, methods, mu, seen>>

PreMethod(p) ==
  /\ pc[p] = "pre"
  /\ job[p].hit.pre \in {NoType, TypeOf[job[p].hit.object]}
  /\ Step(p, "call", job[p])
  /\ UNCHANGED <<services, methods, mu, seen>>

CallMethod(p) ==
  /\ pc[p] = "call" /\ job[p].hit.type = TypeOf[job[p].hit.object]
  /\ \/ Return(p, "served")
     \/ /\ <<job[p].hit.type, job[p].query[2]>> \in Forwarding
        /\ job[p].depth < MaxDepth
        /\ \E q \in Queries :
             Step(p, "lookup", [query |-> q, depth |-> job[p].depth + 1])
  /\ UNCHANGED <<services, methods, mu, seen>>

\* ApiMethod describes a method of a service, by name and not by alias.
ApiMethod(p, q) ==
  /\ pc[p] = "idle" /\ mu = Nobody
  /\ answer' = [proc |-> p, query |-> q,
       status |-> IF q[1] \in Registered /\ q[2] \in services[q[1]].listed
                  THEN "described" ELSE "undescribed"]
  /\ UNCHANGED <<services, methods, mu, pc, job, seen>>

Registers(p) ==
  SkipMethod(p) \/ ListMethod(p) \/ BindMethod(p) \/ RegisterEnd(p)

Lists(p) == ApiList(p) \/ ApiListEncode(p) \/ ApiListTorn(p)

Calls(p) == Denied(p) \/ Panics(p) \/ PreMethod(p) \/ CallMethod(p)

Next ==
  \/ \E p \in Procs :
       \/ \E o \in Objects : RegisterService(p, o)
       \/ \E q \in Queries : Exec(p, q) \/ ApiMethod(p, q)
       \/ Registers(p) \/ Lookup(p) \/ Calls(p)
  \/ \E p \in Listers : Lists(p)

Spec == Init /\ [][Next]_vars

\* Procs run, and a mutex is handed to a waiter that keeps losing it.
Fairness ==
  \A p \in Procs : SF_vars(Lookup(p)) /\ WF_vars(Registers(p) \/ Calls(p))

FairSpec == Spec /\ Fairness

-----------------------------------------------------------------------------
Work    == [object : Objects, alias : Names \cup {NoName}, todo : Seq(Method)]
Listing == [names : SUBSET Names]
Asked   == [query : Queries, depth : 1..MaxDepth]
Hits    == [query : Queries, depth : 1..MaxDepth, hit : Binding]
Jobs    == {NoJob} \cup Work \cup Listing \cup Asked \cup Hits

JobOK(p) ==
  /\ pc[p] = "idle" => job[p] = NoJob
  /\ pc[p] = "list" => job[p] \in Listing /\ job[p].names \subseteq Registered
  /\ pc[p] = "lookup" => job[p] \in Asked
  /\ pc[p] \in {"pre", "call"} => job[p] \in Hits
  /\ pc[p] \in {"register", "bind"} =>
       /\ mu = p
       /\ job[p] \in Work
       /\ NameOf[job[p].object] \in Registered /\ job[p].alias \notin Registered
  /\ pc[p] = "bind" =>
       /\ job[p].todo # <<>>
       /\ Head(job[p].todo).name \in services[NameOf[job[p].object]].listed

TypeOK ==
  /\ services \in [Names -> Services \cup {NoService}]
  /\ methods \in [Queries -> Binding \cup {NoBinding}]
  /\ mu \in Procs \cup {Nobody}
  /\ pc \in [Procs -> {"idle", "register", "bind", "list", "lookup", "pre", "call"}]
  /\ job \in [Procs -> Jobs]
  /\ \A p \in Procs : JobOK(p)
  /\ seen \in [Procs -> SUBSET Queries]

\* Outside a registration every method a service lists is bound under its
\* name to the service itself and to its first object, in whatever order
\* services, their aliases and types of the same name were registered.
NameBeatsAlias ==
  mu = Nobody =>
    \A n \in Registered : \A m \in services[n].listed :
      /\ methods[<<n, m>>] # NoBinding
      /\ methods[<<n, m>>].service = n
      /\ methods[<<n, m>>].object = services[n].object

\* A name that was callable goes on reaching the same method, unless the
\* service of that very name takes it over from an alias.
BindingStable ==
  [][\A q \in Queries :
       methods[q] # NoBinding /\ methods'[q] # methods[q]
         => methods[q].service # q[1] /\ methods'[q].service = q[1]]_vars

\* No method of an object with a PreMethod is bound without one.
GuardNotSkipped ==
  \A q \in Queries :
    methods[q] # NoBinding /\ TypeOf[methods[q].object] \in Guarded
      => methods[q].pre # NoType

\* A method that a process saw in a list, even in one read in the middle of a
\* registration, is found when it is called or asked for.
ListedIsCallable ==
  [][\A p \in Procs :
       answer'.proc = p /\ answer'.status \in {"notfound", "undescribed"}
       => answer'.query \notin seen[p]]_vars

\* Every call comes to an end, those of methods that call the registry again
\* included, and so does every registration.
EveryCallReturns ==
  \A p \in Procs : pc[p] \in {"register", "lookup"} ~> pc[p] = "idle"
=============================================================================
