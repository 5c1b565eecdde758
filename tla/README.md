# lynkapi: models, checks and proofs

lynkapi (Go, `src/go`) turns Go structs into typed API objects: it derives a
*spec* from a struct type, merges objects under a spec, registers the methods of
Go types as remote services, serves slices of a live object as database-like
tables, and comes with a client and an interactive command line. This directory
holds TLA+ models of that code, the TLC configurations that check them on small
instances, and theorems that TLAPS proves for every instance.

## 1. Inventory

All code of its own is under `src/go`; `*.pb.go` is generated from
`src/api/lynkapi/*.proto`. hauth, httpsrv, grpc, structpb, readline and the JSON
encoder are libraries.

| Component | State | Operations | What is hard | What makes it correct |
|---|---|---|---|---|
| Row merge, `lynkapi/type_data.go` | none; changes the destination object in place | `DataMerge` on a type or field spec | the first error leaves earlier fields merged; defaults, limits, required attributes interact; a retry meets an object already merged | limits survive every sequence of merges, strings, numbers and arrays are not emptied (maps and bools may be), a replay changes nothing, a reported "no change" is true but for a nil pointer that is filled |
| Object store, `oneobject/oneobject.go` | the object, its tables, one mutex, the file | `TableSetup`, `Query`, `Insert`, `Igsert`, `Upsert`, `Delete`, `Flush`, `NewInstanceFromFile` | mutex held over a flush; failing or torn file writes; crash and restart; keys | keys stay unique, an acknowledged write is in the file (an igsert that hits a row writes nothing, nor does a delete that finds none), every call returns |
| Type specs, `lynkapi/type.go` | a registry of specs under a lock; while it parses, the kinds it is inside of | `NewSpecFromStruct`, `Register`, `ParseStructValid`, attributes and keys | types that contain themselves and each other, limits written in tags, two types of one kind | recursion ends, a type gone through again keeps its fields and its key, the rows of a table are told apart by the fields declared for it |
| Service registry, `lynkapi/service.go` | maps of services, methods and aliases under a lock | `RegisterService`, `Exec`, `ApiList`, `ApiMethod`, the HTTP handlers | registration while calls run, aliases that collide with names | a call reaches the method of the service it names |
| Data project manager, `lynkapi/data.go` | list, index and services under a lock | `RegisterService`, `DataProject`, `DataQuery`, `DataUpsert` ... | two registrations of one name, tables set up meanwhile, a list read unlocked | the list names what is served |
| Client, `lynkapi/client.go` | a process-wide cache of clients, a token each | `NewClient`, `Exec`, `ApiList`, `DataProject` | a call retried after its token expired, tokens renewed by two goroutines | a method runs at most once for each call, or twice if it answered "expired" itself; a coded answer is that of the last run or of a refusal; client and connection share one token |
| Server, `lynkapi/server.go` | none | gRPC entry points | - | passes a call to the registry |
| Status codes, `lynkapi/service_status.go` | none | `ParseError`, `fixCodeMsg` | a status travels as text | a code survives the trip |
| Data queries and tables, `lynkapi/data_query.go`, `data_table.go`, `data_result.go`, `data_value.go` | the query being built, the spec of the table | `AddFilter`, `And`, `SearchFilter`, sort and limit builders, `SetField`, `SetIndex` | `Query` and `Delete` read one tree of filters differently; the answered spec is the store's own | the rows that come back meet every condition, a row goes only by its key |
| Conversions, `lynkapi/util*.go`, `slices.go` | a small slice cache | `ParseStruct`, `ConvertReflectValueToMapValue` | - | values keep their content |
| Command line, `lynkcli/*.go` | configuration files, the commands and services known, one mutex, the request being prompted for | `Run`, registration and dispatch of commands, prompts, sending, output | prefix matching, mutex held over a command that prompts and calls, a start that fails halfway, a rewrite that is cut off, restarts | the command run is the one the rule of prefixes gives, the request sent is what was answered, a rewrite that ends has lost no configuration, a line is answered unless its command registers another or a flag has an empty argument |
| Codec, `codec/*.go`; context, `lynkapi/context.go` | none | JSON options; request context | - | - |

How they interact: the client calls the server over gRPC or HTTP; the server hands
the call to the service registry, which finds the method by service name or alias
and calls it by reflection, or hands a data request to the project manager; the
manager finds the instance by name and calls its data service, of which the object
store is the one in this repository; the store merges rows with the row merge under
the spec made from the row's type, and writes the file through the codec. The
command line is a client that builds its commands from the method list of the server.

## 2. Modules

| Module | Models | Checked by | Proved in |
|---|---|---|---|
| `RowMerge` | the merge of one object into another under a spec, as operators | through the next two | `RowMergeProofs` |
| `MergedObject` | one live object under any sequence of merges | `MCMergedObject` | `MergedObjectProofs` |
| `OneObject` (EXTENDS `RowMerge`) | the store: memory, file, mutex, callers, crashes | `MCOneObject` | `OneObjectProofs` |
| `KeyedStore` | abstract: a map that is saved | `OneObjectMap` (the refinement mapping), `MCOneObjectMap` | `OneObjectProofs` |
| `ServiceRegistry` | registration, lists and calls of methods | `MCServiceRegistry` | `ServiceRegistryProofs` |
| `DataProjects` | registration, lists and queries of data services | `MCDataProjects` | `DataProjectsProofs` |
| `LynkClient` | client cache, tokens, calls, second try | `MCLynkClient` | `ClientProofs` |
| `RemoteCall` | abstract: what a call may rely on: how often its method runs, and what an answer says of it | through `LynkClient` | `ClientProofs` |
| `ErrorTrip` | errors as texts and statuses over hops | itself | `ClientProofs` |
| `TypeSpec` | the parser of struct types, the registry of specs and the readers of specs | `MCTypeSpec` | `TypeSpecProofs` |
| `CommandLine` | the start, the commands, the loop, prompts and replies | `MCCommandLine` | `CommandLineProofs` |
| `DataTable` | the spec of a table that its callers change | through `DataQuery` | `ClientProofs` |
| `DataQuery` (EXTENDS `DataTable`) | the builders of a query, and how the store answers it and deletes by it | `MCDataQuery` | `ClientProofs` |

The store uses the merge by EXTENDS, as the Go code calls it inside a locked section.
The registry calls itself (`Forwarding`), since `LynkService` is one of the services it
registers. `LynkClient` has the server as `LynkService.Exec` treats one request: refusals, a
`PreMethod` that may look at the token, a method that may answer with any code. `DataQuery` and `OneObject` model one store from two
sides: `OneObject` has its concurrency, file and keys, with requests that hold their key;
`DataQuery` has one caller and how a request comes to hold what it holds.

### State and actions against the code

*Row merge.* `Fields` is the spec in declaration order, `Merge` the walk of
`dataMerge`: `Visited` is the order of the fields, `Denied` the error of one field,
`Merged` its assignment, `Reported` its share of `chg`, and `Reached` the fields merged
before the first error. A nested struct value contributes its fields in place, a struct
pointer is a field and the parent of its fields. Numbers have a small range between
`Lowest` and `Highest`; the only constants of Go's number types that matter are the
starting values of the limits, of which the float one is above zero.

*Object store.* A caller takes the mutex at its first step and keeps it until it
returns, so a call without a flush is one action after `Call`; a call with a flush is
the change in memory, `FlushOpen` (the truncation by `ioutil.WriteFile`) and
`FlushWrite`, with `FlushOpenFails` and `FlushWriteFails`. `holder` is the mutex,
`Crash` empties memory and all calls, `Restart` is `NewInstanceFromFile`, after which no
table is set up. A request is a function from fields to values, `Absent`, or `Mistyped`
for a value that does not decode. A protobuf value without a kind is `Mistyped` too: for a key
`insert` generates an id in its place, but after it has put the value itself among those to
encode (`oneobject.go:322`), which then fails.

*Service registry.* `RegisterService`, `SkipMethod`, `ListMethod`, `BindMethod` and
`RegisterEnd` are the loop of `RegisterService` under the mutex. `ApiList` copies slice
headers and `ApiListEncode` reads them later, both unlocked; a read that overlaps a
registration is a data race and may also yield nothing (`ApiListTorn`). `Exec` and the
HTTP handler share `lookup`, the `PreMethod` and the reflective call; a method in
`Forwarding` calls `Exec` again, to `MaxDepth`. Reflection panics when the receiver is
not of the type that declares the method (`Panics`): two types with one short name.

*Data projects.* `RegisterService` takes the snapshot of the service's tables before the
mutex (`Lock`), `AddInstance` and `Serve` are the two halves under it. `TableSetup` can
happen at any time, for `Instance` has its own mutex. `settled` is a history variable: the
tables that a registration already had when the first of those that overlap it began.

*Client.* `dbMut`, `clientConns` and `rpcConns` are the caches; each connector has a
`token`, which the last `RefreshAccessToken` sets. `Exec` goes over `Auth` if there is no
token, `Send` takes the token of the connection at that moment, `Reply` renews an expired
one once. `TimesOut` ends a call at the client; the request may still be served
(`ServeStray`). The server is `LynkService.Exec`: `Refusals` are the answers it gives without
running the method (not found, malformed, and the error of a `PreMethod`, here one that looks at
the token if the request is `checked`), `Admits` is when it runs it, and a method that runs
answers with any code, "unauth" and "expired" too (`Handles`), since `service.go:390` passes a
method's own error on. Data requests are never checked. `said` is a history variable: what the
last run of a call answered.

*Errors.* A text is the sequence of codes it starts with and the words after them, a
status a code and a text. `Raise` is `NewError`, `Receive` `ParseError` in the client,
`Respond` `NewResponseError` in the handlers, `AuthFailed` the status that `Exec` makes of
a failed login, `Err` the way back to a text. `origin` is a history variable.

*Type specs.* A Go type is the sequence of its constructors, a program gives each struct
type its fields with their tags. The calls of `parseStruct` that have not returned are
`stack[p]`, the innermost first: each has the field spec it fills (`field`), the type it goes
through, the field it is at (`next`) and `depth`. `SkipField`, `LeafField`, `EnterStruct` and
`LeaveStruct` are the outcomes of one round of its loop, `parseSet[p]` is the code's map of
kinds in progress, and `ParsePanics` is the index out of range of a limit of one number.
`SpecType` is the switch over the kinds of a field, `Limits`, `KnownAttr` and `Styles` what
becomes of its tags: an attribute is known by its place in the tag. Limits of whole numbers go
through a float64 (`AsFloat`) before they are compared. `StoreSpec` is the section of `Register`
under the mutex; `HasAttr`, `PrimaryKey` and `UniqueKeys` are what the store reads, and `Declared`
is what the tags say.

*Command line.* `pc` is where `Run` is: `CfgSetup`, the rewrite of the file (`CfgWrite`,
`CfgWriteFails`), the list of services (`ApiListKnown`,
`ApiListFails`, `ApiListAnswers`), `MgrRegister` for each service, `SetupFuncs`, then lines.
Text is a sequence of characters with an order, for dispatch is by prefix and commands are
sorted; names of fields and services are not. `cfg` is what the files gave so far: every file up to
the chosen one is decoded into it, one that does not decode included, and so in each `Run` of the
process (`ServicesRead`, `LastRead`). The rewrite opens the file, which empties it (`Truncated`), and
then ends in full or is cut off anywhere (`Torn`), which the code passes over in silence; the process
may also end in between. `Insert` puts a command in its place in that order,
`HelpCommand`, `CustomCommand` and `ServiceCommand` are the commands there can be. `Matches` is the
search of `cliInvoke`; one action for each thing it may run. `frames` is the recursion of `scanInput`, `request` what it
has put together, with `asked`, the answers given, as a history. `Reads` gives the value that an answer
is sent as: a number as the float64 next to it, which above 2^53 is another number. `mu` is the mutex, held from
`Action` to `ExecDone`, `ExecDenied` or `InputFails`, in which other goroutines wait with
`RegisterCommonCommand`. `Restart` keeps the files only; after a start that failed the program
may call `Run` again, which finds what the first left.

*Data queries.* A filter is a record of field, value and inner filters, as the message is.
`Grown` is `addFilter`: the second condition makes a list of the first and itself, `handle` is
the filter that `SearchFilter` or `AddFilter` returned and `And` adds to. `Conditions` is what
`oneobject.Query` reads of the tree, `Counting` those that count after later ones of the same
field replaced earlier ones, `Page` the cut at the limit, `Sorted` the sort after it;
`KeyConditions` and `KeyAsked` are what `Delete` reads. `fields` is the spec the store answers
with and keeps: a caller's `SetField` changes the type the store filters by. `asked` is a
history of the conditions the caller added.

## 3. Runs

| Run | Shows | Bounds |
|---|---|---|
| `merge` | limits and enums hold after every sequence of merges, failed ones included; a replay changes nothing; no string, number or array is emptied; a create fills required fields; `chg` = false means no change, of a failed merge or a nested field either, but for a nil pointer | a field of every kind, values inside, outside and at the limits, all objects as sources, all merge types |
| `store` | primary keys stay unique; success of a write means that all of memory was written to the file; a deleted key is gone from memory; the store implements `KeyedStore`; every call returns | two callers, one table, two keys, inputs that write, deny and default; all operations, failing opens and writes, crashes |
| `store_inputs` | what an acknowledged write shows; without failing file operations every step that frees the mutex leaves the keys of memory in the file, unless an upsert renamed a row and was denied half-way; but for upserts that hit two rows unique keys stay unique | two callers, insert, upsert, delete and setup (`igsert` is the two together, and a query writes nothing: both are in `store`), a primary key that is generated and may collide, a unique key, every kind of request, a table behind a struct pointer, a name that is no table, crashes |
| `registry` | a listed method is bound under its name to its own service; a binding changes only from an alias to the service of that name; no method of a guarded object is unguarded; what was listed is found; every call and registration returns | three objects: same short name twice, an alias that is a name, a method that calls the registry again; two goroutines, of which one lists; `MaxDepth` 2 |
| `projects` | list, index and services agree; no table set up before a registration is missed; what was seen listed is found | four services, two of one name, one with an invalid name; two goroutines |
| `client` | client and connection share a connector; the client implements `RemoteCall` | two callers, three configurations (one key with a right and a wrong secret, another with a wrong one), one call each, three tokens, methods with and without a check of the token, every code as an answer |
| `errors` | the first code survives | four codes, two words and none, texts of up to four codes |
| `specs` | no kind is entered inside of itself; a type gone through again gives all its fields and a table its key; exactly the fields declared as primary or unique key tell the rows of a table apart; objects of a kind are of one type | two goroutines, five types (two of one kind, one without a name, `structpb.Value`), programs with cycles, tables, containers of every form and every form of tag; `MaxDepth` 4 |
| `query` | answers meet every condition, none twice, as many as there are or the limit allows; a further condition never brings rows back; a row goes only by its key | a table of three rows with a key, a text and a number; a blank key, equal texts, equal order; values of other types; `MaxChanges` 3 |
| `cli` | the shortest path that begins the line runs; the request is what was answered; help is whole; a start loses no configuration but by a rewrite cut off; a line is answered, but for one whose command registers another and one with an empty flag argument; registrations get through | three services with names that begin or equal each other's, three answers to `ApiList`, two custom commands of which one registers another, five sets of files, among them some that do not decode or name a service that another lists, writes cut off, seven lines, an answer that is no float64, restarts |
| `dict_upsert` | violated, a finding | - |
| `blank_key` | violated, a finding | - |

Why the bounds are enough. The merge treats fields one by one and couples them only
through the first error and through a parent, and each list has fields before and after
one that fails. The store compares keys for equality only: two keys give hit, miss and
both orders, two callers every interleaving with a holder and a waiter. In the registry
the conflicts are between names, aliases and types of two objects; the three objects have
all of them. A client's second try needs one expiry, or a method that calls its own token expired, and a third
token shows that there is no third try. In `specs` the programs have a cycle over one type and over two, a type met next
to a field and below it, and tables in tables; `MaxDepth` 4 is passed by slices in slices of structs,
as 10 is in the code. In `query` three conditions are the least that give a condition, a list
of two and a filter below a list; the same bound counts a limit, an order and each change of the
spec, so that two of these meet one condition. In `cli` the lines hit a path, a longer path with
the same beginning, a method, no method and nothing.

`MaxRows`, `MaxDepth` of the registry, `MaxToken`, `MaxCodes`, `MaxChanges` and `Numbers` bound
what the program leaves unbounded. `errors` and `specs` are run without the deadlock check: a
status whose text has reached `MaxCodes` codes goes no further in the model, and goroutines that
have panicked take no step. No other run needs that.

Symmetry is used for goroutines and, in `projects`, tables, in runs without liveness:
`store_inputs`, `projects`, `client` and `specs`. `merge` and `store_inputs` have a VIEW without
the result of the last call (`Object`, `Unanswered`): only properties of a step read it, in the
step that gives it, and TLC evaluates those for every step.

### Fairness

`OneObject!FairSpec` and `ServiceRegistry!FairSpec` assume weak fairness of the steps of a
running goroutine, strong fairness of taking the mutex and, in the store, that file
operations return. Go's scheduler is preemptive, so a runnable goroutine runs; a
`sync.Mutex` hands itself to a waiter that has lost for more than a millisecond, which is
strong fairness of acquisition. Nothing is assumed of callers, crashes or restarts.

`CommandLine!FairSpec` assumes that the loop goes on: a user at a prompt answers or gives up,
and a request is answered or fails, as the client's timeout sees to; and strong fairness of
the mutex for a goroutine that registers a command. Nothing is assumed of new lines, of the
start or of restarts.

### Findings

* `dict_upsert`: `Upsert` merges into the first row that any key of the request hits
  (`oneobject.go:423`) and never looks whether the unique key it writes belongs to another
  row. Two rows with one `unique_key` follow from two inserts and an upsert.
* `blank_key`: `insert` tests the blankness of a key on the text form of the protobuf value
  (`oneobject.go:332`), which is never blank, so that an empty key is stored; `Delete`
  then refuses to delete it.

Met while modelling, and part of the models: `DataProject` and `ApiList` read live slices
without the mutex; an error with a code and no message loses that code in
`fixCodeMsg` (`> 6`) and keeps it in `ParseError` (`>= 6`), which is why `CodeSurvives`
speaks of errors with words; a client that has never called `Exec` sends its data requests
without a token; a client asked for with a second secret of a known key gets the first; a method
that answers "expired" itself is run a second time by `Exec`, which cannot tell its answer from that
of a `PreMethod`; an insert with a value without a kind for a key is refused although an id was
generated for it.

* Type specs: a limit of a single number panics in the parser (`type.go:427`), but on a map; limits
  of whole numbers lose what a float64 does not hold; limits with a
  zero among them, or out of order, are dropped. Rows that contain tables of their own kind have
  no fields there, and so no key. Of two types of one kind the first registered stays.
* Command line: the command whose path is the shortest beginning of the line runs, so `foobar
  get` runs a command `foo` with `bar` as its method when there is one, and never `foobar`. A
  command that registers another one waits for the mutex it is run under. An empty argument of
  a flag panics. A start that fails after some services were made commands leaves those, and the
  next start takes them for all. An object without fields in a reply is shown as an error though
  the call was done. The rewrite of the configuration is not atomic and its error is dropped: cut off,
  the services of the file are lost. A configuration file that does not decode still leaves what was
  read of it before the error, which the file chosen later is rewritten with. A whole number typed in
  above 2^53 is sent as another one.
* Queries: the type of a filter is read by nobody, nor is the offset. A condition on a field that
  is not text is ignored, and so is a single one with a blank field; of two on one field the last
  counts. Rows are cut at the limit before they are sorted. `Delete` looks at the primary key
  alone, by its tag, and ignores all other conditions. `SetField` on the spec that a query was
  answered with changes how the store filters. After fields `ext` and `Ext` an index on `Ext` is one
  on `ext`, which is the name that both have.

## 4. Theorems

All proofs hold for every value of the constants under the named assumptions.

| Module | Theorem | Argument |
|---|---|---|
| `RowMergeProofs` | lemmas on `Merged`, `Reached`, `Merge` | case split over the kinds of a field |
| `MergedObjectProofs` | `TypeCorrect`, `KeepsWhatItHas`, `StaysWithinLimits`, `CreateFillsRequired`, `NoSilentChange` | every field is either merged or kept, so each property is one of fields |
| | `ReplayIsHarmless` | the fields reached by the second merge are reached by the first, for a field that passed its check passes again |
| `OneObjectProofs` | `TypeCorrect`, `MutexIsHeld` | `LockInv`: who is past the lock holds the mutex, so there is one at most |
| | `PrimaryKeyStaysUnique` | memory and file both have unique keys; a row written is the first of its key |
| | `AckedWritesAreSaved`, `AckedWritesAreVisible`, `AckedDeletesRemove` | `FlushWrite` is the only step of a file-backed store that answers a write with success; what it answers was put in memory under the mutex (`FlushShows`, `FlushGone`), and nobody changes memory in between |
| | `KeysAreKeptUnique` | one lemma for each kind of step; hypothesis `PlainKeys`, for a unique key with a default is not looked for before it is written |
| | `FileFollowsMemory`, `RestingIsTracked` | in a flush that cannot fail the file is that of the start of the call or empty, and the row changed is the only difference; with a primary key alone no upsert renames, so the step property becomes an invariant |
| | `StoreImplementsMap` | `OneObjectMap` gives the map and the saved map by choosing the row of a key, which is well-defined because keys are unique; one lemma for each action, a step of the map or a stutter |
| `ServiceRegistryProofs` | `TypeCorrect`, `NameWins`, `NoGuardSkipped`, `BindingsStay`, `ListedIsFound` | a listed method is bound under its name, except the one whose registration stands between list and bind (`Bound`, `Pending`); what is bound is listed by its service and bound under the service's name or its own alias (`Owned`); a service of a guarded object has a guard |
| `DataProjectsProofs` | `ProjectsTypeCorrect`, `ListedAlwaysServed` | the index is one to one onto the list at all times; list and services differ only at the name whose holder of the mutex stands between `AddInstance` and `Serve` |
| | `RegisteredAlwaysListed`, `SeenAlwaysFound` | every registration under way has the tables it cannot miss in its snapshot (`Complete`), so whichever adds its snapshot last adds those; a name seen in the list stays in the index |
| `ClientProofs` | `ClientTypeCorrect`, `AlwaysOneConnector`, `ClientImplementsRemoteCall` | under `dbMut` the caches have the same keys and connectors; a call whose answer is still out has not run, or its goroutine holds the reply to its last run, or that run said "expired" (`said`); a stray request is of a call answered "unknown": so each step is a step of `RemoteCall` or leaves it unchanged |
| | `ErrorTypeCorrect`, `CodeAlwaysSurvives` (of `ErrorTrip`) | the first code of a text, or the code of a status, is the origin, unless the text has no words |
| | `QueryTypeCorrect`, `QueryDeletesByKey` (of `DataQuery`) | `QueryInv`: every filter that says anything was asked for (`Wanted`), so the key that `Delete` takes was; a filter is two lists deep at most, so each builder is one of "append to the root", "wrap the root", "append below" (`GrownIs`, `DeepenInner`) |
| | `QueryAnswersAsked` | what `Query` reads of the filter is, one by one, what was asked for, as long as nothing went into a condition (`Tracked`; `RootTaken` is what keeps it); the page is the first elements of the rows found, counted by its greatest element and the least one outside (`FirstsAre`), and a list of a set without a double has all of it (`ListsAll`) |
| | `QueryNarrows` | a builder leaves what was read and adds one condition at most (`Extends`), which as the last of its field displaces none |
| `TypeSpecProofs` | `SpecTypeCorrect`, `NoKindEnteredTwice` | every stack is one of `IsStack`: the kinds of its calls differ and are in `parseSet`, and all calls but the innermost are at a field. `ReplaceTop`, `Push` and `Pop` keep that, and each step is one of them |
| | `OneTypeOfAKind` | an object was given under the lock, when the spec of its kind was stored, and no spec is replaced |
| | `NoFieldLost`, `RowsUniqueAsDeclared` | `FInv`: the fields of a call are those of its type it has passed (`Found`, `Lists`), each made by one of the outcomes of the loop (`Below`); a call's type is the one its caller is at (`Called`), and a kind in progress is met again only below itself (`Path`). The last field passed is found by the least element of a set of numbers, not by induction. A row type entered below a table has its fields in the table (`RowsFound`, `TableFound`), one of which is the key just when one is declared (`KeyOfTable`), and an attribute found by its beginning is one that was declared (`HasAttrIsDeclared`) |
| `CommandLineProofs` | `CommandsTypeCorrect` | the stronger `IInv`: the commands sorted, each service of one of them, each frame one level deeper in the request |
| | `ShortestPathAlwaysRuns`, `HelpAlwaysWhole` | commands stay sorted: the order of paths is total and transitive, `Insert` puts a command before the first that is larger (`InsertSorts`), and of the commands that begin one line the first is the shortest (`FirstIsShortest`); the services known are those of the part of the server's list gone through (`ServiceInv`) |
| | `ConfigAlwaysSurvives` | `ServicesReadIs`, `LoadedIs`: what is read of the files, for each form of one; `CfgSetupIs`: what goes missing when the file is opened is in `cfg`; `WriteInv`: while it is written the file is empty and `cfg` has services, the one in use among them, so that the end of the write puts all of them there and takes nothing away (`WrittenIs`) |
| | `SentAsWasAnswered` | `AskInv`: the first fields of the method, up to where the prompts are, were prompted for, and so were the fields of each object gone into; the request has them as answered (`FieldAsks`, `InnerAsks`, `LeaveObjectAsks`) |

The strengthening is needed because none of these properties is inductive by itself:
uniqueness in memory after a restart is that of the file, "runs at most once" depends on
who can still run the call, the list agrees with the services only between registrations, and
that the first command found is the shortest needs the order of all. Each proof has one step for
every action.

### Assumptions

TLC evaluates the assumptions on constants with every run. What they say, and why the code
justifies it:

* Row merge and store: `FieldsAssumption`, `ValuesAssumption`, `RangeAssumption`: fields are of
  the kinds the spec has, values of the kind of their field. `StoreAssumption`: keys are strings
  of the row itself and the primary key has no default. `NestedAssumption`: a request that gives a
  field of a struct pointer gives the pointer, as Go values do.
* `RegistryAssumption`: no service is an alias of itself and no alias is of two services, for the
  alias is the name less its suffix `Service`.
* `ProjectsAssumption`, `ClientAssumption`, `TripAssumption`: domains, and values that are none of
  the others.
* `TypesAssumption`: the types registered are among the types of the program, and each is a
  sequence of declarations (`IsDecl`). Nothing is assumed about cycles, tags or kinds.
* `TableAssumption`, `QueryAssumption`: names, tags and types are texts, a field of the store has a
  tag (the code takes the field's name when the struct has none), and `lowerName` of no name is no
  name. Filters, values and tables are any.
* `FilesAssumption`: a file that lists services or is a single one names some, an empty one names none; a
  bad one may name any, those before its error. `TextAssumption`: paths and names are texts, and lists of services are of services.

Some theorems have hypotheses, which stand in their statements: `PrimaryKeyStaysUnique`,
`AckedDeletesRemove` and `RestingIsTracked` speak of stores without unique keys, for with one an
upsert may give two rows one key (the finding `dict_upsert`); `KeysAreKeptUnique` needs
`PlainKeys`, no unique key has a default; `StoreImplementsMap` a file, a primary key alone and no
generated ids, which is what a map is. `SentAsWasAnswered` needs `TagsDiffer`: the fields of one
object have different tags. The code does not see to that; a method that lists a field twice
prompts for it twice, and the second answer replaces the first.

### What is only checked

Every safety property and every action property of the passing runs is a theorem, and so are the
type invariants, of which those of `ServiceRegistry` and `CommandLine` are checked by their runs
as well.

Only model-checked is liveness, which is out of the prover's reach: `EveryCallReturns` of the
store and the registry, `LineAnswered` and `RegistrationGetsThrough`. The two findings are
counterexamples of TLC. What a recursive definition computes for every input cannot be proved
here: the merge, the parser and the prompt are therefore steps or plain functions over the fields.

## 5. Not modelled

`server.go` is wiring: it registers the service in itself, which `ServiceRegistry` has as
`Forwarding`, and hands calls on. `util*.go`, `slices.go`, `codec` and `context.go` are stateless
conversions and calls of libraries. Of `data_result.go` and `data_value.go` nothing but
conversions is left besides what `DataTable` models. Generated protocol code, terminal I/O,
completion, TLS, JSON and the texts of messages are left out. How a login checks a secret and how a
token is made is the library's (hauth): in the model a secret is right or wrong and a token blank,
valid or expired. `mapTypes` of the registry is written and never read.
Of the command line, `RegisterRender` is a constant (`Renders`), and output is the choice of what
is shown. `SetName`, `TableSpec` and `SetField` of `data.go` build requests only, and a
`DataService` other than an `Instance` is not in the repository.

## 6. Plan

Done, in this order: the merge and the store, their file and the abstract map; the
registry; projects; client and errors; type specs; tables and queries; the command line; the
proofs of all of these as section 4 lists them.

Next:

1. A composition of `DataProjects` and `OneObject`: a query over the manager reaches the
   row that an acknowledged upsert over the manager wrote.
2. `LynkClient` over `ServiceRegistry`: the server of the client is one request at a time now.
3. That the limits of a `TypeSpec` are those that the merge's assumptions ask for.
