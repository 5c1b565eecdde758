----------------------------- MODULE LynkClient -----------------------------
(***************************************************************************)
(* The client of go/lynkapi/client.go.  Goroutines get a client from the   *)
(* cache of the process, one for each address and access key, and share it *)
(* and its access token.  Exec gets a token when there is none, and when   *)
(* the server calls the token expired gets another and asks once more; a   *)
(* data request is sent once, with whatever token there is.                *)
(*                                                                         *)
(* The server of service.go runs the method unless it refuses the request; *)
(* it looks at the token only if the service has a PreMethod that does.    *)
(* It issues tokens, which expire at any time.  A request that times out   *)
(* is answered by the client, and may be served afterwards.                *)
(***************************************************************************)
EXTENDS Naturals

CONSTANTS
  Callers,    \* goroutines
  Configs,    \* client configurations
  KeyOf,      \* KeyOf[f]: the address and the id of the access key of f
  Rightful,   \* the configurations whose secret the server accepts
  Numbers,    \* the numbers a goroutine gives its calls
  MaxToken,   \* bound on the tokens issued
  NoClient, NoJob, Nobody

Keys       == {KeyOf[f] : f \in Configs}
Calls      == Callers \X Numbers
Connectors == Callers \X Configs  \* one for each goroutine that makes one
Clients    == [config : Configs, authConnector : Connectors, rpcConn : Connectors]
Blank      == 0                   \* no access token
Tokens     == 1..MaxToken
Codes      == {"ok", "failed", "unknown", "unauth", "expired"}

ASSUME ClientAssumption ==
  /\ DOMAIN KeyOf = Configs
  /\ Rightful \subseteq Configs
  /\ MaxToken \in Nat
  /\ Nobody \notin Callers /\ NoClient \notin Connectors \cup Clients

VARIABLES
  dbMut,        \* the goroutine that is in NewClient
  clientConns,  \* clientConns[k]: the cached client
  rpcConns,     \* rpcConns[k]: the connector of the cached connection
  token,        \* token[a]: the access token of connector a
  issued,       \* how many tokens the server has issued
  expired,      \* those that expired
  client,       \* client[p]: the client p works with
  pc, job,      \* where p is in its call
  result,       \* result[c]: the answer to call c
  runs,         \* runs[c]: how often the method of call c ran
  said,         \* said[c]: what its last run answered, "none" before
  stray         \* requests that timed out

clientVars == <<dbMut, clientConns, rpcConns, client>>
tokenVars  == <<token, issued, expired>>
callVars   == <<result, runs, said, stray>>
vars == <<clientVars, tokenVars, pc, job, callVars>>

Init ==
  /\ dbMut = Nobody
  /\ clientConns = [k \in Keys |-> NoClient]
  /\ rpcConns = [k \in Keys |-> NoClient]
  /\ token = [a \in Connectors |-> Blank]
  /\ issued = 0
  /\ expired = {}
  /\ client = [p \in Callers |-> NoClient]
  /\ pc = [p \in Callers |-> "idle"]
  /\ job = [p \in Callers |-> NoJob]
  /\ result = [c \in Calls |-> "new"]
  /\ runs = [c \in Calls |-> 0]
  /\ said = [c \in Calls |-> "none"]
  /\ stray = {}

Goto(p, place, j) ==
  /\ pc' = [pc EXCEPT ![p] = place]
  /\ job' = [job EXCEPT ![p] = j]

-----------------------------------------------------------------------------
\* NewClient.

\* A mutated form of NewClient: the mutex is not taken.
NewClientUnlocked(p, f) ==
  /\ pc[p] = "idle"
  /\ LET cached == clientConns[KeyOf[f]] IN
       IF cached # NoClient
       THEN client' = [client EXCEPT ![p] = cached] /\ UNCHANGED <<pc, job>>
       ELSE Goto(p, "dial", [config |-> f]) /\ UNCHANGED client
  /\ UNCHANGED <<dbMut, clientConns, rpcConns, tokenVars, callVars>>

\* A cached client is handed out; otherwise the mutex is kept until there is one.
NewClient(p, f) ==
  /\ pc[p] = "idle" /\ dbMut = Nobody
  /\ LET cached == clientConns[KeyOf[f]] IN
       IF cached # NoClient
       THEN client' = [client EXCEPT ![p] = cached] /\ UNCHANGED <<dbMut, pc, job>>
       ELSE dbMut' = p /\ Goto(p, "dial", [config |-> f]) /\ UNCHANGED client
  /\ UNCHANGED <<clientConns, rpcConns, tokenVars, callVars>>

\* The connection is cached before the client is, under the same key.
RpcClientConnect(p) ==
  /\ pc[p] = "dial"
  /\ LET f == job[p].config IN
       rpcConns' = IF rpcConns[KeyOf[f]] = NoClient
                   THEN [rpcConns EXCEPT ![KeyOf[f]] = <<p, f>>]
                   ELSE rpcConns
  /\ Goto(p, "store", job[p])
  /\ UNCHANGED <<dbMut, clientConns, client, tokenVars, callVars>>

DialFails(p) ==
  /\ pc[p] = "dial" /\ rpcConns[KeyOf[job[p].config]] = NoClient
  /\ dbMut' = Nobody
  /\ Goto(p, "idle", NoJob)
  /\ UNCHANGED <<clientConns, rpcConns, client, tokenVars, callVars>>

StoreClient(p) ==
  /\ pc[p] = "store"
  /\ LET f == job[p].config
         new == [config |-> f, authConnector |-> <<p, f>>,
                 rpcConn |-> rpcConns[KeyOf[f]]] IN
     /\ clientConns' = [clientConns EXCEPT ![KeyOf[f]] = new]
     /\ client' = [client EXCEPT ![p] = new]
  /\ dbMut' = Nobody
  /\ Goto(p, "idle", NoJob)
  /\ UNCHANGED <<rpcConns, tokenVars, callVars>>

-----------------------------------------------------------------------------
\* Calls.

Answer(p, r) ==
  /\ result' = [result EXCEPT ![job[p].call] = r]
  /\ Goto(p, "idle", NoJob)

Begins(p, c) ==
  /\ pc[p] = "idle" /\ client[p] # NoClient
  /\ c[1] = p /\ result[c] = "new"
  /\ result' = [result EXCEPT ![c] = "none"]

Request(c, last, checked) ==
  [call |-> c, last |-> last, checked |-> checked, token |-> Blank, code |-> "none"]

\* tryAuth(false) asks for a token only when there is none.  The method may
\* have a PreMethod that checks the token.
Exec(p, c) ==
  /\ Begins(p, c)
  /\ \E checked \in BOOLEAN :
       Goto(p, IF token[client[p].authConnector] = Blank THEN "auth" ELSE "call",
            Request(c, FALSE, checked))
  /\ UNCHANGED <<clientVars, tokenVars, runs, said, stray>>

\* DataProject, DataQuery and DataUpsert know neither tryAuth, nor a second try,
\* nor a PreMethod.
DataRequest(p, c) ==
  /\ Begins(p, c)
  /\ Goto(p, "call", Request(c, TRUE, FALSE))
  /\ UNCHANGED <<clientVars, tokenVars, runs, said, stray>>

\* tryAuth: the server issues a token, unless the secret is wrong ...
Auth(p) ==
  /\ pc[p] = "auth" /\ client[p].config \in Rightful
  /\ issued < MaxToken
  /\ issued' = issued + 1
  /\ Goto(p, "refresh", [job[p] EXCEPT !.token = issued + 1])
  /\ UNCHANGED <<clientVars, token, expired, callVars>>

\* ... or the request or its answer is lost ...
AuthFails(p) ==
  /\ pc[p] \in {"auth", "refresh"}
  /\ Answer(p, "unauth")
  /\ UNCHANGED <<clientVars, tokenVars, runs, said, stray>>

\* ... and the last to come back sets the token for all.
RefreshAccessToken(p) ==
  /\ pc[p] = "refresh"
  /\ token' = [token EXCEPT ![client[p].authConnector] = job[p].token]
  /\ Goto(p, "call", job[p])
  /\ UNCHANGED <<clientVars, issued, expired, callVars>>

\* The connection adds the token that its connector has at this moment.
Send(p) ==
  /\ pc[p] = "call"
  /\ Goto(p, "sent", [job[p] EXCEPT !.token = token[client[p].rpcConn]])
  /\ UNCHANGED <<clientVars, tokenVars, callVars>>

\* Any request may be refused, being malformed or for a method that is not
\* there; a PreMethod refuses it with the error of its choice.
Refusals(r) ==
  {"failed"} \cup IF ~r.checked THEN {}
                 ELSE IF r.token = Blank THEN {"unauth"}
                 ELSE IF r.token \in expired THEN {"expired"} ELSE {}

Admits(r) == r.checked => r.token # Blank /\ r.token \notin expired

\* A method that runs may answer with any code, those of the token included; an
\* error without a code is "unknown".
Handles(r, code) ==
  \/ /\ code \in Refusals(r)
     /\ UNCHANGED <<runs, said>>
  \/ /\ Admits(r)
     /\ runs' = [runs EXCEPT ![r.call] = @ + 1]
     /\ said' = [said EXCEPT ![r.call] = code]

Serve(p) ==
  /\ pc[p] = "sent"
  /\ \E code \in Codes :
       /\ Handles(job[p], code)
       /\ Goto(p, "reply", [job[p] EXCEPT !.code = code])
  /\ UNCHANGED <<clientVars, tokenVars, result, stray>>

\* A mutated form of Reply: any failure is tried again.
ReplyRetrying(p) ==
  /\ pc[p] = "reply"
  /\ IF job[p].code # "ok" /\ ~ job[p].last
     THEN Goto(p, "auth", [job[p] EXCEPT !.last = TRUE]) /\ UNCHANGED result
     ELSE Answer(p, job[p].code)
  /\ UNCHANGED <<clientVars, tokenVars, runs, said, stray>>

\* Only an expired token is renewed and tried again, once.
Reply(p) ==
  /\ pc[p] = "reply"
  /\ IF job[p].code = "expired" /\ ~ job[p].last
     THEN Goto(p, "auth", [job[p] EXCEPT !.last = TRUE]) /\ UNCHANGED result
     ELSE Answer(p, job[p].code)
  /\ UNCHANGED <<clientVars, tokenVars, runs, said, stray>>

\* The request, or its answer, takes too long or is lost.
TimesOut(p) ==
  /\ pc[p] \in {"sent", "reply"}
  /\ stray' = IF pc[p] = "sent"
              THEN stray \cup {job[p]} ELSE stray
  /\ Answer(p, "unknown")
  /\ UNCHANGED <<clientVars, tokenVars, runs, said>>

-----------------------------------------------------------------------------
\* The server.

ServeStray(s) ==
  /\ s \in stray
  /\ stray' = stray \ {s}
  /\ \E code \in Codes : Handles(s, code)
  /\ UNCHANGED <<clientVars, tokenVars, pc, job, result>>

Expire(t) ==
  /\ t \in 1..issued /\ t \notin expired
  /\ expired' = expired \cup {t}
  /\ UNCHANGED <<clientVars, token, issued, pc, job, callVars>>

Next ==
  \/ \E p \in Callers :
       \/ \E f \in Configs : NewClient(p, f)
       \/ RpcClientConnect(p) \/ DialFails(p) \/ StoreClient(p)
       \/ \E c \in Calls : Exec(p, c) \/ DataRequest(p, c)
       \/ Auth(p) \/ AuthFails(p) \/ RefreshAccessToken(p)
       \/ Send(p) \/ Serve(p) \/ Reply(p) \/ TimesOut(p)
  \/ \E s \in stray : ServeStray(s)
  \/ \E t \in Tokens : Expire(t)

Spec == Init /\ [][Next]_vars

-----------------------------------------------------------------------------
Dials    == [config : Configs]
Requests == [call : Calls, last : BOOLEAN, checked : BOOLEAN,
             token : 0..MaxToken, code : Codes \cup {"none"}]

Jobs     == {NoJob} \cup Dials \cup Requests

JobOK(p) ==
  /\ pc[p] = "idle" => job[p] = NoJob
  /\ pc[p] \in {"dial", "store"} =>
       /\ job[p] \in Dials /\ dbMut = p
       /\ clientConns[KeyOf[job[p].config]] = NoClient
  /\ pc[p] = "store" => rpcConns[KeyOf[job[p].config]] # NoClient
  /\ pc[p] \in {"auth", "refresh", "call", "sent", "reply"} =>
       /\ job[p] \in Requests /\ job[p].call[1] = p
       /\ result[job[p].call] = "none"
       /\ client[p] # NoClient

TypeOK ==
  /\ dbMut \in Callers \cup {Nobody}
  /\ clientConns \in [Keys -> Clients \cup {NoClient}]
  /\ rpcConns \in [Keys -> Connectors \cup {NoClient}]
  /\ token \in [Connectors -> 0..MaxToken]
  /\ issued \in 0..MaxToken /\ expired \subseteq 1..issued
  /\ client \in [Callers -> Clients \cup {NoClient}]
  /\ pc \in [Callers -> {"idle", "dial", "store", "auth", "refresh", "call",
                         "sent", "reply"}]
  /\ job \in [Callers -> Jobs]
  /\ \A p \in Callers : JobOK(p)
  /\ result \in [Calls -> Codes \cup {"new", "none"}]
  /\ runs \in [Calls -> Nat]
  /\ said \in [Calls -> Codes \cup {"none"}]
  /\ stray \subseteq Requests

\* The connection of every client sends the token that its Exec renews, and
\* all goroutines that ask for the same address and key share it.
OneConnector ==
  \A p \in Callers :
    client[p] # NoClient =>
      /\ client[p].rpcConn = client[p].authConnector
      /\ client[p] = clientConns[KeyOf[client[p].config]]

Promise == INSTANCE RemoteCall

\* Whatever expires, is lost, late or tried again, the method of a call runs at
\* most once, or twice if it answered "expired" itself; a coded answer is what
\* its last run said or that of a server that refused to run it, and ends the
\* call for good.
ImplementsRemoteCall == Promise!Spec
=============================================================================
