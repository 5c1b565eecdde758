----------------------------- MODULE ClientProofs -----------------------------
(***************************************************************************)
(* Theorems about the client side, for all values of the constants.        *)
(*   LynkClient: the client keeps the promise of RemoteCall for any number *)
(*     of goroutines and configurations, however often tokens expire and   *)
(*     requests are lost, late or sent again.                              *)
(*   ErrorTrip: the code of an error survives every trip to the client,    *)
(*     whatever the codes, the words and the hops.                         *)
(*   DataQuery: whatever calls put a query together, over any table, its   *)
(*     answer is what was asked for, and a row goes by its key only.       *)
(***************************************************************************)
EXTENDS LynkClient, ErrorTrip, DataQuery, TLAPS, FiniteSetTheorems

\* Where a call is before the server has answered it.
Asking == {"auth", "refresh", "call", "sent"}

\* The method of the call of r may run; it has run before the first try only ...
Pending(r) ==
  /\ runs[r.call] = 0 \/ (runs[r.call] = 1 /\ said[r.call] = "expired")
  /\ ~ r.last => runs[r.call] = 0

\* ... and a reply is what the run said, or a refusal.
Replied(r) ==
  /\ r.code \in Codes
  /\ \/ said[r.call] = r.code /\ (~ r.last => runs[r.call] = 1)
     \/ r.code # "ok" /\ Pending(r)

Unserved ==
  \A p \in Callers :
    /\ pc[p] \in Asking => Pending(job[p])
    /\ pc[p] = "reply" => Replied(job[p])

\* A method that has not run has said nothing, ...
Counted ==
  \A c \in Calls :
    /\ runs[c] = 0 => said[c] = "none"
    /\ result[c] = "new" => runs[c] = 0

\* ... and no call that timed out has more than one request left to serve.
Strays ==
  /\ \A s \in stray : result[s.call] = "unknown" /\ Pending(s)
  /\ \A s, t \in stray : s.call = t.call => s = t

IInv == TypeOK /\ Unserved /\ Counted /\ Strays

\* An abstract step, or none.
Promised == [Promise!Next]_(Promise!vars)

\* The goroutines have different calls.
LEMMA OwnCall ==
  ASSUME TypeOK, NEW p \in Callers, NEW r \in Callers, r # p,
         pc[p] \in {"auth", "refresh", "call", "sent", "reply"},
         pc[r] \in {"auth", "refresh", "call", "sent", "reply"}
  PROVE  job[p].call # job[r].call
  BY DEF TypeOK, JobOK

-----------------------------------------------------------------------------
LEMMA InitIInv == Init => IInv /\ Promise!Init
<1> SUFFICES ASSUME Init PROVE IInv /\ Promise!Init
  OBVIOUS
<1>1. TypeOK
  BY ClientAssumption
     DEF Init, TypeOK, JobOK, Jobs, Codes, Blank, Keys, Connectors
<1>2. Unserved /\ Counted /\ Strays
  BY DEF Init, Unserved, Counted, Strays, Asking
<1>3. Promise!Init
  BY DEF Init, Promise!Init
<1> QED
  BY <1>1, <1>2, <1>3 DEF IInv

\* The steps that leave the answers and the runs alone, and keep what is known
\* of the caller's call.
LEMMA QuietIInv ==
  ASSUME IInv, TypeOK', UNCHANGED callVars, NEW p \in Callers,
         \A r \in Callers : r # p => pc'[r] = pc[r] /\ job'[r] = job[r],
         pc'[p] \in Asking => Pending(job[p])',
         pc'[p] # "reply"
  PROVE  IInv' /\ Promised
<1>1. Unserved'
  BY DEF IInv, Unserved, Pending, Replied, callVars
<1>2. Counted' /\ Strays'
  BY DEF IInv, Counted, Strays, Pending, callVars
<1>3. Promised
  BY DEF Promised, Promise!vars, callVars
<1> QED
  BY <1>1, <1>2, <1>3 DEF IInv

\* The type of the caller's place and job, the other parts of the state given.
LEMMA PlaceType ==
  ASSUME TypeOK, NEW p \in Callers, NEW place, NEW j \in Jobs,
         pc' = [pc EXCEPT ![p] = place], job' = [job EXCEPT ![p] = j],
         place \in {"idle", "dial", "store", "auth", "refresh", "call", "sent", "reply"},
         UNCHANGED clientVars,
         \A r \in Callers :
           r # p /\ pc[r] \in {"auth", "refresh", "call", "sent", "reply"}
             => result'[job[r].call] = "none",
         JobOK(p)'
  PROVE  /\ pc' \in [Callers -> {"idle", "dial", "store", "auth", "refresh", "call",
                                "sent", "reply"}]
         /\ job' \in [Callers -> Jobs]
         /\ \A r \in Callers : JobOK(r)'
<1>1. ASSUME NEW r \in Callers, r # p PROVE JobOK(r)'
  BY <1>1 DEF TypeOK, JobOK, clientVars
<1> QED
  BY <1>1 DEF TypeOK

-----------------------------------------------------------------------------
\* NewClient.

LEMMA NewClientIInv ==
  ASSUME IInv, NEW p \in Callers, NEW f \in Configs, NewClient(p, f)
  PROVE  IInv' /\ Promised
<1>0. KeyOf[f] \in Keys
  BY ClientAssumption DEF Keys
<1>1. /\ UNCHANGED <<clientConns, rpcConns, tokenVars, callVars>>
      /\ pc[p] = "idle" /\ dbMut = Nobody
  BY DEF NewClient
<1>2. CASE clientConns[KeyOf[f]] # NoClient
  <2>1. /\ client' = [client EXCEPT ![p] = clientConns[KeyOf[f]]]
        /\ UNCHANGED <<dbMut, pc, job>>
    BY <1>2 DEF NewClient
  <2>2. client' \in [Callers -> Clients \cup {NoClient}]
    BY <1>0, <2>1 DEF IInv, TypeOK
  <2>3. \A r \in Callers : r # p => client'[r] = client[r]
    BY <2>1 DEF IInv, TypeOK
  <2>4. \A r \in Callers : JobOK(r)'
    BY <1>1, <2>1, <2>3 DEF IInv, TypeOK, JobOK, callVars
  <2>5. TypeOK'
    BY <1>1, <2>1, <2>2, <2>4 DEF IInv, TypeOK, callVars, tokenVars
  <2> QED
    BY <1>1, <2>1, <2>5, QuietIInv DEF Asking
<1>3. CASE clientConns[KeyOf[f]] = NoClient
  <2>1. /\ dbMut' = p /\ UNCHANGED client
        /\ pc' = [pc EXCEPT ![p] = "dial"]
        /\ job' = [job EXCEPT ![p] = [config |-> f]]
    BY <1>3 DEF NewClient, Goto
  <2>2. [config |-> f] \in Dials /\ [config |-> f] \in Jobs
    BY DEF Dials, Jobs
  <2>3. ASSUME NEW r \in Callers PROVE JobOK(r)'
    <3>1. CASE r = p
      BY <1>1, <1>3, <2>1, <2>2, <3>1 DEF IInv, TypeOK, JobOK
    <3>2. CASE r # p
      BY <1>1, <2>1, <3>2, ClientAssumption DEF IInv, TypeOK, JobOK, callVars
    <3> QED
      BY <3>1, <3>2
  <2>4. /\ pc' \in [Callers -> {"idle", "dial", "store", "auth", "refresh", "call",
                                "sent", "reply"}]
        /\ job' \in [Callers -> Jobs]
    BY <2>1, <2>2 DEF IInv, TypeOK
  <2>5. TypeOK'
    BY <1>1, <2>1, <2>3, <2>4 DEF IInv, TypeOK, callVars, tokenVars
  <2>6. /\ \A r \in Callers : r # p => pc'[r] = pc[r] /\ job'[r] = job[r]
        /\ pc'[p] = "dial"
    BY <2>1 DEF IInv, TypeOK
  <2> QED
    BY <1>1, <2>5, <2>6, QuietIInv DEF Asking
<1> QED
  BY <1>2, <1>3

LEMMA RpcClientConnectIInv ==
  ASSUME IInv, NEW p \in Callers, RpcClientConnect(p)
  PROVE  IInv' /\ Promised
<1>0. PICK f \in Configs : f = job[p].config
  BY DEF IInv, TypeOK, JobOK, Dials, RpcClientConnect
<1>1. /\ UNCHANGED <<dbMut, clientConns, client, tokenVars, callVars>>
      /\ pc[p] = "dial" /\ dbMut = p
      /\ rpcConns' = IF rpcConns[KeyOf[f]] = NoClient
                     THEN [rpcConns EXCEPT ![KeyOf[f]] = <<p, f>>]
                     ELSE rpcConns
      /\ pc' = [pc EXCEPT ![p] = "store"] /\ job' = job
  BY <1>0 DEF IInv, TypeOK, JobOK, RpcClientConnect, Goto
<1>2. KeyOf[f] \in Keys /\ <<p, f>> \in Connectors
  BY ClientAssumption DEF Keys, Connectors
<1>3. /\ rpcConns' \in [Keys -> Connectors \cup {NoClient}]
      /\ rpcConns'[KeyOf[f]] # NoClient
  BY <1>1, <1>2, ClientAssumption DEF IInv, TypeOK
<1>4. ASSUME NEW r \in Callers PROVE JobOK(r)'
  <2>1. CASE r = p
    BY <1>0, <1>1, <1>3, <2>1 DEF IInv, TypeOK, JobOK, callVars
  <2>2. CASE r # p
    BY <1>1, <2>2 DEF IInv, TypeOK, JobOK, callVars
  <2> QED
    BY <2>1, <2>2
<1>5. TypeOK'
  BY <1>1, <1>3, <1>4 DEF IInv, TypeOK, callVars, tokenVars
<1>6. /\ \A r \in Callers : r # p => pc'[r] = pc[r] /\ job'[r] = job[r]
      /\ pc'[p] = "store"
  BY <1>1 DEF IInv, TypeOK
<1> QED
  BY <1>1, <1>5, <1>6, QuietIInv DEF Asking

\* DialFails and StoreClient end NewClient: only they and NewClient take the
\* mutex or give it back.
LEMMA ReturnClientIInv ==
  ASSUME IInv, NEW p \in Callers, DialFails(p) \/ StoreClient(p)
  PROVE  IInv' /\ Promised
<1>1. /\ UNCHANGED <<rpcConns, tokenVars, callVars>>
      /\ pc[p] \in {"dial", "store"} /\ dbMut = p /\ dbMut' = Nobody
      /\ pc' = [pc EXCEPT ![p] = "idle"] /\ job' = [job EXCEPT ![p] = NoJob]
  BY DEF IInv, TypeOK, JobOK, DialFails, StoreClient, Goto
<1>2. /\ clientConns' \in [Keys -> Clients \cup {NoClient}]
      /\ client' \in [Callers -> Clients \cup {NoClient}]
      /\ \A r \in Callers : r # p => client'[r] = client[r]
  <2>1. CASE DialFails(p)
    BY <2>1 DEF IInv, TypeOK, DialFails
  <2>2. CASE StoreClient(p)
    <3>1. PICK f \in Configs : f = job[p].config
      BY <2>2 DEF IInv, TypeOK, JobOK, Dials, StoreClient
    <3>2. /\ KeyOf[f] \in Keys /\ <<p, f>> \in Connectors
          /\ rpcConns[KeyOf[f]] \in Connectors
      BY <2>2, <3>1, ClientAssumption
         DEF IInv, TypeOK, JobOK, StoreClient, Keys, Connectors
    <3>3. [config |-> f, authConnector |-> <<p, f>>, rpcConn |-> rpcConns[KeyOf[f]]]
            \in Clients
      BY <3>2 DEF Clients
    <3> QED
      BY <2>2, <3>1, <3>2, <3>3 DEF IInv, TypeOK, StoreClient
  <2> QED
    BY <2>1, <2>2
<1>3. ASSUME NEW r \in Callers PROVE JobOK(r)'
  <2>1. CASE r = p
    BY <1>1, <2>1 DEF IInv, TypeOK, JobOK
  <2>2. CASE r # p
    BY <1>1, <1>2, <2>2 DEF IInv, TypeOK, JobOK, callVars
  <2> QED
    BY <2>1, <2>2
<1>4. NoJob \in Jobs
  BY DEF Jobs
<1>5. TypeOK'
  BY <1>1, <1>2, <1>3, <1>4 DEF IInv, TypeOK, callVars, tokenVars
<1>6. /\ \A r \in Callers : r # p => pc'[r] = pc[r] /\ job'[r] = job[r]
      /\ pc'[p] = "idle"
  BY <1>1 DEF IInv, TypeOK
<1> QED
  BY <1>1, <1>5, <1>6, QuietIInv DEF Asking

-----------------------------------------------------------------------------
\* Tokens.

LEMMA BeginIInv ==
  ASSUME IInv, NEW p \in Callers, NEW c \in Calls, Exec(p, c) \/ DataRequest(p, c)
  PROVE  IInv' /\ Promised
<1>1. PICK place \in {"auth", "call"}, last \in BOOLEAN, checked \in BOOLEAN :
        /\ pc' = [pc EXCEPT ![p] = place]
        /\ job' = [job EXCEPT ![p] = Request(c, last, checked)]
  BY DEF Exec, DataRequest, Goto
<1>2. /\ UNCHANGED <<clientVars, tokenVars, runs, said, stray>>
      /\ pc[p] = "idle" /\ client[p] # NoClient /\ c[1] = p /\ result[c] = "new"
      /\ result' = [result EXCEPT ![c] = "none"]
  BY DEF Exec, DataRequest, Begins
<1>3. /\ Request(c, last, checked) \in Requests
      /\ Request(c, last, checked) \in Jobs
  BY ClientAssumption DEF Request, Requests, Jobs, Blank
<1>4. /\ result' \in [Calls -> Codes \cup {"new", "none"}]
      /\ \A d \in Calls : d # c => result'[d] = result[d]
      /\ result'[c] = "none"
  BY <1>2 DEF IInv, TypeOK
<1>5. ASSUME NEW r \in Callers, r # p,
             pc[r] \in {"auth", "refresh", "call", "sent", "reply"}
      PROVE  result'[job[r].call] = "none"
  BY <1>2, <1>4, <1>5 DEF IInv, TypeOK, JobOK
<1>6. JobOK(p)'
  BY <1>1, <1>2, <1>3, <1>4 DEF IInv, TypeOK, JobOK, Request, clientVars
<1>7. TypeOK'
  BY <1>1, <1>2, <1>3, <1>4, <1>5, <1>6, PlaceType
     DEF IInv, TypeOK, clientVars, tokenVars
<1>8. /\ pc'[p] \in {"auth", "call"} /\ job'[p].call = c /\ runs[c] = 0
      /\ \A r \in Callers : r # p => pc'[r] = pc[r] /\ job'[r] = job[r]
  BY <1>1, <1>2 DEF IInv, TypeOK, Counted, Request
<1>9. Unserved'
  BY <1>2, <1>8 DEF IInv, Unserved, Pending, Replied, Asking
<1>10. Counted' /\ Strays'
  BY <1>2, <1>4, <1>8 DEF IInv, TypeOK, Counted, Strays, Pending, Requests
<1>11. Promise!Ask(c)
  BY <1>2 DEF Promise!Ask
<1>12. Promised
  BY <1>11 DEF Promised, Promise!Next, Codes
<1> QED
  BY <1>7, <1>9, <1>10, <1>12 DEF IInv

\* The steps of tryAuth and of the request that change tokens and the caller's
\* place, but no answer.
LEMMA TokenIInv ==
  ASSUME IInv, NEW p \in Callers, Auth(p) \/ RefreshAccessToken(p) \/ Send(p)
  PROVE  IInv' /\ Promised
<1>0. /\ pc[p] \in {"auth", "refresh", "call"} /\ job[p] \in Requests
      /\ job[p].call[1] = p /\ result[job[p].call] = "none" /\ client[p] # NoClient
      /\ client[p] \in Clients /\ Pending(job[p])
  BY DEF IInv, TypeOK, JobOK, Unserved, Asking, Auth, RefreshAccessToken, Send
<1>1. /\ token[client[p].rpcConn] \in 0..MaxToken
      /\ job[p].token \in 0..MaxToken
      /\ client[p].authConnector \in Connectors
  BY <1>0 DEF IInv, TypeOK, Clients, Requests
<1>2. PICK place \in {"refresh", "call", "sent"}, t \in 0..MaxToken :
        /\ pc' = [pc EXCEPT ![p] = place]
        /\ job' = [job EXCEPT ![p] = [job[p] EXCEPT !.token = t]]
  <2>1. CASE Auth(p)
    <3>1. issued + 1 \in 0..MaxToken
      BY <2>1, ClientAssumption DEF IInv, TypeOK, Auth
    <3> QED
      BY <2>1, <3>1 DEF Auth, Goto
  <2>2. CASE RefreshAccessToken(p)
    <3>1. job[p] = [job[p] EXCEPT !.token = job[p].token]
      BY <1>0 DEF Requests
    <3> QED
      BY <2>2, <3>1, <1>1 DEF RefreshAccessToken, Goto
  <2>3. CASE Send(p)
    BY <2>3, <1>1 DEF Send, Goto
  <2> QED
    BY <2>1, <2>2, <2>3
<1>3. DEFINE j == [job[p] EXCEPT !.token = t]
<1>4. j \in Requests /\ j \in Jobs /\ j.call = job[p].call /\ j.last = job[p].last
  BY <1>0 DEF Requests, Jobs
<1>5. /\ UNCHANGED <<clientVars, callVars>>
      /\ token' \in [Connectors -> 0..MaxToken]
      /\ issued' \in 0..MaxToken /\ expired' \subseteq 1..issued'
  <2>1. CASE Auth(p)
    BY <2>1, ClientAssumption DEF IInv, TypeOK, Auth
  <2>2. CASE RefreshAccessToken(p)
    BY <2>2, <1>1 DEF IInv, TypeOK, RefreshAccessToken
  <2>3. CASE Send(p)
    BY <2>3 DEF IInv, TypeOK, Send, tokenVars
  <2> QED
    BY <2>1, <2>2, <2>3
<1> HIDE DEF j
<1>6. pc' = [pc EXCEPT ![p] = place] /\ job' = [job EXCEPT ![p] = j]
  BY <1>2 DEF j
<1>7. pc'[p] = place /\ job'[p] = j
  BY <1>6 DEF IInv, TypeOK
<1>8. JobOK(p)'
  BY <1>0, <1>4, <1>5, <1>7 DEF JobOK, clientVars, callVars
<1>9. ASSUME NEW r \in Callers, r # p,
             pc[r] \in {"auth", "refresh", "call", "sent", "reply"}
      PROVE  result'[job[r].call] = "none"
  BY <1>5, <1>9 DEF IInv, TypeOK, JobOK, callVars
<1>10. TypeOK'
  BY <1>4, <1>5, <1>6, <1>8, <1>9, PlaceType DEF IInv, TypeOK, clientVars, callVars
<1>11. \A r \in Callers : r # p => pc'[r] = pc[r] /\ job'[r] = job[r]
  BY <1>6 DEF IInv, TypeOK
<1>12. pc'[p] # "reply" /\ Pending(job[p])'
  BY <1>0, <1>4, <1>5, <1>7 DEF Pending, callVars
<1> QED
  BY <1>5, <1>10, <1>11, <1>12, QuietIInv

LEMMA ExpireIInv ==
  ASSUME IInv, NEW t \in Tokens, Expire(t)
  PROVE  IInv' /\ Promised
<1>1. /\ UNCHANGED <<clientVars, token, issued, pc, job, callVars>>
      /\ expired' \subseteq 1..issued
  BY DEF IInv, TypeOK, Expire
<1>2. TypeOK'
  BY <1>1 DEF IInv, TypeOK, JobOK, clientVars, callVars
<1>3. Unserved' /\ Counted' /\ Strays'
  BY <1>1 DEF IInv, Unserved, Counted, Strays, Pending, Replied, callVars
<1>4. Promised
  BY <1>1 DEF Promised, Promise!vars, callVars
<1> QED
  BY <1>2, <1>3, <1>4 DEF IInv

-----------------------------------------------------------------------------
\* Answers.

\* An answer that the last run said, or that says nothing of it, ends the call.
LEMMA AnswerIInv ==
  ASSUME IInv, NEW p \in Callers, NEW r \in Codes,
         pc[p] \in {"auth", "refresh", "sent", "reply"},
         Answer(p, r), UNCHANGED <<clientVars, tokenVars, runs, said>>,
         \/ r = "unknown"
         \/ r = said[job[p].call]
         \/ r # "ok" /\ said[job[p].call] \in {"none", "expired"},
         \/ stray' = stray
         \/ r = "unknown" /\ Pending(job[p]) /\ stray' = stray \cup {job[p]}
  PROVE  IInv' /\ Promised
<1>0. PICK c \in Calls : c = job[p].call
  BY DEF IInv, TypeOK, JobOK, Requests
<1>1. /\ c[1] = p /\ result[c] = "none" /\ job[p] \in Requests
      /\ pc' = [pc EXCEPT ![p] = "idle"] /\ job' = [job EXCEPT ![p] = NoJob]
      /\ result' = [result EXCEPT ![c] = r]
  BY <1>0 DEF IInv, TypeOK, JobOK, Answer, Goto
<1>2. /\ result' \in [Calls -> Codes \cup {"new", "none"}]
      /\ \A d \in Calls : d # c => result'[d] = result[d]
      /\ result'[c] = r
  BY <1>1 DEF IInv, TypeOK
<1>3. /\ stray' \subseteq Requests
      /\ \A s \in stray' : s \in stray \/ (s = job[p] /\ r = "unknown" /\ Pending(s))
      /\ \A s \in stray : s.call # c
  BY <1>0, <1>1 DEF IInv, TypeOK, Strays
<1>4. ASSUME NEW q \in Callers, q # p,
             pc[q] \in {"auth", "refresh", "call", "sent", "reply"}
      PROVE  result'[job[q].call] = "none"
  BY <1>0, <1>2, <1>4, OwnCall DEF IInv, TypeOK, JobOK, Requests
<1>5. NoJob \in Jobs /\ pc'[p] = "idle" /\ job'[p] = NoJob
  BY <1>1 DEF IInv, TypeOK, Jobs
<1>6. TypeOK'
  BY <1>1, <1>2, <1>3, <1>4, <1>5, PlaceType
     DEF IInv, TypeOK, JobOK, clientVars, tokenVars
<1>7. Unserved'
  BY <1>1, <1>5 DEF IInv, TypeOK, Unserved, Pending, Replied, Asking
<1>8. Counted'
  BY <1>0, <1>2 DEF IInv, Counted, Codes
<1>9. Strays'
  <2>1. ASSUME NEW s \in stray' PROVE result'[s.call] = "unknown" /\ Pending(s)'
    BY <2>1, <1>0, <1>1, <1>2, <1>3 DEF IInv, TypeOK, Strays, Pending, Requests
  <2>2. ASSUME NEW s \in stray', NEW t \in stray', s.call = t.call PROVE s = t
    BY <2>2, <1>0, <1>3 DEF IInv, Strays
  <2> QED
    BY <2>1, <2>2 DEF Strays
<1>10. Promise!Answer(c, r)
  BY <1>0, <1>1 DEF Promise!Answer
<1> QED
  BY <1>6, <1>7, <1>8, <1>9, <1>10 DEF IInv, Promised, Promise!Next

\* Before the server answers, the method has said nothing but "expired".
LEMMA PendingSaid ==
  ASSUME IInv, NEW r \in Requests, Pending(r)
  PROVE  said[r.call] \in {"none", "expired"}
  BY DEF IInv, Counted, Pending, Requests

LEMMA AuthFailsIInv ==
  ASSUME IInv, NEW p \in Callers, AuthFails(p)
  PROVE  IInv' /\ Promised
<1>1. Pending(job[p]) /\ job[p] \in Requests /\ "unauth" \in Codes
  BY DEF IInv, TypeOK, JobOK, Unserved, Asking, AuthFails, Codes
<1>2. said[job[p].call] \in {"none", "expired"}
  BY <1>1, PendingSaid
<1> QED
  BY <1>1, <1>2, AnswerIInv DEF AuthFails

LEMMA TimesOutIInv ==
  ASSUME IInv, NEW p \in Callers, TimesOut(p)
  PROVE  IInv' /\ Promised
<1>1. "unknown" \in Codes
  BY DEF Codes
<1>2. pc[p] = "sent" => Pending(job[p])
  BY DEF IInv, Unserved, Asking
<1> QED
  BY <1>1, <1>2, AnswerIInv DEF TimesOut

LEMMA ReplyIInv ==
  ASSUME IInv, NEW p \in Callers, Reply(p)
  PROVE  IInv' /\ Promised
<1>1. /\ pc[p] = "reply" /\ UNCHANGED <<clientVars, tokenVars, runs, said, stray>>
      /\ job[p] \in Requests /\ job[p].code \in Codes /\ Replied(job[p])
  BY DEF IInv, TypeOK, JobOK, Unserved, Reply, Replied
<1>2. CASE job[p].code = "expired" /\ ~ job[p].last
  <2> DEFINE j == [job[p] EXCEPT !.last = TRUE]
  <2>1. /\ pc' = [pc EXCEPT ![p] = "auth"] /\ job' = [job EXCEPT ![p] = j]
        /\ UNCHANGED result
    BY <1>2 DEF Reply, Goto
  <2>2. j \in Requests /\ j \in Jobs /\ j.call = job[p].call /\ j.last
    BY <1>1 DEF Requests, Jobs
  <2> HIDE DEF j
  <2>3. /\ pc'[p] = "auth" /\ job'[p] = j
        /\ \A r \in Callers : r # p => pc'[r] = pc[r] /\ job'[r] = job[r]
    BY <2>1 DEF IInv, TypeOK
  <2>4. JobOK(p)'
    BY <1>1, <2>1, <2>2, <2>3 DEF IInv, TypeOK, JobOK, clientVars
  <2>5. ASSUME NEW r \in Callers, r # p,
               pc[r] \in {"auth", "refresh", "call", "sent", "reply"}
        PROVE  result'[job[r].call] = "none"
    BY <2>1, <2>5 DEF IInv, TypeOK, JobOK
  <2>6. TypeOK'
    BY <1>1, <2>1, <2>2, <2>4, <2>5, PlaceType DEF IInv, TypeOK, clientVars, tokenVars
  <2>7. Pending(job[p])'
    BY <1>1, <1>2, <2>2, <2>3 DEF Replied, Pending
  <2> QED
    BY <1>1, <2>1, <2>3, <2>6, <2>7, QuietIInv DEF callVars
<1>3. CASE ~ (job[p].code = "expired" /\ ~ job[p].last)
  <2>1. Answer(p, job[p].code)
    BY <1>3 DEF Reply
  <2>2. \/ job[p].code = said[job[p].call]
        \/ job[p].code # "ok" /\ said[job[p].call] \in {"none", "expired"}
    BY <1>1, PendingSaid DEF Replied
  <2> QED
    BY <1>1, <2>1, <2>2, AnswerIInv
<1> QED
  BY <1>2, <1>3

-----------------------------------------------------------------------------
\* The server.

\* What serving r with an answer leaves: the call is refused or run once more.
Served(r, told) ==
  \/ told # "ok" /\ runs'[r.call] = runs[r.call] /\ said'[r.call] = said[r.call]
  \/ runs'[r.call] = runs[r.call] + 1 /\ said'[r.call] = told

\* A call that may run is run or refused.
LEMMA HandlesFact ==
  ASSUME IInv, NEW r \in Requests, NEW told \in Codes, Handles(r, told),
         Pending(r), result[r.call] \in {"none", "unknown"}, UNCHANGED result
  PROVE  /\ runs' \in [Calls -> Nat] /\ said' \in [Calls -> Codes \cup {"none"}]
         /\ Served(r, told)
         /\ \A d \in Calls : d # r.call => runs'[d] = runs[d] /\ said'[d] = said[d]
         /\ Counted'
         /\ Promised
<1>0. PICK c \in Calls : c = r.call
  BY DEF Requests
<1>1. CASE told \in Refusals(r) /\ UNCHANGED <<runs, said>>
  <2>1. told # "ok"
    BY <1>1 DEF Refusals
  <2> QED
    BY <1>0, <1>1, <2>1
       DEF IInv, TypeOK, Served, Counted, Promised, Promise!vars
<1>2. CASE /\ runs' = [runs EXCEPT ![c] = @ + 1]
           /\ said' = [said EXCEPT ![c] = told]
  <2>1. /\ runs' \in [Calls -> Nat] /\ said' \in [Calls -> Codes \cup {"none"}]
        /\ runs'[c] = runs[c] + 1 /\ said'[c] = told /\ runs'[c] # 0
        /\ \A d \in Calls : d # c => runs'[d] = runs[d] /\ said'[d] = said[d]
    BY <1>2 DEF IInv, TypeOK
  <2>2. result[c] # "new"
    BY <1>0
  <2>3. Counted'
    BY <2>1, <2>2 DEF IInv, Counted
  <2>4. Promise!Run(c, told)
    BY <1>0, <1>2 DEF Promise!Run, Promise!MayRun, Pending
  <2> QED
    BY <1>0, <2>1, <2>3, <2>4 DEF Served, Promised, Promise!Next
<1> QED
  BY <1>0, <1>1, <1>2 DEF Handles

LEMMA ServeIInv ==
  ASSUME IInv, NEW p \in Callers, Serve(p)
  PROVE  IInv' /\ Promised
<1>1. PICK told \in Codes :
        /\ Handles(job[p], told)
        /\ Goto(p, "reply", [job[p] EXCEPT !.code = told])
  BY DEF Serve
<1>2. PICK c \in Calls : c = job[p].call
  BY DEF IInv, TypeOK, JobOK, Requests, Serve
<1>3. /\ pc[p] = "sent" /\ UNCHANGED <<clientVars, tokenVars, result, stray>>
      /\ job[p] \in Requests /\ c[1] = p /\ client[p] # NoClient
      /\ Pending(job[p]) /\ result[c] = "none"
  BY <1>2 DEF IInv, TypeOK, JobOK, Unserved, Asking, Serve
<1>4. /\ runs' \in [Calls -> Nat] /\ said' \in [Calls -> Codes \cup {"none"}]
      /\ Served(job[p], told)
      /\ \A d \in Calls : d # c => runs'[d] = runs[d] /\ said'[d] = said[d]
      /\ Counted' /\ Promised
  BY <1>1, <1>2, <1>3, HandlesFact
<1> DEFINE j == [job[p] EXCEPT !.code = told]
<1>5. /\ j \in Requests /\ j \in Jobs /\ j.call = c /\ j.code = told
      /\ j.last = job[p].last
  BY <1>2, <1>3 DEF Requests, Jobs
<1>6. pc' = [pc EXCEPT ![p] = "reply"] /\ job' = [job EXCEPT ![p] = j]
  BY <1>1 DEF Goto
<1> HIDE DEF j
<1>7. /\ pc'[p] = "reply" /\ job'[p] = j
      /\ \A r \in Callers : r # p => pc'[r] = pc[r] /\ job'[r] = job[r]
  BY <1>6 DEF IInv, TypeOK
<1>8. JobOK(p)'
  BY <1>3, <1>5, <1>7 DEF JobOK, clientVars
<1>9. ASSUME NEW r \in Callers, r # p,
             pc[r] \in {"auth", "refresh", "call", "sent", "reply"}
      PROVE  result'[job[r].call] = "none" /\ job[r].call # c /\ job[r].call \in Calls
  BY <1>2, <1>3, <1>9, OwnCall DEF IInv, TypeOK, JobOK, Requests
<1>10. TypeOK'
  <2>1. \A r \in Callers : r # p /\ pc[r] \in {"auth", "refresh", "call", "sent", "reply"}
          => result'[job[r].call] = "none"
    BY <1>9
  <2>2. /\ pc' \in [Callers -> {"idle", "dial", "store", "auth", "refresh", "call",
                                "sent", "reply"}]
        /\ job' \in [Callers -> Jobs]
        /\ \A r \in Callers : JobOK(r)'
    BY <2>1, <1>3, <1>5, <1>6, <1>8, PlaceType DEF IInv
  <2> QED
    BY <2>2, <1>3, <1>4 DEF IInv, TypeOK, clientVars, tokenVars
<1>11. Unserved'
  <2>1. Replied(job[p])'
    BY <1>2, <1>3, <1>4, <1>5, <1>7 DEF Replied, Pending, Served
  <2>2. ASSUME NEW r \in Callers, r # p
        PROVE  /\ pc'[r] \in Asking => Pending(job[r])'
               /\ pc'[r] = "reply" => Replied(job[r])'
    BY <2>2, <1>4, <1>7, <1>9 DEF IInv, Unserved, Pending, Replied, Asking
  <2> QED
    BY <2>1, <2>2, <1>7 DEF Unserved, Asking
<1>12. Strays'
  <2>1. \A s \in stray : s.call \in Calls /\ s.call # c
    BY <1>3 DEF IInv, TypeOK, Strays, Requests
  <2> QED
    BY <1>3, <1>4, <2>1 DEF IInv, Strays, Pending
<1> QED
  BY <1>4, <1>10, <1>11, <1>12 DEF IInv

LEMMA ServeStrayIInv ==
  ASSUME IInv, NEW s \in stray, ServeStray(s)
  PROVE  IInv' /\ Promised
<1>1. PICK told \in Codes : Handles(s, told)
  BY DEF ServeStray
<1>2. /\ UNCHANGED <<clientVars, tokenVars, pc, job, result>> /\ stray' = stray \ {s}
      /\ s \in Requests /\ s.call \in Calls
      /\ result[s.call] = "unknown" /\ Pending(s)
  BY DEF IInv, TypeOK, Strays, ServeStray, Requests
<1>3. /\ runs' \in [Calls -> Nat] /\ said' \in [Calls -> Codes \cup {"none"}]
      /\ \A d \in Calls : d # s.call => runs'[d] = runs[d] /\ said'[d] = said[d]
      /\ Counted' /\ Promised
  BY <1>1, <1>2, HandlesFact
<1>4. TypeOK'
  BY <1>2, <1>3 DEF IInv, TypeOK, JobOK, clientVars, tokenVars
<1>5. Unserved'
  <2>1. ASSUME NEW p \in Callers, pc[p] \in {"auth", "refresh", "call", "sent", "reply"}
        PROVE  job[p].call \in Calls /\ job[p].call # s.call
    BY <1>2, <2>1 DEF IInv, TypeOK, JobOK, Requests
  <2> QED
    BY <1>2, <1>3, <2>1 DEF IInv, Unserved, Pending, Replied, Asking
<1>6. Strays'
  <2>1. \A t \in stray' : t \in stray /\ t.call \in Calls /\ t.call # s.call
    BY <1>2 DEF IInv, TypeOK, Strays, Requests
  <2> QED
    BY <1>2, <1>3, <2>1 DEF IInv, Strays, Pending
<1> QED
  BY <1>3, <1>4, <1>5, <1>6 DEF IInv

-----------------------------------------------------------------------------
LEMMA NextIInv == IInv /\ [Next]_vars => IInv' /\ Promised
<1> SUFFICES ASSUME IInv, [Next]_vars PROVE IInv' /\ Promised
  OBVIOUS
<1>1. ASSUME NEW p \in Callers, NEW f \in Configs, NewClient(p, f)
      PROVE  IInv' /\ Promised
  BY <1>1, NewClientIInv
<1>2. ASSUME NEW p \in Callers, RpcClientConnect(p) PROVE IInv' /\ Promised
  BY <1>2, RpcClientConnectIInv
<1>3. ASSUME NEW p \in Callers, DialFails(p) \/ StoreClient(p) PROVE IInv' /\ Promised
  BY <1>3, ReturnClientIInv
<1>4. ASSUME NEW p \in Callers, NEW c \in Calls, Exec(p, c) \/ DataRequest(p, c)
      PROVE  IInv' /\ Promised
  BY <1>4, BeginIInv
<1>5. ASSUME NEW p \in Callers, Auth(p) \/ RefreshAccessToken(p) \/ Send(p)
      PROVE  IInv' /\ Promised
  BY <1>5, TokenIInv
<1>6. ASSUME NEW p \in Callers, AuthFails(p) PROVE IInv' /\ Promised
  BY <1>6, AuthFailsIInv
<1>7. ASSUME NEW p \in Callers, Serve(p) PROVE IInv' /\ Promised
  BY <1>7, ServeIInv
<1>8. ASSUME NEW p \in Callers, Reply(p) PROVE IInv' /\ Promised
  BY <1>8, ReplyIInv
<1>9. ASSUME NEW p \in Callers, TimesOut(p) PROVE IInv' /\ Promised
  BY <1>9, TimesOutIInv
<1>10. ASSUME NEW s \in stray, ServeStray(s) PROVE IInv' /\ Promised
  BY <1>10, ServeStrayIInv
<1>11. ASSUME NEW t \in Tokens, Expire(t) PROVE IInv' /\ Promised
  BY <1>11, ExpireIInv
<1>12. CASE UNCHANGED vars
  <2>1. UNCHANGED <<clientVars, tokenVars, pc, job, callVars>>
    BY <1>12 DEF vars
  <2>2. TypeOK'
    BY <2>1 DEF IInv, TypeOK, JobOK, clientVars, tokenVars, callVars
  <2>3. Unserved' /\ Counted' /\ Strays'
    BY <2>1 DEF IInv, Unserved, Counted, Strays, Pending, Replied, callVars
  <2>4. Promised
    BY <2>1 DEF Promised, Promise!vars, callVars
  <2> QED
    BY <2>2, <2>3, <2>4 DEF IInv
<1>13. ASSUME NEW p \in Callers,
              \/ \E f \in Configs : NewClient(p, f)
              \/ RpcClientConnect(p) \/ DialFails(p) \/ StoreClient(p)
              \/ \E c \in Calls : Exec(p, c) \/ DataRequest(p, c)
              \/ Auth(p) \/ AuthFails(p) \/ RefreshAccessToken(p)
              \/ Send(p) \/ Serve(p) \/ Reply(p) \/ TimesOut(p)
       PROVE  IInv' /\ Promised
  <2>1. CASE \E f \in Configs : NewClient(p, f)
    BY <2>1, <1>1
  <2>2. CASE RpcClientConnect(p) \/ DialFails(p) \/ StoreClient(p)
    BY <2>2, <1>2, <1>3
  <2>3. CASE \E c \in Calls : Exec(p, c) \/ DataRequest(p, c)
    BY <2>3, <1>4
  <2>4. CASE Auth(p) \/ AuthFails(p) \/ RefreshAccessToken(p) \/ Send(p)
    BY <2>4, <1>5, <1>6
  <2>5. CASE Serve(p) \/ Reply(p) \/ TimesOut(p)
    BY <2>5, <1>7, <1>8, <1>9
  <2> QED
    BY <1>13, <2>1, <2>2, <2>3, <2>4, <2>5
<1> QED
  BY <1>10, <1>11, <1>12, <1>13 DEF Next

\* Every state of the client is well formed; the mutex of NewClient belongs to
\* the goroutine that is making a client.
THEOREM ClientTypeCorrect == Spec => []TypeOK
<1>1. Init => IInv
  BY InitIInv
<1>2. IInv /\ [Next]_vars => IInv'
  BY NextIInv
<1>3. IInv => TypeOK
  BY DEF IInv
<1> QED
  BY <1>1, <1>2, <1>3, PTL DEF Spec

\* Client.Exec, DataQuery and the like run a method at most once for each call,
\* or twice if it said "expired" itself; a coded answer is what the last run
\* said or a refusal to run, and nothing runs after it.
THEOREM ClientImplementsRemoteCall == Spec => ImplementsRemoteCall
<1>1. Init => IInv /\ Promise!Init
  BY InitIInv
<1>2. IInv /\ [Next]_vars => IInv' /\ [Promise!Next]_(Promise!vars)
  BY NextIInv DEF Promised
<1> QED
  BY <1>1, <1>2, PTL DEF Spec, ImplementsRemoteCall, Promise!Spec

-----------------------------------------------------------------------------
\* The cache of clients and that of connections agree, but for the client that
\* is being made.

Making(p, k) == pc[p] = "store" /\ KeyOf[job[p].config] = k

Conns ==
  /\ \A k \in Keys : clientConns[k] # NoClient =>
       /\ KeyOf[clientConns[k].config] = k
       /\ clientConns[k].rpcConn = clientConns[k].authConnector
  /\ \A k \in Keys : clientConns[k] = NoClient /\ rpcConns[k] # NoClient
       => \E p \in Callers : Making(p, k)
  /\ \A p \in Callers, k \in Keys : Making(p, k) => rpcConns[k] = <<p, job[p].config>>
  /\ \A p \in Callers : client[p] # NoClient =>
       client[p] = clientConns[KeyOf[client[p].config]]

LEMMA InitConns == Init => Conns
  BY DEF Init, Conns, Making

LEMMA NewClientConns ==
  ASSUME TypeOK, Conns, NEW p \in Callers, NEW f \in Configs, NewClient(p, f)
  PROVE  Conns'
<1>0. KeyOf[f] \in Keys
  BY ClientAssumption DEF Keys
<1>1. UNCHANGED <<clientConns, rpcConns>> /\ pc[p] = "idle"
  BY DEF NewClient
<1>2. CASE clientConns[KeyOf[f]] # NoClient
  <2>1. UNCHANGED <<pc, job>> /\ client' = [client EXCEPT ![p] = clientConns[KeyOf[f]]]
    BY <1>2 DEF NewClient
  <2>2. \A r \in Callers :
          client'[r] = IF r = p THEN clientConns[KeyOf[f]] ELSE client[r]
    BY <2>1 DEF TypeOK
  <2>3. KeyOf[clientConns[KeyOf[f]].config] = KeyOf[f]
    BY <1>0, <1>2 DEF Conns
  <2>4. \A r \in Callers, k \in Keys : Making(r, k)' <=> Making(r, k)
    BY <2>1 DEF Making
  <2>5. ASSUME NEW r \in Callers, client'[r] # NoClient
        PROVE  client'[r] = clientConns'[KeyOf[client'[r].config]]
    <3>1. CASE r = p
      BY <1>1, <2>2, <2>3, <3>1
    <3>2. CASE r # p
      BY <1>1, <2>2, <2>5, <3>2 DEF Conns
    <3> QED
      BY <3>1, <3>2
  <2>6. /\ \A k \in Keys : clientConns[k] # NoClient =>
             /\ KeyOf[clientConns[k].config] = k
             /\ clientConns[k].rpcConn = clientConns[k].authConnector
        /\ \A k \in Keys : clientConns[k] = NoClient /\ rpcConns[k] # NoClient
             => \E q \in Callers : Making(q, k)
        /\ \A q \in Callers, k \in Keys :
             Making(q, k) => rpcConns[k] = <<q, job[q].config>>
    BY DEF Conns
  <2> QED
    BY <1>1, <2>1, <2>4, <2>5, <2>6 DEF Conns
<1>3. CASE clientConns[KeyOf[f]] = NoClient
  <2>1. \A r \in Callers, k \in Keys : Making(r, k)' <=> Making(r, k)
    BY <1>1, <1>3 DEF TypeOK, Making, NewClient, Goto
  <2>2. \A r \in Callers, k \in Keys : Making(r, k) => job'[r] = job[r]
    BY <1>1, <1>3 DEF TypeOK, Making, NewClient, Goto
  <2>3. client' = client
    BY <1>3 DEF NewClient
  <2> QED
    BY <1>1, <2>1, <2>2, <2>3 DEF Conns
<1> QED
  BY <1>2, <1>3

\* Whoever makes a client holds the mutex, so there is one connection to make.
LEMMA ConnectConns ==
  ASSUME TypeOK, Conns, NEW p \in Callers, RpcClientConnect(p)
  PROVE  Conns'
<1>1. PICK f \in Configs : f = job[p].config
  BY DEF TypeOK, JobOK, Dials, RpcClientConnect
<1>2. /\ UNCHANGED <<clientConns, client>> /\ pc[p] = "dial" /\ dbMut = p
      /\ KeyOf[f] \in Keys /\ clientConns[KeyOf[f]] = NoClient
      /\ pc' = [pc EXCEPT ![p] = "store"] /\ job' = [job EXCEPT ![p] = job[p]]
  BY <1>1, ClientAssumption DEF TypeOK, JobOK, RpcClientConnect, Goto, Keys
<1>3. \A r \in Callers, k \in Keys : ~ Making(r, k)
  BY <1>2 DEF TypeOK, JobOK, Making
<1>4. rpcConns[KeyOf[f]] = NoClient
  BY <1>2, <1>3 DEF Conns
<1>5. rpcConns' = [rpcConns EXCEPT ![KeyOf[f]] = <<p, f>>]
  BY <1>1, <1>4 DEF RpcClientConnect
<1>6. \A r \in Callers, k \in Keys : Making(r, k)' <=> (r = p /\ k = KeyOf[f])
  BY <1>1, <1>2, <1>3 DEF TypeOK, Making
<1>7. job'[p].config = f
  BY <1>1, <1>2 DEF TypeOK
<1>8. \A k \in Keys : rpcConns'[k] = IF k = KeyOf[f] THEN <<p, f>> ELSE rpcConns[k]
  BY <1>5, <1>2 DEF TypeOK
<1> QED
  BY <1>2, <1>3, <1>6, <1>7, <1>8 DEF Conns

LEMMA DialFailsConns ==
  ASSUME TypeOK, Conns, NEW p \in Callers, DialFails(p)
  PROVE  Conns'
<1>1. /\ UNCHANGED <<clientConns, rpcConns, client>> /\ pc[p] = "dial"
      /\ pc' = [pc EXCEPT ![p] = "idle"] /\ job' = [job EXCEPT ![p] = NoJob]
  BY DEF DialFails, Goto
<1>2. \A r \in Callers, k \in Keys : Making(r, k)' <=> Making(r, k)
  BY <1>1 DEF TypeOK, Making
<1>3. \A r \in Callers, k \in Keys : Making(r, k) => job'[r] = job[r]
  BY <1>1 DEF TypeOK, Making
<1> QED
  BY <1>1, <1>2, <1>3 DEF Conns

LEMMA StoreClientConns ==
  ASSUME TypeOK, Conns, NEW p \in Callers, StoreClient(p)
  PROVE  Conns'
<1>1. PICK f \in Configs : f = job[p].config
  BY DEF TypeOK, JobOK, Dials, StoreClient
<1>2. /\ rpcConns' = rpcConns /\ pc[p] = "store" /\ dbMut = p
      /\ KeyOf[f] \in Keys /\ clientConns[KeyOf[f]] = NoClient
      /\ pc' = [pc EXCEPT ![p] = "idle"] /\ job' = [job EXCEPT ![p] = NoJob]
  BY <1>1, ClientAssumption DEF TypeOK, JobOK, StoreClient, Goto, Keys
<1>3. rpcConns[KeyOf[f]] = <<p, f>>
  BY <1>1, <1>2 DEF Conns, Making
<1> DEFINE new == [config |-> f, authConnector |-> <<p, f>>, rpcConn |-> <<p, f>>]
<1>4. /\ clientConns' = [clientConns EXCEPT ![KeyOf[f]] = new]
      /\ client' = [client EXCEPT ![p] = new]
  BY <1>1, <1>3 DEF StoreClient
<1>5. \A r \in Callers, k \in Keys : Making(r, k) <=> (r = p /\ k = KeyOf[f])
  BY <1>1, <1>2 DEF TypeOK, JobOK, Making
<1>6. \A r \in Callers, k \in Keys : ~ Making(r, k)'
  BY <1>2 DEF TypeOK, JobOK, Making
<1>7. new.config = f /\ new.authConnector = new.rpcConn /\ new # NoClient
  BY ClientAssumption DEF Clients, Connectors
<1> HIDE DEF new
<1>8. /\ \A k \in Keys : clientConns'[k] = IF k = KeyOf[f] THEN new ELSE clientConns[k]
      /\ \A r \in Callers : client'[r] = IF r = p THEN new ELSE client[r]
  BY <1>2, <1>4 DEF TypeOK
<1>9. \A r \in Callers : client[r] # NoClient => KeyOf[client[r].config] # KeyOf[f]
  BY <1>2 DEF Conns
<1>10. \A r \in Callers : client[r] # NoClient => KeyOf[client[r].config] \in Keys
  BY ClientAssumption DEF TypeOK, Clients, Keys
<1> QED
  BY <1>2, <1>5, <1>6, <1>7, <1>8, <1>9, <1>10 DEF Conns

\* A call neither makes a client nor changes one.
LEMMA CallConns ==
  ASSUME TypeOK, Conns, NEW p \in Callers,
         \/ \E c \in Calls : Exec(p, c) \/ DataRequest(p, c)
         \/ Auth(p) \/ AuthFails(p) \/ RefreshAccessToken(p)
         \/ Send(p) \/ Serve(p) \/ Reply(p) \/ TimesOut(p)
  PROVE  Conns'
<1>1. /\ UNCHANGED clientVars
      /\ pc[p] # "store"
      /\ \E place \in {"idle", "auth", "refresh", "call", "sent", "reply"} :
           pc' = [pc EXCEPT ![p] = place]
      /\ \E j : job' = [job EXCEPT ![p] = j]
  <2>1. CASE \E c \in Calls : Exec(p, c) \/ DataRequest(p, c)
    <3>1. PICK c \in Calls : Exec(p, c) \/ DataRequest(p, c)
      BY <2>1
    <3>2. UNCHANGED clientVars /\ pc[p] = "idle"
      BY <3>1 DEF Exec, DataRequest, Begins
    <3>3. \E place \in {"auth", "call"} : \E j :
            pc' = [pc EXCEPT ![p] = place] /\ job' = [job EXCEPT ![p] = j]
      BY <3>1 DEF Exec, DataRequest, Goto
    <3> QED
      BY <3>2, <3>3
  <2>2. CASE Auth(p) \/ AuthFails(p) \/ RefreshAccessToken(p) \/ Send(p)
    BY <2>2 DEF Auth, AuthFails, RefreshAccessToken, Send, Answer, Goto
  <2>3. CASE Serve(p)
    BY <2>3 DEF Serve, Goto
  <2>4. CASE Reply(p)
    BY <2>4 DEF Reply, Answer, Goto
  <2>5. CASE TimesOut(p)
    BY <2>5 DEF TimesOut, Answer, Goto
  <2> QED
    BY <2>1, <2>2, <2>3, <2>4, <2>5
<1>2. \A r \in Callers, k \in Keys : Making(r, k)' <=> Making(r, k)
  BY <1>1 DEF TypeOK, Making
<1>3. \A r \in Callers, k \in Keys : Making(r, k) => job'[r] = job[r]
  BY <1>1 DEF TypeOK, Making
<1> QED
  BY <1>1, <1>2, <1>3 DEF Conns, clientVars

LEMMA NextConns == TypeOK /\ Conns /\ [Next]_vars => Conns'
<1> SUFFICES ASSUME TypeOK, Conns, [Next]_vars PROVE Conns'
  OBVIOUS
<1>1. ASSUME NEW p \in Callers, NEW f \in Configs, NewClient(p, f) PROVE Conns'
  BY <1>1, NewClientConns
<1>2. ASSUME NEW p \in Callers, RpcClientConnect(p) \/ DialFails(p) \/ StoreClient(p)
      PROVE  Conns'
  BY <1>2, ConnectConns, DialFailsConns, StoreClientConns
<1>3. ASSUME NEW p \in Callers,
             \/ \E c \in Calls : Exec(p, c) \/ DataRequest(p, c)
             \/ Auth(p) \/ AuthFails(p) \/ RefreshAccessToken(p)
             \/ Send(p) \/ Serve(p) \/ Reply(p) \/ TimesOut(p)
      PROVE  Conns'
  BY <1>3, CallConns
<1>4. CASE \/ \E s \in stray : ServeStray(s)
           \/ \E t \in Tokens : Expire(t)
           \/ UNCHANGED vars
  <2>1. UNCHANGED <<clientVars, pc, job>>
    BY <1>4 DEF ServeStray, Expire, vars
  <2> QED
    BY <2>1 DEF Conns, Making, clientVars
<1> QED
  BY <1>1, <1>2, <1>3, <1>4 DEF Next

LEMMA ConnsOne == TypeOK /\ Conns => OneConnector
<1> SUFFICES ASSUME TypeOK, Conns, NEW p \in Callers, client[p] # NoClient
             PROVE  /\ client[p].rpcConn = client[p].authConnector
                    /\ client[p] = clientConns[KeyOf[client[p].config]]
  BY DEF OneConnector
<1>1. KeyOf[client[p].config] \in Keys
  BY ClientAssumption DEF TypeOK, Clients, Keys
<1> QED
  BY <1>1 DEF Conns

\* NewClient gives all who ask for one address and key the same client, and the
\* token that Exec renews is the one that the client's connection sends.
THEOREM AlwaysOneConnector == Spec => []OneConnector
<1>1. Init => IInv /\ Conns
  BY InitIInv, InitConns
<1>2. IInv /\ Conns /\ [Next]_vars => IInv' /\ Conns'
  BY NextIInv, NextConns DEF IInv
<1>3. IInv /\ Conns => OneConnector
  BY ConnsOne DEF IInv
<1> QED
  BY <1>1, <1>2, <1>3, PTL DEF Spec

-----------------------------------------------------------------------------
\* ErrorTrip.

\* An error without a code at its start has not been given one yet.
UncodedIsNew == kind = "text" /\ ~ Coded(text) => origin = NoCode

TripInv == TripTypeOK /\ CodeSurvives /\ UncodedIsNew

\* What FixCodeMsg and ParseError make of a text: a code, and a message that is
\* shorter.
LEMMA FixCodeMsgFact ==
  ASSUME NEW c \in StatusCodes, NEW t \in [codes : Seq(StatusCodes), words : Words]
  PROVE  LET f == FixCodeMsg(c, t) IN
         /\ f.code \in StatusCodes
         /\ f.message \in [codes : Seq(StatusCodes), words : Words]
         /\ f.message.words = t.words
         /\ Coded(t) /\ t.words # NoWords => f.code = Head(t.codes)
         /\ ~ Coded(t) => f.code = c /\ f.message = t
  BY DEF FixCodeMsg, Longer, Coded, Rest, Text

LEMMA ParseErrorFact ==
  ASSUME NEW t \in [codes : Seq(StatusCodes), words : Words]
  PROVE  LET f == ParseError(t) IN
         /\ f.code \in StatusCodes
         /\ f.message \in [codes : Seq(StatusCodes), words : Words]
         /\ Coded(t) => f.code = Head(t.codes) /\ f.message.words = t.words
         /\ ~ Coded(t) => f.code = InternalServerError
  BY TripAssumption DEF ParseError, Coded, Rest, Text

LEMMA PrefixFact ==
  ASSUME NEW c \in StatusCodes, NEW t \in [codes : Seq(StatusCodes), words : Words]
  PROVE  /\ Prefix(c, t) \in [codes : Seq(StatusCodes), words : Words]
         /\ Coded(Prefix(c, t))
         /\ Head(Prefix(c, t).codes) = c
         /\ Prefix(c, t).words = t.words
<1>1. /\ <<c>> \o t.codes \in Seq(StatusCodes)
      /\ <<c>> \o t.codes # <<>>
      /\ Head(<<c>> \o t.codes) = c
  OBVIOUS
<1> QED
  BY <1>1 DEF Prefix, Text, Coded

LEMMA TripInitInv == TripInit => TripInv
<1> SUFFICES ASSUME TripInit PROVE TripInv
  OBVIOUS
<1>1. /\ text.codes = <<>>
      /\ text \in [codes : Seq(StatusCodes), words : Words]
  <2>1. PICK w \in Words : text = [codes |-> <<>>, words |-> w]
    BY DEF TripInit
  <2>2. <<>> \in Seq(StatusCodes)
    OBVIOUS
  <2> QED
    BY <2>1, <2>2
<1> QED
  BY <1>1 DEF TripInit, TripInv, TripTypeOK, CodeSurvives, UncodedIsNew, CarriedCode, Coded

LEMMA RaiseInv == \A c \in StatusCodes : TripInv /\ Raise(c) => TripInv'
<1> SUFFICES ASSUME NEW c \in StatusCodes, TripInv, Raise(c) PROVE TripInv'
  OBVIOUS
<1> DEFINE f == FixCodeMsg(c, text)
<1>1. /\ text \in [codes : Seq(StatusCodes), words : Words]
      /\ kind = "text" /\ code = NoCode /\ kind' = kind /\ code' = code
      /\ text' = Prefix(f.code, f.message)
      /\ origin' = IF origin = NoCode THEN c ELSE origin
      /\ origin \in StatusCodes \cup {NoCode}
  BY DEF TripInv, TripTypeOK, Raise, First, NewError
<1>2. /\ f.code \in StatusCodes
      /\ f.message \in [codes : Seq(StatusCodes), words : Words]
      /\ f.message.words = text.words
      /\ Coded(text) /\ text.words # NoWords => f.code = Head(text.codes)
      /\ ~ Coded(text) => f.code = c
  BY <1>1, FixCodeMsgFact
<1> HIDE DEF f
<1>3. /\ text' \in [codes : Seq(StatusCodes), words : Words]
      /\ Coded(text') /\ Head(text'.codes) = f.code
      /\ text'.words = text.words
  BY <1>1, <1>2, PrefixFact
<1>4. TripTypeOK'
  BY <1>1, <1>3, TripAssumption DEF TripTypeOK
<1>5. CodeSurvives'
  <2>1. CASE Coded(text)
    BY <2>1, <1>1, <1>2, <1>3, TripAssumption
       DEF TripInv, CodeSurvives, CarriedCode, TripTypeOK, Coded
  <2>2. CASE ~ Coded(text)
    BY <2>2, <1>1, <1>2, <1>3 DEF TripInv, CodeSurvives, CarriedCode, UncodedIsNew, Coded
  <2> QED
    BY <2>1, <2>2
<1>6. UncodedIsNew'
  BY <1>3 DEF UncodedIsNew, Coded
<1> QED
  BY <1>4, <1>5, <1>6 DEF TripInv

LEMMA ReceiveInv == TripInv /\ Receive => TripInv'
<1> SUFFICES ASSUME TripInv, Receive PROVE TripInv'
  OBVIOUS
<1> DEFINE f == ParseError(text)
<1>1. /\ text \in [codes : Seq(StatusCodes), words : Words]
      /\ kind = "text" /\ kind' = "status" /\ code' = f.code /\ text' = f.message
      /\ origin' = IF origin = NoCode THEN InternalServerError ELSE origin
      /\ origin \in StatusCodes \cup {NoCode}
  BY DEF TripInv, TripTypeOK, Receive, BecomesStatus, First
<1>2. /\ f.code \in StatusCodes
      /\ f.message \in [codes : Seq(StatusCodes), words : Words]
      /\ Coded(text) => f.code = Head(text.codes) /\ f.message.words = text.words
      /\ ~ Coded(text) => f.code = InternalServerError
  BY <1>1, ParseErrorFact
<1> HIDE DEF f
<1>3. TripTypeOK'
  BY <1>1, <1>2, TripAssumption DEF TripTypeOK
<1>4. CodeSurvives'
  <2>1. CASE Coded(text)
    BY <2>1, <1>1, <1>2, TripAssumption DEF TripInv, CodeSurvives, CarriedCode, TripTypeOK, Coded
  <2>2. CASE ~ Coded(text)
    BY <2>2, <1>1, <1>2 DEF TripInv, CodeSurvives, CarriedCode, UncodedIsNew
  <2> QED
    BY <2>1, <2>2
<1> QED
  BY <1>1, <1>3, <1>4 DEF TripInv, UncodedIsNew

LEMMA RespondInv == \A c \in StatusCodes : TripInv /\ Respond(c) => TripInv'
<1> SUFFICES ASSUME NEW c \in StatusCodes, TripInv, Respond(c) PROVE TripInv'
  OBVIOUS
<1> DEFINE f == FixCodeMsg(c, text)
<1>1. /\ text \in [codes : Seq(StatusCodes), words : Words]
      /\ kind = "text" /\ kind' = "status" /\ code' = f.code /\ text' = f.message
      /\ origin' = IF origin = NoCode THEN c ELSE origin
      /\ origin \in StatusCodes \cup {NoCode}
  BY DEF TripInv, TripTypeOK, Respond, BecomesStatus, First
<1>2. /\ f.code \in StatusCodes
      /\ f.message \in [codes : Seq(StatusCodes), words : Words]
      /\ f.message.words = text.words
      /\ Coded(text) /\ text.words # NoWords => f.code = Head(text.codes)
      /\ ~ Coded(text) => f.code = c
  BY <1>1, FixCodeMsgFact
<1> HIDE DEF f
<1>3. TripTypeOK'
  BY <1>1, <1>2, TripAssumption DEF TripTypeOK
<1>4. CodeSurvives'
  <2>1. CASE Coded(text)
    BY <2>1, <1>1, <1>2, TripAssumption DEF TripInv, CodeSurvives, CarriedCode, TripTypeOK, Coded
  <2>2. CASE ~ Coded(text)
    BY <2>2, <1>1, <1>2 DEF TripInv, CodeSurvives, CarriedCode, UncodedIsNew
  <2> QED
    BY <2>1, <2>2
<1> QED
  BY <1>1, <1>3, <1>4 DEF TripInv, UncodedIsNew

LEMMA AuthFailedInv == TripInv /\ AuthFailed => TripInv'
<1> SUFFICES ASSUME TripInv, AuthFailed PROVE TripInv'
  OBVIOUS
<1>1. PICK t \in {text, Text(<<>>, UnknownError)} :
        BecomesStatus([code |-> UnAuth, message |-> t])
  BY DEF AuthFailed
<1>2. Text(<<>>, UnknownError) \in [codes : Seq(StatusCodes), words : Words]
  <2>1. <<>> \in Seq(StatusCodes)
    OBVIOUS
  <2> QED
    BY <2>1, TripAssumption DEF Text
<1>3. /\ kind' = "status" /\ code' = UnAuth /\ origin' = UnAuth
      /\ text' \in [codes : Seq(StatusCodes), words : Words]
  BY <1>1, <1>2 DEF TripInv, TripTypeOK, AuthFailed, BecomesStatus
<1> QED
  BY <1>3, TripAssumption
     DEF TripInv, TripTypeOK, CodeSurvives, CarriedCode, UncodedIsNew

LEMMA ErrInv == TripInv /\ Err => TripInv'
<1> SUFFICES ASSUME TripInv, Err PROVE TripInv'
  OBVIOUS
<1>1. /\ code \in StatusCodes
      /\ text \in [codes : Seq(StatusCodes), words : Words]
      /\ kind = "status" /\ kind' = "text" /\ code' = NoCode
      /\ text' = Prefix(code, text) /\ origin' = origin
  BY DEF TripInv, TripTypeOK, Err
<1>2. /\ text' \in [codes : Seq(StatusCodes), words : Words]
      /\ Coded(text') /\ Head(text'.codes) = code /\ text'.words = text.words
  BY <1>1, PrefixFact
<1>3. TripTypeOK'
  BY <1>1, <1>2, TripAssumption DEF TripInv, TripTypeOK
<1>4. CodeSurvives'
  BY <1>1, <1>2 DEF TripInv, CodeSurvives, CarriedCode, Coded
<1> QED
  BY <1>2, <1>3, <1>4 DEF TripInv, UncodedIsNew, Coded

LEMMA TripNextInv == TripInv /\ [TripNext]_tripVars => TripInv'
<1> SUFFICES ASSUME TripInv, [TripNext]_tripVars PROVE TripInv'
  OBVIOUS
<1>1. ASSUME NEW c \in StatusCodes, Raise(c) PROVE TripInv'
  BY <1>1, RaiseInv
<1>2. CASE Respond(BadRequest) \/ Respond(InternalServerError)
  BY <1>2, RespondInv, TripAssumption
<1>3. CASE Receive
  BY <1>3, ReceiveInv
<1>4. CASE AuthFailed
  BY <1>4, AuthFailedInv
<1>5. CASE Err
  BY <1>5, ErrInv
<1>6. CASE UNCHANGED tripVars
  BY <1>6 DEF tripVars, TripInv, TripTypeOK, CodeSurvives, CarriedCode, UncodedIsNew, Coded
<1> QED
  BY <1>1, <1>2, <1>3, <1>4, <1>5, <1>6 DEF TripNext

\* Type correctness: over any sequence of hops a text carries codes and words, and
\* just a status has a code of its own (service_status.go).
THEOREM ErrorTypeCorrect == TripSpec => []TripTypeOK
<1>1. TripInit => TripInv
  BY TripInitInv
<1>2. TripInv /\ [TripNext]_tripVars => TripInv'
  BY TripNextInv
<1>3. TripInv => TripTypeOK
  BY DEF TripInv
<1> QED
  BY <1>1, <1>2, <1>3, PTL DEF TripSpec

\* The code first given to an error reaches everyone it is passed on to: the
\* hops of service_status.go, service.go and client.go in any order and number.
THEOREM CodeAlwaysSurvives == TripSpec => []CodeSurvives
<1>1. TripInit => TripInv
  BY TripInitInv
<1>2. TripInv /\ [TripNext]_tripVars => TripInv'
  BY TripNextInv
<1>3. TripInv => CodeSurvives
  BY DEF TripInv
<1> QED
  BY <1>1, <1>2, <1>3, PTL DEF TripSpec

-----------------------------------------------------------------------------
(* Queries. *)

\* What the store reads of a filter, and what it is when s was asked for.
ReadOf(fr) ==
  IF fr = NoFilter THEN <<>> ELSE IF fr.field # NoName THEN <<fr>> ELSE fr.inner

AskedAs(a, fr) == a.field = fr.field /\ a.value = fr.value

\* A filter that says anything was asked for ...
SaysNothing(fr) == fr.field = NoName /\ fr.value = Null
Wants(s, fr) == SaysNothing(fr) \/ \E n \in 1..Len(s) : AskedAs(s[n], fr)
Wanted(fr, s) ==
  fr # NoFilter => Wants(s, fr) /\ \A i \in 1..Len(fr.inner) : Wants(s, fr.inner[i])

\* ... a condition at the root has others inside of it only after And ...
RootTaken(fr, s) ==
  fr # NoFilter /\ fr.field # NoName /\ Len(fr.inner) # 0 => \E n \in 1..Len(s) : s[n].within

\* ... and as long as none went into another one, what the store reads of the
\* filter is what was asked for.
Plainly(s) == \A n \in 1..Len(s) : ~s[n].within /\ s[n].field # NoName
Tracked(fr, s) ==
  Plainly(s) =>
    /\ Len(s) = 0 => fr \in {NoFilter, EmptyFilter}
    /\ Len(ReadOf(fr)) = Len(s)
    /\ \A n \in 1..Len(s) : AskedAs(s[n], ReadOf(fr)[n])

Holds(fr, s) == Wanted(fr, s) /\ RootTaken(fr, s) /\ Tracked(fr, s)
AsAsked == Holds(filter, asked)

-----------------------------------------------------------------------------
(* Filters. *)

LEMMA FilterIs ==
  ASSUME NEW I, NEW fr
  PROVE  fr \in FilterOver(I) <=>
           /\ fr = [field |-> fr.field, value |-> fr.value, inner |-> fr.inner]
           /\ fr.field \in DOMAIN LowerName /\ fr.value \in Values \cup {Null}
           /\ fr.inner \in I
  BY DEF FilterOver

Leaves == FilterOver({<<>>})
Inners == FilterOver(Seq(Leaves))

LEMMA FiltersAre == Filters = FilterOver(Seq(Inners))
  BY DEF Filters, Inners, Leaves

LEMMA CondIsLeaf ==
  ASSUME NEW field \in DOMAIN LowerName, NEW value \in Values \cup {Null}
  PROVE  /\ Cond(field, value) \in Leaves
         /\ Cond(field, value) \in Inners
         /\ Cond(field, value) \in Filters
<1> DEFINE c == Cond(field, value)
<1>1. c = [field |-> c.field, value |-> c.value, inner |-> c.inner]
      /\ c.field = field /\ c.value = value /\ c.inner = <<>>
  BY DEF Cond
<1> HIDE DEF c
<1>2. \A I : <<>> \in I => c \in FilterOver(I)
  BY <1>1, FilterIs
<1>3. <<>> \in {<<>>} /\ <<>> \in Seq(Leaves) /\ <<>> \in Seq(Inners)
  OBVIOUS
<1> QED
  BY <1>2, <1>3, FiltersAre DEF c, Leaves, Inners

LEMMA EmptyIsFilter == EmptyFilter \in Filters
  BY QueryAssumption, CondIsLeaf DEF EmptyFilter

\* A filter without more in it can go below another one.
LEMMA PlainIsInner ==
  ASSUME NEW fr \in Filters, fr.inner = <<>>
  PROVE  fr \in Inners
  BY FilterIs, FiltersAre DEF Inners

\* A filter is given other inner filters.
LEMMA WithInner ==
  ASSUME NEW I, NEW J, NEW fr \in FilterOver(I), NEW s \in J
  PROVE  /\ [fr EXCEPT !.inner = s] \in FilterOver(J)
         /\ [fr EXCEPT !.inner = s].field = fr.field
         /\ [fr EXCEPT !.inner = s].value = fr.value
         /\ [fr EXCEPT !.inner = s].inner = s
<1>1. fr = [field |-> fr.field, value |-> fr.value, inner |-> fr.inner]
  BY FilterIs
<1>2. [fr EXCEPT !.inner = s] = [field |-> fr.field, value |-> fr.value, inner |-> s]
  BY ONLY <1>1
<1> QED
  BY <1>2, FilterIs

LEMMA WithInners ==
  ASSUME NEW fr \in Filters, NEW s \in Seq(Inners)
  PROVE  /\ [fr EXCEPT !.inner = s] \in Filters
         /\ [fr EXCEPT !.inner = s].field = fr.field
         /\ [fr EXCEPT !.inner = s].value = fr.value
         /\ [fr EXCEPT !.inner = s].inner = s
<1>1. fr \in FilterOver(Seq(Inners))
  BY FiltersAre
<1>2. [fr EXCEPT !.inner = s] \in FilterOver(Seq(Inners))
  BY <1>1, WithInner
<1>3. /\ [fr EXCEPT !.inner = s].field = fr.field
      /\ [fr EXCEPT !.inner = s].value = fr.value
      /\ [fr EXCEPT !.inner = s].inner = s
  BY <1>1, WithInner
<1> QED
  BY <1>2, <1>3, FiltersAre

\* What And and addFilter do to the inner filters.
LEMMA AppendInner ==
  ASSUME NEW fr \in Filters, NEW c \in Inners
  PROVE  LET new == [fr EXCEPT !.inner = Append(@, c)] IN
         /\ new \in Filters
         /\ new.field = fr.field /\ new.value = fr.value
         /\ Len(fr.inner) \in Nat /\ Len(new.inner) = Len(fr.inner) + 1
         /\ \A i \in 1..Len(fr.inner) : new.inner[i] = fr.inner[i]
         /\ new.inner[Len(fr.inner) + 1] = c
<1>1. fr.inner \in Seq(Inners)
  BY FilterIs, FiltersAre
<1>2. Append(fr.inner, c) \in Seq(Inners)
  BY <1>1
<1>3. [fr EXCEPT !.inner = Append(@, c)] = [fr EXCEPT !.inner = Append(fr.inner, c)]
  OBVIOUS
<1>4. PICK new : new = [fr EXCEPT !.inner = Append(@, c)]
  OBVIOUS
<1>5. /\ new \in Filters /\ new.field = fr.field /\ new.value = fr.value
      /\ new.inner = Append(fr.inner, c)
  BY <1>2, <1>3, <1>4, WithInners
<1> QED
  BY <1>1, <1>4, <1>5

LEMMA WrapFilter ==
  ASSUME NEW fr \in Inners, NEW c \in Inners
  PROVE  LET new == [EmptyFilter EXCEPT !.inner = <<fr, c>>] IN
         /\ new \in Filters
         /\ new.field = NoName /\ new.value = Null
         /\ new.inner = <<fr, c>>
<1>1. EmptyFilter.field = NoName /\ EmptyFilter.value = Null
  BY DEF EmptyFilter, Cond
<1>2. <<fr, c>> \in Seq(Inners)
  OBVIOUS
<1> QED
  BY <1>1, <1>2, EmptyIsFilter, WithInners

\* What And does to a filter below the root: the root reads as before.
Deepened(fr, new) ==
  /\ new \in Filters
  /\ new.field = fr.field /\ new.value = fr.value
  /\ DOMAIN new.inner = DOMAIN fr.inner
  /\ \A k \in DOMAIN fr.inner :
       new.inner[k].field = fr.inner[k].field /\ new.inner[k].value = fr.inner[k].value

LEMMA DeepenInner ==
  ASSUME NEW fr \in Filters, NEW i \in DOMAIN fr.inner, NEW c \in Leaves
  PROVE  Deepened(fr, [fr EXCEPT !.inner[i].inner = Append(@, c)])
<1>1. fr.inner \in Seq(Inners) /\ fr.inner[i] \in Inners /\ fr.inner[i].inner \in Seq(Leaves)
  <2>1. fr.inner \in Seq(Inners)
    BY FilterIs, FiltersAre
  <2>2. fr.inner[i] \in Inners
    BY <2>1
  <2> QED
    BY <2>1, <2>2, FilterIs DEF Inners
<1>2. PICK s : s = Append(fr.inner[i].inner, c)
  OBVIOUS
<1>3. s \in Seq(Leaves)
  BY <1>1, <1>2
<1>4. PICK g : g = [fr.inner[i] EXCEPT !.inner = s]
  OBVIOUS
<1>5. g \in Inners /\ g.field = fr.inner[i].field /\ g.value = fr.inner[i].value
  BY <1>1, <1>3, <1>4, WithInner DEF Inners
<1>6. PICK t : t = [fr.inner EXCEPT ![i] = g]
  OBVIOUS
<1>7. t \in Seq(Inners) /\ DOMAIN t = DOMAIN fr.inner
      /\ \A k \in DOMAIN fr.inner : t[k] = IF k = i THEN g ELSE fr.inner[k]
  BY <1>1, <1>5, <1>6
<1>8. [fr EXCEPT !.inner[i].inner = Append(@, c)] = [fr EXCEPT !.inner = t]
  BY <1>2, <1>4, <1>6
<1>9. PICK new : new = [fr EXCEPT !.inner[i].inner = Append(@, c)]
  OBVIOUS
<1>10. new \in Filters /\ new.field = fr.field /\ new.value = fr.value /\ new.inner = t
  <2>1. new = [fr EXCEPT !.inner = t]
    BY ONLY <1>8, <1>9
  <2>2. t \in Seq(Inners)
    BY <1>7
  <2> QED
    BY <2>1, <2>2, WithInners
<1>11. Deepened(fr, new)
  BY <1>5, <1>7, <1>10 DEF Deepened
<1> QED
  BY <1>9, <1>11

-----------------------------------------------------------------------------
(* The first and the last of some numbers. *)

LEMMA LeastIn ==
  ASSUME NEW S, S \subseteq Nat, S # {}
  PROVE  Min(S) \in S /\ \A y \in S : Min(S) <= y
<1>1. PICK x \in S : \A y \in S : ~ (<<y, x>> \in OpToRel(<, Nat))
  BY WFMin, NatLessThanWellFounded, Zenon
<1>2. \A y \in S : ~ (y < x)
  BY <1>1 DEF OpToRel
<1>3. \A y \in S : x <= y
  BY <1>2
<1> QED
  BY <1>3 DEF Min

LEMMA GreatestIn ==
  ASSUME NEW n \in Nat, NEW S, S \subseteq 1..n, S # {}
  PROVE  Max(S) \in S /\ \A y \in S : y <= Max(S)
<1> DEFINE T == {n - x : x \in S}
<1>1. T \subseteq Nat /\ T # {}
  <2>1. PICK x : x \in S
    OBVIOUS
  <2>2. n - x \in T
    BY <2>1
  <2>3. \A y \in 1..n : n - y \in Nat
    OBVIOUS
  <2>4. T \subseteq Nat
    BY <2>3
  <2> QED
    BY <2>2, <2>4
<1> HIDE DEF T
<1>2. PICK m \in T : \A y \in T : m <= y
  BY <1>1, LeastIn
<1>3. PICK x \in S : m = n - x
  BY DEF T
<1>4. ASSUME NEW y \in S PROVE x >= y
  <2>1. n - y \in T
    BY DEF T
  <2>2. m <= n - y /\ x \in Int /\ y \in Int
    BY <1>2, <2>1
  <2> QED
    BY <1>3, <2>2
<1>5. \E z \in S : \A y \in S : z >= y
  BY <1>4
<1>6. Max(S) \in S /\ \A y \in S : Max(S) >= y
  BY <1>5 DEF Max
<1> QED
  BY <1>6

-----------------------------------------------------------------------------
(* The spec of the table. *)

\* The ith field has that tag or name.
Called(name, i) == fields[i].tag = name \/ fields[i].name = name

LEMMA FieldIs ==
  ASSUME Len(fields) \in Nat, NEW name
  PROVE  /\ Field(name) \in 0..Len(fields)
         /\ \A i \in 1..Len(fields) : Called(name, i) => Field(name) # 0 /\ Field(name) <= i
         /\ Field(name) # 0 => Called(name, Field(name))
<1> DEFINE I == {i \in 1..Len(fields) : Called(name, i)}
<1>1. Field(name) = IF I # {} THEN Min(I) ELSE 0
  BY DEF Field, SelectInSeq, Called
<1>2. I # {} => Min(I) \in I /\ \A i \in I : Min(I) <= i
  BY LeastIn
<1>3. CASE I # {}
  <2>1. Field(name) \in I /\ \A i \in I : Field(name) <= i
    BY <1>1, <1>2, <1>3
  <2> QED
    BY <2>1
<1>4. CASE I = {}
  <2>1. Field(name) = 0 /\ \A i \in 1..Len(fields) : ~Called(name, i)
    BY <1>1, <1>4
  <2> QED
    BY <2>1
<1> QED
  BY <1>3, <1>4

LEMMA SetFieldTable ==
  ASSUME TableTypeOK, NEW tag \in DOMAIN ToLower, NEW type, SetField(tag, type)
  PROVE  TableTypeOK'
<1> DEFINE new == [name |-> ToLower[tag], tag |-> tag, type |-> type, pk |-> FALSE]
           k == Field(tag)
           n == Len(fields)
<1>1. new \in FieldSpec /\ type \in STRING
  BY TableAssumption DEF SetField, FieldSpec
<1>2. /\ fields \in Seq(FieldSpec) /\ n \in Nat /\ k \in 0..n
      /\ Len(BaseFields) \in Nat /\ Len(BaseFields) <= n
      /\ DOMAIN BaseFields = 1..Len(BaseFields)
  <2>1. fields \in Seq(FieldSpec) /\ Len(BaseFields) <= n /\ BaseFields \in Seq(FieldSpec)
    BY TableAssumption DEF TableTypeOK
  <2>2. n \in Nat
    BY <2>1
  <2> HIDE DEF k
  <2>3. k \in 0..n
    BY <2>2, FieldIs DEF k
  <2> QED
    BY <2>1, <2>2, <2>3
<1>3. /\ fields' \in Seq(FieldSpec) /\ Len(fields') \in Nat /\ n <= Len(fields')
      /\ \A i \in 1..n : fields'[i] = [fields[i] EXCEPT !.type = fields'[i].type]
      /\ \A i \in 1..n :
           fields'[i].tag = fields[i].tag /\ fields'[i].name = fields[i].name
  <2>1. CASE k # 0
    <3>1. fields' = [fields EXCEPT ![k].type = type]
      BY <2>1 DEF SetField
    <3>2. \A f \in FieldSpec : /\ [f EXCEPT !.type = type] \in FieldSpec
                               /\ [f EXCEPT !.type = type].tag = f.tag
                               /\ [f EXCEPT !.type = type].name = f.name
                               /\ [f EXCEPT !.type = type].type = type
                               /\ f = [f EXCEPT !.type = f.type]
      BY <1>1 DEF FieldSpec
    <3>3. /\ Len(fields') = n /\ fields' \in Seq(FieldSpec)
          /\ \A i \in 1..n :
               fields'[i] = IF i = k THEN [fields[i] EXCEPT !.type = type] ELSE fields[i]
      <4> HIDE DEF k
      <4>1. PICK g : g = [fields[k] EXCEPT !.type = type]
        OBVIOUS
      <4>2. k \in 1..n /\ fields[k] \in FieldSpec
        BY <1>2, <2>1
      <4>3. g \in FieldSpec
        BY <3>2, <4>1, <4>2
      <4>4. fields' = [fields EXCEPT ![k] = g]
        BY <3>1, <4>1
      <4> QED
        BY <1>2, <4>1, <4>2, <4>3, <4>4
    <3>4. \A i \in 1..n : fields[i] \in FieldSpec
      BY <1>2
    <3>5. ASSUME NEW i \in 1..n
          PROVE  /\ fields'[i] = [fields[i] EXCEPT !.type = fields'[i].type]
                 /\ fields'[i].tag = fields[i].tag /\ fields'[i].name = fields[i].name
      BY <3>2, <3>3, <3>4
    <3>6. Len(fields') \in Nat /\ n <= Len(fields')
      BY <1>2, <3>3
    <3> QED
      BY <3>3, <3>5, <3>6
  <2>2. CASE k = 0
    <3>1. fields' = Append(fields, new)
      BY <2>2 DEF SetField
    <3>2. \A f \in FieldSpec : f = [f EXCEPT !.type = f.type]
      BY DEF FieldSpec
    <3>3. /\ fields' \in Seq(FieldSpec) /\ Len(fields') = n + 1
          /\ \A i \in 1..n : fields'[i] = fields[i] /\ fields[i] \in FieldSpec
      BY <1>1, <1>2, <3>1
    <3> QED
      BY <1>2, <3>2, <3>3
  <2> QED
    BY <1>2, <2>1, <2>2
<1>4. ASSUME NEW i \in DOMAIN BaseFields
      PROVE  fields'[i] = [BaseFields[i] EXCEPT !.type = fields'[i].type]
  <2>1. i \in 1..n /\ BaseFields[i] \in FieldSpec
    <3>1. i \in 1..Len(BaseFields) /\ BaseFields \in Seq(FieldSpec)
      BY <1>2, TableAssumption
    <3> QED
      BY <1>2, <3>1
  <2>2. /\ fields[i] = [BaseFields[i] EXCEPT !.type = fields[i].type]
        /\ fields'[i] = [fields[i] EXCEPT !.type = fields'[i].type]
    BY <1>3, <2>1 DEF TableTypeOK
  <2>3. \A b \in FieldSpec : \A s, t :
          [[b EXCEPT !.type = s] EXCEPT !.type = t] = [b EXCEPT !.type = t]
    BY DEF FieldSpec
  <2> QED
    BY <2>1, <2>2, <2>3
<1>5. indexes' = indexes
  BY DEF SetField
<1>6. Len(BaseFields) <= Len(fields')
  BY <1>2, <1>3
<1> QED
  BY <1>3, <1>4, <1>5, <1>6 DEF TableTypeOK

LEMMA SetIndexTable ==
  ASSUME TableTypeOK, NEW m \in Nat, NEW tags \in [1..m -> DOMAIN ToLower],
         NEW type, SetIndex(tags, type)
  PROVE  TableTypeOK'
<1> DEFINE names == IndexFields(tags)
           n == SelectInSeq(indexes, LAMBDA x : x.fields = names)
           Index == [fields : Seq(STRING), type : IndexTypes \cup {NoField}]
<1>1. fields' = fields /\ fields \in Seq(FieldSpec) /\ Len(fields) \in Nat
      /\ indexes \in Seq(Index) /\ Len(indexes) \in Nat
  BY DEF SetIndex, TableTypeOK
<1>2. ASSUME NEW i \in 1..m
      PROVE  names[i] \in STRING
  <2>1. Field(tags[i]) # 0 /\ names[i] = fields[Field(tags[i])].name
    BY DEF SetIndex, IndexFields
  <2>2. Field(tags[i]) \in 1..Len(fields)
    BY <1>1, <2>1, FieldIs
  <2>3. fields[Field(tags[i])] \in FieldSpec
    BY <1>1, <2>2
  <2> QED
    BY <2>1, <2>3 DEF FieldSpec
<1>3. names \in [1..m -> STRING] /\ names \in Seq(STRING) /\ DOMAIN names = 1..m
  BY <1>2 DEF IndexFields
<1>4. n \in 0..Len(indexes)
  <2> DEFINE I == {i \in 1..Len(indexes) : indexes[i].fields = names}
  <2>1. n = IF I # {} THEN Min(I) ELSE 0
    BY DEF SelectInSeq
  <2>2. I # {} => Min(I) \in I
    BY LeastIn
  <2> QED
    BY <2>1, <2>2
<1> HIDE DEF names, n
<1>5. indexes' \in Seq(Index)
  <2>1. CASE n = 0
    <3>1. PICK x : /\ x = [fields |-> names, type |-> IF type \in IndexTypes THEN type ELSE NoField]
                   /\ indexes' = Append(indexes, x)
      BY <2>1 DEF SetIndex, names, n
    <3>2. x \in Index
      BY <1>3, <3>1
    <3> QED
      BY <1>1, <3>1, <3>2
  <2>2. CASE n # 0 /\ type \in IndexTypes
    <3>1. indexes' = [indexes EXCEPT ![n].type = type]
      BY <2>2 DEF SetIndex, names, n
    <3>2. \A x \in Index : [x EXCEPT !.type = type] \in Index
      BY <2>2
    <3>3. n \in 1..Len(indexes)
      BY <1>1, <1>4, <2>2
    <3>a. indexes[n] \in Index
      <4> HIDE DEF Index
      <4>1. \A i \in 1..Len(indexes) : indexes[i] \in Index
        BY <1>1
      <4> QED
        BY <3>3, <4>1
    <3>4. PICK g : g = [indexes[n] EXCEPT !.type = type]
      OBVIOUS
    <3>5. g \in Index
      BY <3>2, <3>a, <3>4
    <3>6. indexes' = [indexes EXCEPT ![n] = g]
      BY <3>1, <3>4
    <3> QED
      BY <1>1, <3>3, <3>5, <3>6
  <2>3. CASE n # 0 /\ type \notin IndexTypes
    <3>1. indexes' = indexes
      BY <2>3 DEF SetIndex, names, n
    <3> QED
      BY <1>1, <3>1
  <2> QED
    BY <2>1, <2>2, <2>3
<1> QED
  BY <1>1, <1>5 DEF TableTypeOK

-----------------------------------------------------------------------------
(* What was asked for, and the filter. *)

AskedSet == [field : DOMAIN LowerName, value : Values \cup {Null}, within : BOOLEAN]

QueryInv == QueryTypeOK /\ AsAsked

\* One more condition was asked for.
Grew(s, a, t) ==
  /\ t \in Seq(AskedSet)
  /\ Len(s) \in Nat /\ Len(t) = Len(s) + 1 /\ Len(t) \in 1..Len(t)
  /\ \A n \in 1..Len(t) : n \in 1..Len(s) \/ n = Len(t)
  /\ \A n \in 1..Len(s) : n \in 1..Len(t) /\ t[n] = s[n]
  /\ t[Len(t)] = a
  /\ \A fr : Wants(s, fr) => Wants(t, fr)
  /\ \A fr : AskedAs(a, fr) => Wants(t, fr)
  /\ Plainly(t) => Plainly(s) /\ ~a.within /\ a.field # NoName

LEMMA AskedGrows ==
  ASSUME NEW s \in Seq(AskedSet), NEW a \in AskedSet, NEW t, t = Append(s, a)
  PROVE  Grew(s, a, t)
<1>1. /\ t \in Seq(AskedSet)
      /\ Len(s) \in Nat /\ Len(t) = Len(s) + 1 /\ Len(t) \in 1..Len(t)
      /\ \A n \in 1..Len(t) : n \in 1..Len(s) \/ n = Len(t)
      /\ \A n \in 1..Len(s) : n \in 1..Len(t) /\ t[n] = s[n]
      /\ t[Len(t)] = a
  OBVIOUS
<1>2. \A fr : Wants(s, fr) => Wants(t, fr)
  BY <1>1 DEF Wants
<1>3. \A fr : AskedAs(a, fr) => Wants(t, fr)
  BY <1>1 DEF Wants
<1>4. Plainly(t) => Plainly(s) /\ ~a.within /\ a.field # NoName
  BY <1>1 DEF Plainly
<1> QED
  BY <1>1, <1>2, <1>3, <1>4 DEF Grew

LEMMA FilterParts ==
  ASSUME QueryTypeOK, filter # NoFilter
  PROVE  /\ filter \in Filters
         /\ filter.inner \in Seq(Inners) /\ Len(filter.inner) \in Nat
         /\ DOMAIN filter.inner = 1..Len(filter.inner)
<1>1. filter \in Filters
  BY DEF QueryTypeOK
<1>2. filter.inner \in Seq(Inners)
  BY <1>1, FilterIs, FiltersAre
<1> QED
  BY <1>1, <1>2

\* The three forms of what addFilter makes of the filter.
LEMMA GrownIs ==
  ASSUME QueryTypeOK, NEW field \in DOMAIN LowerName, NEW value \in Values \cup {Null}
  PROVE  LET c == Cond(field, value)
             g == Grown(c)
         IN  /\ g \in Filters /\ g # NoFilter
             /\ c.field = field /\ c.value = value /\ c.inner = <<>>
             /\ filter = NoFilter => g = c
             /\ filter # NoFilter /\ filter.inner = <<>> =>
                  g.field = NoName /\ g.value = Null /\ g.inner = <<filter, c>>
             /\ filter # NoFilter /\ filter.inner # <<>> =>
                  /\ Len(filter.inner) \in Nat
                  /\ g.field = filter.field /\ g.value = filter.value
                  /\ Len(g.inner) = Len(filter.inner) + 1
                  /\ \A i \in 1..Len(filter.inner) : g.inner[i] = filter.inner[i]
                  /\ g.inner[Len(filter.inner) + 1] = c
<1> DEFINE c == Cond(field, value)
           g == Grown(c)
<1>1. /\ c \in Inners /\ c \in Filters
      /\ c.field = field /\ c.value = value /\ c.inner = <<>>
  BY CondIsLeaf DEF Cond
<1> HIDE DEF c
<1>2. CASE filter = NoFilter
  <2>1. g = c
    BY <1>2 DEF Grown
  <2> QED
    BY <1>1, <1>2, <2>1, QueryAssumption DEF c
<1>3. CASE filter # NoFilter /\ filter.inner = <<>>
  <2>1. filter \in Inners
    BY <1>3, FilterParts, PlainIsInner
  <2>2. g = [EmptyFilter EXCEPT !.inner = <<filter, c>>]
    BY <1>3 DEF Grown
  <2>3. g \in Filters /\ g.field = NoName /\ g.value = Null /\ g.inner = <<filter, c>>
    BY <1>1, <2>1, <2>2, WrapFilter
  <2> QED
    BY <1>1, <1>3, <2>3, QueryAssumption DEF c
<1>4. CASE filter # NoFilter /\ filter.inner # <<>>
  <2>1. filter \in Filters /\ Len(filter.inner) \in Nat
    BY <1>4, FilterParts
  <2>2. g = [filter EXCEPT !.inner = Append(@, c)]
    BY <1>4 DEF Grown
  <2>3. /\ g \in Filters /\ g.field = filter.field /\ g.value = filter.value
        /\ Len(g.inner) = Len(filter.inner) + 1
        /\ \A i \in 1..Len(filter.inner) : g.inner[i] = filter.inner[i]
        /\ g.inner[Len(filter.inner) + 1] = c
    BY <1>1, <2>1, <2>2, AppendInner
  <2> QED
    BY <1>1, <1>4, <2>1, <2>3, QueryAssumption DEF c
<1> QED
  BY <1>2, <1>3, <1>4 DEF c

LEMMA InitQueryInv == QueryInit => QueryInv
<1> SUFFICES ASSUME QueryInit PROVE QueryInv
  OBVIOUS
<1>1. TableTypeOK
  <2>1. fields = BaseFields /\ BaseFields \in Seq(FieldSpec) /\ indexes = <<>>
    BY TableAssumption DEF QueryInit, TableInit
  <2>2. \A f \in FieldSpec : f = [f EXCEPT !.type = f.type]
    BY DEF FieldSpec
  <2>3. \A k \in DOMAIN BaseFields : BaseFields[k] \in FieldSpec
    BY <2>1
  <2>4. Len(BaseFields) <= Len(fields)
    BY <2>1
  <2> QED
    BY <2>1, <2>2, <2>3, <2>4 DEF TableTypeOK
<1>2. rows \in Seq(ToSet(rows))
  BY QueryAssumption DEF QueryInit
<1>3. filter \in {NoFilter, EmptyFilter} /\ filter \in Filters \cup {NoFilter}
  BY EmptyIsFilter DEF QueryInit
<1>4. QueryTypeOK
  BY <1>1, <1>2, <1>3 DEF QueryInit, QueryTypeOK, NoAnswer
<1>5. EmptyFilter.field = NoName /\ EmptyFilter.value = Null /\ EmptyFilter.inner = <<>>
  BY DEF EmptyFilter, Cond
<1>6. AsAsked
  <2>1. asked = <<>> /\ Len(asked) = 0 /\ Len(ReadOf(filter)) = 0
    BY <1>3, <1>5 DEF QueryInit, ReadOf
  <2> QED
    BY <1>3, <1>5, <2>1 DEF AsAsked, Holds, Wanted, RootTaken, Tracked, Wants, SaysNothing
<1> QED
  BY <1>4, <1>6 DEF QueryInv

\* A condition more inside of the filter.
LEMMA AppendedHolds ==
  ASSUME NEW s \in Seq(AskedSet), NEW a \in AskedSet, NEW t, t = Append(s, a),
         NEW fr, NEW g, NEW c, Holds(fr, s),
         fr # NoFilter, g # NoFilter, AskedAs(a, c),
         fr.field # NoName => a.within \/ Len(fr.inner) # 0,
         g.field = fr.field, g.value = fr.value,
         Len(fr.inner) \in Nat, Len(g.inner) = Len(fr.inner) + 1,
         \A i \in 1..Len(fr.inner) : g.inner[i] = fr.inner[i],
         g.inner[Len(fr.inner) + 1] = c
  PROVE  Holds(g, t)
<1>1. /\ t \in Seq(AskedSet)
      /\ Len(s) \in Nat /\ Len(t) = Len(s) + 1 /\ Len(t) \in 1..Len(t)
      /\ \A n \in 1..Len(t) : n \in 1..Len(s) \/ n = Len(t)
      /\ \A n \in 1..Len(s) : n \in 1..Len(t) /\ t[n] = s[n]
      /\ t[Len(t)] = a
      /\ \A fr1 : Wants(s, fr1) => Wants(t, fr1)
      /\ \A fr1 : AskedAs(a, fr1) => Wants(t, fr1)
      /\ Plainly(t) => Plainly(s) /\ ~a.within /\ a.field # NoName
  <2>1. Grew(s, a, t)
    BY AskedGrows
  <2> QED
    BY <2>1 DEF Grew
<1>2. Wants(t, c)
  BY <1>1
<1>3. Wanted(fr, s) /\ RootTaken(fr, s) /\ Tracked(fr, s)
  BY DEF Holds
<1>4. Wants(t, g)
  BY <1>1, <1>3 DEF Wanted, Wants, SaysNothing, AskedAs
<1>5. ASSUME NEW i \in 1..Len(g.inner) PROVE Wants(t, g.inner[i])
  <2>1. i \in 1..Len(fr.inner) \/ i = Len(fr.inner) + 1
    OBVIOUS
  <2> QED
    BY <1>1, <1>2, <1>3, <2>1 DEF Wanted
<1>6. RootTaken(g, t)
  BY <1>1, <1>3 DEF RootTaken
<1>7. ASSUME Plainly(t) PROVE Tracked(g, t)
  <2>1. fr.field = NoName
    BY <1>1, <1>3, <1>7 DEF RootTaken, Plainly
  <2>2. ReadOf(fr) = fr.inner /\ ReadOf(g) = g.inner
    BY <2>1 DEF ReadOf
  <2>3. Len(fr.inner) = Len(s) /\ \A n \in 1..Len(s) : AskedAs(s[n], fr.inner[n])
    BY <1>1, <1>3, <1>7, <2>2 DEF Tracked
  <2> QED
    BY <1>1, <2>2, <2>3 DEF Tracked
<1> QED
  BY <1>4, <1>5, <1>6, <1>7 DEF Holds, Tracked, Wanted

\* A condition more inside of one that is inside of the filter.
LEMMA DeepenedHolds ==
  ASSUME NEW s \in Seq(AskedSet), NEW a \in AskedSet, NEW t, t = Append(s, a),
         NEW fr, NEW g, Holds(fr, s), fr # NoFilter, a.within,
         g.field = fr.field, g.value = fr.value,
         Len(fr.inner) \in Nat, Len(g.inner) = Len(fr.inner),
         \A i \in 1..Len(fr.inner) :
           g.inner[i].field = fr.inner[i].field /\ g.inner[i].value = fr.inner[i].value
  PROVE  Holds(g, t)
<1>1. /\ t \in Seq(AskedSet)
      /\ Len(s) \in Nat /\ Len(t) = Len(s) + 1 /\ Len(t) \in 1..Len(t)
      /\ \A n \in 1..Len(t) : n \in 1..Len(s) \/ n = Len(t)
      /\ \A n \in 1..Len(s) : n \in 1..Len(t) /\ t[n] = s[n]
      /\ t[Len(t)] = a
      /\ \A fr1 : Wants(s, fr1) => Wants(t, fr1)
      /\ \A fr1 : AskedAs(a, fr1) => Wants(t, fr1)
      /\ Plainly(t) => Plainly(s) /\ ~a.within /\ a.field # NoName
  <2>1. Grew(s, a, t)
    BY AskedGrows
  <2> QED
    BY <2>1 DEF Grew
<1>3. Wanted(fr, s)
  BY DEF Holds
<1>4. Wants(t, g)
  BY <1>1, <1>3 DEF Wanted, Wants, SaysNothing, AskedAs
<1>5. ASSUME NEW i \in 1..Len(g.inner) PROVE Wants(t, g.inner[i])
  <2>1. Wants(t, fr.inner[i])
    BY <1>1, <1>3 DEF Wanted
  <2> QED
    BY <2>1 DEF Wants, SaysNothing, AskedAs
<1>6. RootTaken(g, t)
  BY <1>1 DEF RootTaken
<1>7. ~Plainly(t)
  BY <1>1 DEF Plainly
<1> QED
  BY <1>4, <1>5, <1>6, <1>7 DEF Holds, Tracked, Wanted

\* addFilter.
LEMMA GrownHolds ==
  ASSUME NEW s \in Seq(AskedSet), NEW a \in AskedSet, NEW t, t = Append(s, a),
         NEW fr, NEW g, NEW c, Holds(fr, s),
         AskedAs(a, c), c.inner = <<>>, g # NoFilter,
         fr = EmptyFilter => a.within,
         fr = NoFilter => g = c,
         fr # NoFilter => fr.inner = <<>> \/ Len(fr.inner) \in Nat \ {0},
         fr # NoFilter /\ fr.inner = <<>> =>
           g.field = NoName /\ g.value = Null /\ g.inner = <<fr, c>>,
         fr # NoFilter /\ fr.inner # <<>> =>
           /\ g.field = fr.field /\ g.value = fr.value
           /\ Len(g.inner) = Len(fr.inner) + 1
           /\ \A i \in 1..Len(fr.inner) : g.inner[i] = fr.inner[i]
           /\ g.inner[Len(fr.inner) + 1] = c
  PROVE  Holds(g, t)
<1>1. /\ t \in Seq(AskedSet)
      /\ Len(s) \in Nat /\ Len(t) = Len(s) + 1 /\ Len(t) \in 1..Len(t)
      /\ \A n \in 1..Len(t) : n \in 1..Len(s) \/ n = Len(t)
      /\ \A n \in 1..Len(s) : n \in 1..Len(t) /\ t[n] = s[n]
      /\ t[Len(t)] = a
      /\ \A fr1 : Wants(s, fr1) => Wants(t, fr1)
      /\ \A fr1 : AskedAs(a, fr1) => Wants(t, fr1)
      /\ Plainly(t) => Plainly(s) /\ ~a.within /\ a.field # NoName
  <2>1. Grew(s, a, t)
    BY AskedGrows
  <2> QED
    BY <2>1 DEF Grew
<1>2. Wants(t, c)
  BY <1>1
<1>3. Wanted(fr, s) /\ RootTaken(fr, s) /\ Tracked(fr, s)
  BY DEF Holds
<1>4. CASE fr = NoFilter
  <2>1. Wanted(g, t) /\ RootTaken(g, t)
    BY <1>2, <1>4 DEF Wanted, RootTaken
  <2>2. ASSUME Plainly(t) PROVE Tracked(g, t)
    <3>1. Len(s) = 0 /\ Len(t) = 1 /\ t[1] = a
      BY <1>1, <1>3, <1>4, <2>2 DEF Tracked, ReadOf
    <3>2. ReadOf(g) = <<c>>
      BY <1>1, <1>4, <2>2 DEF ReadOf, AskedAs
    <3> QED
      BY <3>1, <3>2 DEF Tracked
  <2> QED
    BY <2>1, <2>2 DEF Holds, Tracked
<1>5. CASE fr # NoFilter /\ fr.inner = <<>>
  <2>0. g.field = NoName /\ g.value = Null /\ g.inner = <<fr, c>>
    BY <1>5
  <2>1. Wants(t, fr) /\ Wants(t, g)
    BY <1>1, <1>3, <1>5, <2>0 DEF Wanted, Wants, SaysNothing
  <2>2. Len(g.inner) = 2 /\ g.inner[1] = fr /\ g.inner[2] = c
    BY <2>0
  <2>3. Wanted(g, t) /\ RootTaken(g, t)
    BY <1>2, <2>0, <2>1, <2>2 DEF Wanted, RootTaken
  <2>4. ASSUME Plainly(t) PROVE Tracked(g, t)
    <3>1. fr # EmptyFilter /\ fr.field # NoName
      BY <1>1, <1>3, <1>5, <2>4 DEF Tracked, ReadOf
    <3>2. ReadOf(fr) = <<fr>>
      BY <1>5, <3>1 DEF ReadOf
    <3>3. Len(s) = 1 /\ AskedAs(s[1], fr)
      BY <1>1, <1>3, <2>4, <3>2 DEF Tracked
    <3>4. Len(t) = 2 /\ t[1] = s[1] /\ t[2] = a
      BY <1>1, <3>3
    <3>5. ReadOf(g) = g.inner
      BY <2>0 DEF ReadOf
    <3> QED
      BY <2>2, <3>3, <3>4, <3>5 DEF Tracked
  <2> QED
    BY <2>3, <2>4 DEF Holds, Tracked
<1>6. CASE fr # NoFilter /\ fr.inner # <<>>
  BY <1>6, AppendedHolds
<1> QED
  BY <1>4, <1>5, <1>6

-----------------------------------------------------------------------------
(* The builders. *)

HandleOK(h, fr) == h = <<>> \/ (fr # NoFilter /\ \E i \in 1..Len(fr.inner) : h = <<i>>)

AnswerSet ==
  [op : {"none", "query", "delete"}, status : {"ok", "error", "notfound"}, rows : Seq(Nat)]

\* The type invariant in parts that speak of values and not of the state.
PartsOK ==
  /\ TableTypeOK /\ rows \in Seq(ToSet(rows))
  /\ filter \in Filters \cup {NoFilter} /\ HandleOK(handle, filter)
  /\ limit \in Int /\ sort \in {"none", "asc", "desc"}
  /\ asked \in Seq(AskedSet) /\ answer \in AnswerSet

LEMMA InnerDomain == \A fr \in Filters : DOMAIN fr.inner = 1..Len(fr.inner)
<1> SUFFICES ASSUME NEW fr \in Filters PROVE DOMAIN fr.inner = 1..Len(fr.inner)
  OBVIOUS
<1>1. fr.inner \in Seq(Inners)
  BY FilterIs, FiltersAre
<1> QED
  BY <1>1

LEMMA TypeParts == QueryTypeOK <=> PartsOK
  BY InnerDomain DEF QueryTypeOK, PartsOK, HandleOK, AskedSet, AnswerSet

LEMMA TypePartsNext == QueryTypeOK' <=> PartsOK'
  BY InnerDomain DEF QueryTypeOK, PartsOK, HandleOK, AskedSet, AnswerSet

\* What the other conjuncts speak of.
SpecKept == fields' = fields /\ indexes' = indexes

LEMMA SpecKeptFacts ==
  ASSUME SpecKept, TableTypeOK
  PROVE  TableTypeOK'
  BY DEF SpecKept, TableTypeOK

LEMMA AddFilterQueryInv ==
  ASSUME QueryInv, NEW field \in DOMAIN LowerName, NEW value \in Values, AddFilter(field, value)
  PROVE  QueryInv'
<1> DEFINE a == [field |-> field, value |-> value, within |-> filter = EmptyFilter]
<1>0. QueryTypeOK /\ Holds(filter, asked)
  BY DEF QueryInv, AsAsked
<1>1. PICK fr, s : fr = filter /\ s = asked
  OBVIOUS
<1>2. PICK g, c : g = filter' /\ c = Cond(field, value) /\ g = Grown(c)
  BY DEF AddFilter
<1>3. /\ g \in Filters /\ g # NoFilter
      /\ c.field = field /\ c.value = value /\ c.inner = <<>>
      /\ fr = NoFilter => g = c
      /\ fr # NoFilter /\ fr.inner = <<>> =>
           g.field = NoName /\ g.value = Null /\ g.inner = <<fr, c>>
      /\ fr # NoFilter /\ fr.inner # <<>> =>
           /\ Len(fr.inner) \in Nat
           /\ g.field = fr.field /\ g.value = fr.value
           /\ Len(g.inner) = Len(fr.inner) + 1
           /\ \A i \in 1..Len(fr.inner) : g.inner[i] = fr.inner[i]
           /\ g.inner[Len(fr.inner) + 1] = c
  BY <1>0, <1>1, <1>2, GrownIs
<1>4. s \in Seq(AskedSet) /\ HandleOK(handle, fr) /\ Holds(fr, s)
  BY <1>0, <1>1, TypeParts DEF PartsOK
<1>5. fr # NoFilter => fr.inner = <<>> \/ Len(fr.inner) \in Nat \ {0}
  <2> SUFFICES ASSUME fr # NoFilter PROVE fr.inner = <<>> \/ Len(fr.inner) \in Nat \ {0}
    OBVIOUS
  <2>1. fr.inner \in Seq(Inners)
    BY <1>0, <1>1, FilterParts
  <2> QED
    BY <2>1
<1>6. a \in AskedSet /\ asked' = Append(s, a) /\ a.field = field /\ a.value = value
      /\ (fr = EmptyFilter => a.within)
  BY <1>1 DEF AddFilter, AskedSet
<1>7. AskedAs(a, c)
  BY <1>3, <1>6 DEF AskedAs
<1> HIDE DEF a
<1>8. PICK t : t = Append(s, a) /\ t = asked'
  BY <1>6
<1>9. Holds(g, t)
  BY <1>3, <1>4, <1>5, <1>6, <1>7, <1>8, GrownHolds
<1>10. HandleOK(handle', g)
  <2>1. CASE fr # NoFilter /\ fr.inner = <<>>
    <3>1. handle' = <<1>> /\ g.inner = <<fr, c>>
      BY <1>1, <1>3, <2>1 DEF AddFilter
    <3>2. 1 \in 1..Len(<<fr, c>>)
      OBVIOUS
    <3> QED
      BY <1>3, <3>1, <3>2 DEF HandleOK
  <2>2. CASE fr = NoFilter
    BY <1>1, <1>4, <2>2 DEF AddFilter, HandleOK
  <2>3. CASE fr # NoFilter /\ fr.inner # <<>>
    <3>1. handle' = handle /\ Len(g.inner) = Len(fr.inner) + 1 /\ Len(fr.inner) \in Nat
      BY <1>1, <1>3, <2>3 DEF AddFilter
    <3> QED
      BY <1>3, <1>4, <3>1 DEF HandleOK
  <2> QED
    BY <2>1, <2>2, <2>3
<1>11. SpecKept /\ rows' = rows /\ limit' = limit /\ sort' = sort /\ answer' = NoAnswer
  BY DEF AddFilter, SpecKept
<1>12. asked' \in Seq(AskedSet)
  BY <1>4, <1>6
<1>13. QueryTypeOK'
  <2>1. TableTypeOK' /\ rows' \in Seq(ToSet(rows')) /\ limit' \in Int
        /\ sort' \in {"none", "asc", "desc"}
    BY <1>0, <1>11, SpecKeptFacts, TypeParts DEF PartsOK
  <2>2. answer' \in AnswerSet
    BY <1>11 DEF NoAnswer, AnswerSet
  <2>3. filter' \in Filters \cup {NoFilter} /\ HandleOK(handle', filter')
    BY <1>2, <1>3, <1>10
  <2> QED
    BY <1>12, <2>1, <2>2, <2>3, TypePartsNext DEF PartsOK
<1> QED
  BY <1>0, <1>2, <1>8, <1>9, <1>11, <1>13, SpecKeptFacts DEF QueryInv, AsAsked

\* What And and SearchFilter hold is inside of the filter.
LEMMA AndQueryInv ==
  ASSUME QueryInv, NEW field \in DOMAIN LowerName, NEW value \in Values, And(field, value)
  PROVE  QueryInv'
<1> DEFINE a == [field |-> field, value |-> value,
                 within |-> handle # <<>> \/ filter.field # NoName]
<1>0. QueryTypeOK /\ Holds(filter, asked) /\ filter # NoFilter
  BY DEF QueryInv, AsAsked, And
<1>1. PICK fr, s, c : fr = filter /\ s = asked /\ c = Cond(field, value)
  OBVIOUS
<1>2. /\ c \in Leaves /\ c \in Inners /\ c.field = field /\ c.value = value
  BY <1>1, CondIsLeaf DEF Cond
<1>3. /\ s \in Seq(AskedSet) /\ HandleOK(handle, fr) /\ Holds(fr, s)
      /\ fr # NoFilter /\ fr \in Filters /\ fr.inner \in Seq(Inners) /\ Len(fr.inner) \in Nat
      /\ DOMAIN fr.inner = 1..Len(fr.inner)
  BY <1>0, <1>1, TypeParts, FilterParts DEF PartsOK
<1>4. /\ a \in AskedSet /\ asked' = Append(s, a) /\ a.field = field /\ a.value = value
      /\ (a.within <=> handle # <<>> \/ fr.field # NoName)
  BY <1>1 DEF And, AskedSet
<1>5. AskedAs(a, c)
  BY <1>2, <1>4 DEF AskedAs
<1> HIDE DEF a
<1>6. PICK t, g : t = Append(s, a) /\ t = asked' /\ g = filter'
  BY <1>4
<1>7. SpecKept /\ rows' = rows /\ limit' = limit /\ sort' = sort /\ answer' = NoAnswer
      /\ handle' = handle
  BY DEF And, SpecKept
<1>8. g \in Filters /\ g # NoFilter /\ HandleOK(handle, g) /\ Holds(g, t)
  <2>1. CASE handle = <<>>
    <3>1. g = [fr EXCEPT !.inner = Append(@, c)]
      BY <1>1, <1>6, <2>1 DEF And
    <3>2. /\ g \in Filters /\ g.field = fr.field /\ g.value = fr.value
          /\ Len(g.inner) = Len(fr.inner) + 1
          /\ \A i \in 1..Len(fr.inner) : g.inner[i] = fr.inner[i]
          /\ g.inner[Len(fr.inner) + 1] = c
      BY <1>2, <1>3, <3>1, AppendInner
    <3>3. g # NoFilter
      BY <3>2, QueryAssumption
    <3>4. fr.field # NoName => a.within
      BY <1>4
    <3>5. Holds(g, t)
      BY <1>3, <1>4, <1>5, <1>6, <3>2, <3>3, <3>4, AppendedHolds
    <3> QED
      BY <2>1, <3>2, <3>3, <3>5 DEF HandleOK
  <2>2. CASE handle # <<>>
    <3>1. PICK i \in 1..Len(fr.inner) : handle = <<i>>
      BY <1>3, <2>2 DEF HandleOK
    <3>2. handle[1] = i
      BY <3>1
    <3>3. g = [fr EXCEPT !.inner[i].inner = Append(@, c)]
      BY <1>1, <1>6, <2>2, <3>2 DEF And
    <3>4. /\ g \in Filters /\ g.field = fr.field /\ g.value = fr.value
          /\ DOMAIN g.inner = DOMAIN fr.inner
          /\ \A k \in DOMAIN fr.inner :
               g.inner[k].field = fr.inner[k].field /\ g.inner[k].value = fr.inner[k].value
      <4>1. i \in DOMAIN fr.inner /\ fr \in Filters /\ c \in Leaves
        BY <1>2, <1>3, <3>1
      <4>2. Deepened(fr, [fr EXCEPT !.inner[i].inner = Append(@, c)])
        BY <4>1, DeepenInner, Zenon
      <4>3. Deepened(fr, g)
        BY <3>3, <4>2, Zenon
      <4> QED
        BY <4>3 DEF Deepened
    <3>5. g # NoFilter
      BY <3>4, QueryAssumption
    <3>6. Len(g.inner) = Len(fr.inner)
      <4>1. g.inner \in Seq(Inners)
        BY <3>4, FilterIs, FiltersAre
      <4> QED
        BY <1>3, <3>4, <4>1
    <3>7. Holds(g, t)
      BY <1>3, <1>4, <1>6, <2>2, <3>4, <3>6, DeepenedHolds
    <3> QED
      BY <3>1, <3>4, <3>5, <3>6, <3>7 DEF HandleOK
  <2> QED
    BY <2>1, <2>2
<1>9. asked' \in Seq(AskedSet)
  BY <1>3, <1>4
<1>10. QueryTypeOK'
  <2>1. TableTypeOK' /\ rows' \in Seq(ToSet(rows')) /\ limit' \in Int
        /\ sort' \in {"none", "asc", "desc"}
    BY <1>0, <1>7, SpecKeptFacts, TypeParts DEF PartsOK
  <2>2. answer' \in AnswerSet
    BY <1>7 DEF NoAnswer, AnswerSet
  <2>3. filter' \in Filters \cup {NoFilter} /\ HandleOK(handle', filter')
    BY <1>6, <1>7, <1>8
  <2> QED
    BY <1>9, <2>1, <2>2, <2>3, TypePartsNext DEF PartsOK
<1> QED
  BY <1>0, <1>6, <1>7, <1>8, <1>10, SpecKeptFacts DEF QueryInv, AsAsked

LEMMA SearchFilterQueryInv ==
  ASSUME QueryInv, NEW field \in DOMAIN LowerName, SearchFilter(field)
  PROVE  QueryInv'
<1> DEFINE I == {i \in 1..Len(filter.inner) : filter.inner[i].field = field}
           n == SelectInSeq(filter.inner, LAMBDA fr : fr.field = field)
<1>1. n = IF I # {} THEN Min(I) ELSE 0
  BY DEF SelectInSeq
<1>2. I \subseteq Nat
  OBVIOUS
<1>3. I # {} => Min(I) \in I
  BY <1>2, LeastIn
<1>4. n # 0 => n \in 1..Len(filter.inner)
  BY <1>1, <1>3
<1> HIDE DEF n, I
<1>5. PartsOK /\ AsAsked
  BY TypeParts DEF QueryInv
<1>6. filter # NoFilter
      /\ handle' = (IF filter.field = field THEN <<>> ELSE IF n # 0 THEN <<n>> ELSE handle)
      /\ UNCHANGED <<fields, indexes, rows, filter, limit, sort, asked, answer>>
  BY DEF SearchFilter, n
<1>7. HandleOK(handle', filter)
  BY <1>4, <1>5, <1>6 DEF PartsOK, HandleOK
<1>8. SpecKept
  BY <1>6 DEF SpecKept
<1>9. PartsOK'
  BY <1>5, <1>6, <1>7, <1>8, SpecKeptFacts DEF PartsOK
<1> QED
  BY <1>5, <1>6, <1>8, <1>9, SpecKeptFacts, TypePartsNext DEF QueryInv, AsAsked

\* A step that leaves the filter and what was asked alone.
LEMMA OtherQueryInv ==
  ASSUME QueryInv, filter' = filter, handle' = handle, asked' = asked,
         TableTypeOK', rows' \in Seq(ToSet(rows')), limit' \in Int,
         sort' \in {"none", "asc", "desc"}, answer' \in AnswerSet
  PROVE  QueryInv'
<1>1. PartsOK /\ AsAsked
  BY TypeParts DEF QueryInv
<1>2. PartsOK'
  BY <1>1 DEF PartsOK
<1> QED
  BY <1>1, <1>2, TypePartsNext DEF QueryInv, AsAsked

LEMMA ChangeSpecQueryInv ==
  ASSUME QueryInv, ChangeSpec
  PROVE  QueryInv'
<1>1. PartsOK /\ TableTypeOK
  BY TypeParts DEF QueryInv, PartsOK
<1>2. /\ rows' = rows /\ limit' = limit /\ sort' = sort /\ answer' = NoAnswer
      /\ filter' = filter /\ handle' = handle /\ asked' = asked
  BY DEF ChangeSpec
<1>3. TableTypeOK'
  <2>1. CASE \E tag \in DOMAIN ToLower, type \in FieldTypes : SetField(tag, type)
    BY <1>1, <2>1, SetFieldTable
  <2>2. CASE \E tags \in UNION {[1..n -> DOMAIN ToLower] : n \in 1..2}, type \in IndexTypes :
               SetIndex(tags, type)
    <3>1. PICK m \in 1..2 : \E tags \in [1..m -> DOMAIN ToLower], type \in IndexTypes :
                              SetIndex(tags, type)
      BY <2>2
    <3>2. m \in Nat
      OBVIOUS
    <3>3. PICK tags \in [1..m -> DOMAIN ToLower], type \in IndexTypes : SetIndex(tags, type)
      BY <3>1
    <3> QED
      BY <1>1, <3>2, <3>3, SetIndexTable
  <2> QED
    BY <2>1, <2>2 DEF ChangeSpec
<1>4. answer' \in AnswerSet
  BY <1>2 DEF NoAnswer, AnswerSet
<1> QED
  BY <1>1, <1>2, <1>3, <1>4, OtherQueryInv DEF PartsOK

LEMMA SettingQueryInv ==
  ASSUME QueryInv, (\E n \in {-1, 1} : SetLimit(n)) \/ (\E type \in {"asc", "desc"} : SetSort(type))
  PROVE  QueryInv'
<1>1. PartsOK /\ TableTypeOK
  BY TypeParts DEF QueryInv, PartsOK
<1>2. /\ SpecKept /\ rows' = rows /\ answer' = NoAnswer
      /\ filter' = filter /\ handle' = handle /\ asked' = asked
      /\ limit' \in Int /\ sort' \in {"none", "asc", "desc"}
  BY <1>1 DEF SetLimit, SetSort, SpecKept, PartsOK
<1>3. answer' \in AnswerSet
  BY <1>2 DEF NoAnswer, AnswerSet
<1>4. TableTypeOK' /\ rows' \in Seq(ToSet(rows'))
  BY <1>1, <1>2, SpecKeptFacts DEF PartsOK
<1> QED
  BY <1>2, <1>3, <1>4, OtherQueryInv

\* The rows of an answer are a page in some order.
LEMMA PageIsOfRows ==
  ASSUME rows \in Seq(ToSet(rows)), NEW n \in Int
  PROVE  /\ Found \subseteq 1..Len(rows) /\ Page(n) \subseteq Found
         /\ IsFiniteSet(Found) /\ Cardinality(Found) \in Nat
         /\ IsFiniteSet(Page(n)) /\ Cardinality(Page(n)) \in Nat
<1>1. DOMAIN rows = 1..Len(rows) /\ Len(rows) \in Nat
  OBVIOUS
<1>2. Found \subseteq 1..Len(rows) /\ Page(n) \subseteq Found
  BY <1>1 DEF Found, Page
<1>3. IsFiniteSet(1..Len(rows))
  BY <1>1, FS_Interval
<1> QED
  BY <1>2, <1>3, FS_Subset, FS_CardinalityType

Lists(s, S) ==
  s \in [1..Cardinality(S) -> S] /\ \A i, j \in 1..Cardinality(S) : i # j => s[i] # s[j]

LEMMA QueryAnswers ==
  ASSUME QueryTypeOK, Query
  PROVE  /\ \E n \in Int : /\ limit' = n /\ n # 0
                           /\ FieldsKnown => Lists(answer'.rows, Page(n))
         /\ UNCHANGED <<fields, indexes, rows, filter, handle, sort, asked>>
         /\ answer' \in AnswerSet /\ answer'.op = "query"
<1>1. PICK n \in Int : n = IF limit = 0 THEN 10 ELSE limit
  BY DEF QueryTypeOK
<1>2. limit' = n /\ n # 0 /\ UNCHANGED <<fields, indexes, rows, filter, handle, sort, asked>>
  BY <1>1 DEF Query
<1>3. CASE ~FieldsKnown
  <2>1. answer' = [op |-> "query", status |-> "error", rows |-> <<>>]
    BY <1>3 DEF Query
  <2> QED
    BY <1>2, <1>3, <2>1 DEF AnswerSet
<1>4. CASE FieldsKnown
  <2>1. PICK s \in SetToSeqs(Page(n)) :
          answer' = [op |-> "query", rows |-> s,
                     status |-> IF s = <<>> THEN "notfound" ELSE "ok"]
    BY <1>1, <1>4 DEF Query
  <2>2. PICK P : P = Page(n)
    OBVIOUS
  <2>3. Lists(s, P)
    BY <2>1, <2>2, Zenon DEF SetToSeqs, Lists
  <2>4. P \subseteq Nat /\ Cardinality(P) \in Nat
    <3>1. rows \in Seq(ToSet(rows))
      BY DEF QueryTypeOK
    <3>2. Found \subseteq 1..Len(rows) /\ P \subseteq Found /\ Cardinality(P) \in Nat
      BY <2>2, <3>1, PageIsOfRows
    <3> QED
      BY <3>2
  <2>5. s \in Seq(Nat)
    <3>1. PICK k \in Nat : k = Cardinality(P)
      BY <2>4
    <3>2. s \in [1..k -> Nat]
      BY <2>3, <2>4, <3>1 DEF Lists
    <3> QED
      BY <3>2
  <2>6. answer' \in AnswerSet /\ answer'.op = "query" /\ answer'.rows = s
    BY <2>1, <2>5 DEF AnswerSet
  <2> QED
    BY <1>2, <2>2, <2>3, <2>6
<1> QED
  BY <1>3, <1>4

LEMMA QueryQueryInv ==
  ASSUME QueryInv, Query
  PROVE  QueryInv'
<1>1. PartsOK /\ TableTypeOK /\ QueryTypeOK
  BY TypeParts DEF QueryInv, PartsOK
<1>2. /\ SpecKept /\ rows' = rows /\ answer' \in AnswerSet
      /\ filter' = filter /\ handle' = handle /\ asked' = asked
      /\ limit' \in Int /\ sort' = sort
  BY <1>1, QueryAnswers DEF SpecKept
<1>3. TableTypeOK' /\ rows' \in Seq(ToSet(rows')) /\ sort' \in {"none", "asc", "desc"}
  BY <1>1, <1>2, SpecKeptFacts DEF PartsOK
<1> QED
  BY <1>2, <1>3, OtherQueryInv

-----------------------------------------------------------------------------
(* Delete. *)

LEMMA RowsWithout ==
  ASSUME NEW s, s \in Seq(ToSet(s)), NEW i \in 1..Len(s)
  PROVE  RemoveAt(s, i) \in Seq(ToSet(RemoveAt(s, i)))
<1>1. PICK S : S = ToSet(s)
  OBVIOUS
<1>2. s \in Seq(S) /\ Len(s) \in Nat
  BY <1>1
<1>3. SubSeq(s, 1, i - 1) \in Seq(S) /\ SubSeq(s, i + 1, Len(s)) \in Seq(S)
  <2>1. \A m, n \in Nat : 1 <= m /\ n <= Len(s) => SubSeq(s, m, n) \in Seq(S)
    BY <1>2
  <2>2. i - 1 \in Nat /\ i + 1 \in Nat /\ 1 <= i + 1 /\ i - 1 <= Len(s)
    BY <1>2
  <2> QED
    BY <1>2, <2>1, <2>2
<1>4. PICK t : t = RemoveAt(s, i)
  OBVIOUS
<1>5. t \in Seq(S)
  BY <1>3, <1>4 DEF RemoveAt
<1>6. t \in Seq(ToSet(t))
  BY <1>5 DEF ToSet
<1> QED
  BY <1>4, <1>6

\* The row that goes has the key asked for.
LEMMA DeleteRemoves ==
  ASSUME QueryTypeOK, Delete, rows' # rows
  PROVE  /\ ~DeleteDenied
         /\ \E i \in 1..Len(rows) : rows' = RemoveAt(rows, i) /\ rows[i][Pk] = KeyAsked
<1> DEFINE I == {i \in 1..Len(rows) : rows[i][Pk] = KeyAsked}
           n == SelectInSeq(rows, LAMBDA row : row[Pk] = KeyAsked)
<1>1. n = IF I # {} THEN Min(I) ELSE 0
  BY DEF SelectInSeq
<1>2. I \subseteq Nat
  OBVIOUS
<1>3. I # {} => Min(I) \in I
  BY <1>2, LeastIn
<1>4. n # 0 => n \in I
  BY <1>1, <1>3
<1>5. n # 0 => n \in 1..Len(rows) /\ rows[n][Pk] = KeyAsked
  BY <1>4
<1>6. ~DeleteDenied /\ rows' = IF n = 0 THEN rows ELSE RemoveAt(rows, n)
  BY Zenon DEF Delete
<1> HIDE DEF n, I
<1> QED
  BY <1>5, <1>6

LEMMA DeleteQueryInv ==
  ASSUME QueryInv, Delete
  PROVE  QueryInv'
<1>1. PartsOK /\ TableTypeOK /\ QueryTypeOK
  BY TypeParts DEF QueryInv, PartsOK
<1>2. /\ SpecKept /\ limit' = limit /\ sort' = sort
      /\ filter' = filter /\ handle' = handle /\ asked' = asked
      /\ \/ answer' = [op |-> "delete", status |-> "error", rows |-> <<>>]
         \/ answer' = [op |-> "delete", status |-> "ok", rows |-> <<>>]
  BY Zenon DEF SpecKept, Delete
<1>3. answer' \in AnswerSet
  <2>1. [op |-> "delete", status |-> "error", rows |-> <<>>] \in AnswerSet
    BY DEF AnswerSet
  <2>2. [op |-> "delete", status |-> "ok", rows |-> <<>>] \in AnswerSet
    BY DEF AnswerSet
  <2> QED
    BY <1>2, <2>1, <2>2
<1>4. rows' \in Seq(ToSet(rows'))
  <2>0. rows \in Seq(ToSet(rows))
    BY <1>1 DEF PartsOK
  <2>1. CASE rows' = rows
    BY <2>0, <2>1
  <2>2. CASE rows' # rows
    <3>1. PICK i \in 1..Len(rows) : rows' = RemoveAt(rows, i)
      BY <1>1, <2>2, DeleteRemoves
    <3>2. RemoveAt(rows, i) \in Seq(ToSet(RemoveAt(rows, i)))
      BY <2>0, RowsWithout
    <3> QED
      BY <3>1, <3>2
  <2> QED
    BY <2>1, <2>2
<1>5. TableTypeOK' /\ limit' \in Int /\ sort' \in {"none", "asc", "desc"}
  BY <1>1, <1>2, SpecKeptFacts DEF PartsOK
<1> QED
  BY <1>2, <1>3, <1>4, <1>5, OtherQueryInv

LEMMA NextQueryInv == QueryInv /\ [QueryNext]_queryVars => QueryInv'
<1> SUFFICES ASSUME QueryInv, [QueryNext]_queryVars PROVE QueryInv'
  OBVIOUS
<1>1. CASE QueryNext
  BY <1>1, AddFilterQueryInv, AndQueryInv, SearchFilterQueryInv, SettingQueryInv,
     ChangeSpecQueryInv, QueryQueryInv, DeleteQueryInv DEF QueryNext
<1>2. CASE UNCHANGED queryVars
  <2>1. SpecKept /\ rows' = rows /\ limit' = limit /\ sort' = sort /\ answer' = answer
        /\ filter' = filter /\ handle' = handle /\ asked' = asked
    BY <1>2 DEF queryVars, SpecKept
  <2>2. PartsOK
    BY TypeParts DEF QueryInv
  <2> QED
    BY <2>1, <2>2, SpecKeptFacts, OtherQueryInv DEF PartsOK
<1> QED
  BY <1>1, <1>2

LEMMA QueryAlways == QuerySpec => []QueryInv
<1> QED
  BY InitQueryInv, NextQueryInv, PTL DEF QuerySpec

\* What the builders of queries and specs make stays in form: filters are no
\* deeper than two lists, the filter held is one of them, and the first fields
\* of the spec are those of the store.
THEOREM QueryTypeCorrect == QuerySpec => []QueryTypeOK
<1>1. QueryInv => QueryTypeOK
  BY DEF QueryInv
<1> QED
  BY <1>1, QueryAlways, PTL

-----------------------------------------------------------------------------
(* Indexes keep their meaning. *)

-----------------------------------------------------------------------------
(* A row is deleted by its key. *)

\* The last condition on the key is inside of the filter, so it was asked for;
\* a value that makes no text is refused.
LEMMA KeyWasAsked ==
  ASSUME QueryInv, ~DeleteDenied
  PROVE  \E n \in DOMAIN asked : asked[n].field = BaseFields[Pk].tag /\ asked[n].value = KeyAsked
<1>1. QueryTypeOK /\ Wanted(filter, asked) /\ filter # NoFilter /\ KeyConditions # {}
  BY DEF QueryInv, AsAsked, Holds, DeleteDenied
<1>2. DOMAIN filter.inner = 1..Len(filter.inner) /\ Len(filter.inner) \in Nat
      /\ asked \in Seq(AskedSet) /\ DOMAIN asked = 1..Len(asked)
  BY <1>1, FilterParts DEF QueryTypeOK, AskedSet
<1>3. KeyConditions \subseteq 1..Len(filter.inner)
  BY <1>1, <1>2 DEF KeyConditions
<1>4. \E n \in KeyConditions : \A m \in KeyConditions : m <= n
  BY <1>1, <1>2, <1>3, GreatestIn
<1>5. PICK k \in KeyConditions :
        k = CHOOSE n \in KeyConditions : \A m \in KeyConditions : m <= n
  BY <1>4
<1>6. k \in 1..Len(filter.inner) /\ filter.inner[k].field = BaseFields[Pk].tag
  BY <1>1, <1>3 DEF KeyConditions
<1>7. /\ KeyAsked = StringValue(filter.inner[k].value)
      /\ StringValue(filter.inner[k].value) # ""
  BY <1>1, <1>5, Zenon DEF KeyAsked, DeleteDenied
<1>8. filter.inner[k].value # Null /\ KeyAsked = filter.inner[k].value
  BY <1>7, Zenon DEF StringValue
<1>9. Wants(asked, filter.inner[k]) /\ ~SaysNothing(filter.inner[k])
  BY <1>1, <1>6, <1>8 DEF Wanted, SaysNothing
<1>10. PICK n \in 1..Len(asked) : AskedAs(asked[n], filter.inner[k])
  BY <1>9 DEF Wants
<1> QED
  BY <1>2, <1>6, <1>8, <1>10 DEF AskedAs

\* Instance.Delete removes one row at most, and only one whose key the caller
\* gave by AddFilter or And.
THEOREM QueryDeletesByKey == QuerySpec => DeleteNeedsKey
<1>1. QueryInv /\ [QueryNext]_queryVars =>
        [rows' # rows =>
           \E i \in DOMAIN rows :
             /\ rows' = RemoveAt(rows, i)
             /\ \E n \in DOMAIN asked : asked[n].field = BaseFields[Pk].tag
                                        /\ asked[n].value = rows[i][Pk]]_queryVars
  <2> SUFFICES ASSUME QueryInv, [QueryNext]_queryVars, rows' # rows
               PROVE  \E i \in DOMAIN rows :
                        /\ rows' = RemoveAt(rows, i)
                        /\ \E n \in DOMAIN asked : asked[n].field = BaseFields[Pk].tag
                                                   /\ asked[n].value = rows[i][Pk]
    OBVIOUS
  <2>1. QueryTypeOK
    BY DEF QueryInv
  <2>2. Delete
    <3>1. Query => rows' = rows
      BY <2>1, QueryAnswers
    <3> QED
      BY <3>1 DEF QueryNext, queryVars, AddFilter, And, SearchFilter, SetLimit, SetSort,
                  ChangeSpec
  <2>3. PICK i \in 1..Len(rows) : rows' = RemoveAt(rows, i) /\ rows[i][Pk] = KeyAsked
    BY <2>1, <2>2, DeleteRemoves
  <2>4. PICK n \in DOMAIN asked : asked[n].field = BaseFields[Pk].tag /\ asked[n].value = KeyAsked
    BY <2>1, <2>2, DeleteRemoves, KeyWasAsked
  <2>5. i \in DOMAIN rows
    BY <2>1 DEF QueryTypeOK
  <2> QED
    BY <2>3, <2>4, <2>5
<1> QED
  BY <1>1, QueryAlways, PTL DEF QuerySpec, DeleteNeedsKey

-----------------------------------------------------------------------------
(* What the store reads of the filter. *)

LEMMA StoreFieldIs ==
  ASSUME TableTypeOK, NEW name \in DOMAIN LowerName
  PROVE  /\ StoreField(name) \in 0..Len(BaseFields)
         /\ StoreField(name) # 0 =>
              BaseFields[StoreField(name)].tag = LowerName[name]
<1> DEFINE base == SubSeq(fields, 1, Len(BaseFields))
           I == {i \in 1..Len(base) : base[i].tag = LowerName[name]}
<1>1. /\ fields \in Seq(FieldSpec) /\ Len(fields) \in Nat
      /\ BaseFields \in Seq(FieldSpec) /\ Len(BaseFields) \in Nat
      /\ DOMAIN BaseFields = 1..Len(BaseFields) /\ Len(BaseFields) <= Len(fields)
  BY TableAssumption DEF TableTypeOK
<1>2. Len(base) = Len(BaseFields) /\ \A i \in 1..Len(BaseFields) : base[i] = fields[i]
  BY <1>1
<1>3. StoreField(name) = IF I # {} THEN Max(I) ELSE 0
  BY DEF StoreField, SelectLastInSeq
<1> HIDE DEF base
<1>4. I # {} => Max(I) \in I
  BY <1>1, <1>2, GreatestIn
<1>5. \A i \in 1..Len(BaseFields) : fields[i].tag = BaseFields[i].tag
  <2> SUFFICES ASSUME NEW i \in 1..Len(BaseFields) PROVE fields[i].tag = BaseFields[i].tag
    OBVIOUS
  <2>1. BaseFields[i] \in FieldSpec /\ i \in DOMAIN BaseFields
    BY <1>1
  <2>2. \A f \in FieldSpec : \A t : [f EXCEPT !.type = t].tag = f.tag
    BY DEF FieldSpec
  <2>3. fields[i] = [BaseFields[i] EXCEPT !.type = fields[i].type]
    BY <2>1 DEF TableTypeOK
  <2>4. [BaseFields[i] EXCEPT !.type = fields[i].type].tag = BaseFields[i].tag
    BY <2>1, <2>2
  <2> QED
    BY <2>3, <2>4
<1>6. CASE I = {}
  BY <1>1, <1>3, <1>6
<1>7. CASE I # {}
  <2>1. StoreField(name) \in I
    BY <1>3, <1>4, <1>7
  <2> QED
    BY <1>1, <1>2, <1>5, <2>1
<1> QED
  BY <1>6, <1>7

\* A filter without a field is on no field of the store.
LEMMA NoNameNotStored ==
  ASSUME TableTypeOK
  PROVE  StoreField(NoName) = 0
<1>1. StoreField(NoName) # 0 => /\ StoreField(NoName) \in DOMAIN BaseFields
                                /\ BaseFields[StoreField(NoName)].tag = NoName
  BY QueryAssumption, TableAssumption, StoreFieldIs
<1> QED
  BY <1>1, TableAssumption

LEMMA ConditionsAreRead == Conditions = ReadOf(filter)
  BY DEF Conditions, ReadOf

\* The rows some conditions find.
KnownBy(c)  == \A n \in 1..Len(c) : StoreField(c[n].field) # 0
OnText(c)   == {n \in 1..Len(c) : fields[StoreField(c[n].field)].type = "string"}
LastOf(c)   == {n \in OnText(c) : \A m \in OnText(c) :
                  StoreField(c[m].field) = StoreField(c[n].field) => m <= n}
FoundBy(c)  == {i \in DOMAIN rows : KnownBy(c) /\ \A n \in LastOf(c) : Matches(rows[i], c[n])}

LEMMA ReadParts ==
  ASSUME NEW fr \in Filters \cup {NoFilter}
  PROVE  DOMAIN ReadOf(fr) = 1..Len(ReadOf(fr)) /\ Len(ReadOf(fr)) \in Nat
<1>1. CASE fr = NoFilter
  BY <1>1 DEF ReadOf
<1>2. CASE fr # NoFilter /\ fr.field # NoName
  BY <1>2 DEF ReadOf
<1>3. CASE fr # NoFilter /\ fr.field = NoName
  <2>1. fr.inner \in Seq(Inners)
    BY <1>3, FilterIs, FiltersAre
  <2> QED
    BY <1>3, <2>1 DEF ReadOf
<1> QED
  BY <1>1, <1>2, <1>3

LEMMA FoundIs ==
  ASSUME QueryTypeOK
  PROVE  Found = FoundBy(ReadOf(filter)) /\ (FieldsKnown <=> KnownBy(ReadOf(filter)))
         /\ Counting = LastOf(ReadOf(filter))
<1>1. PICK c : c = Conditions
  OBVIOUS
<1>2. c = ReadOf(filter) /\ DOMAIN c = 1..Len(c)
  BY <1>1, ConditionsAreRead, ReadParts DEF QueryTypeOK
<1>3. FieldsKnown <=> KnownBy(c)
  BY <1>1, <1>2 DEF FieldsKnown, KnownBy
<1>4. Counting = LastOf(c)
  BY <1>1, <1>2 DEF Counting, LastOf, OnText
<1>5. Found = FoundBy(c)
  BY <1>1, <1>3, <1>4 DEF Found, FoundBy
<1> QED
  BY <1>2, <1>3, <1>4, <1>5

\* The store reads nothing that the caller did not ask for.
LEMMA ReadWasAsked ==
  ASSUME NEW fr, NEW s, Wanted(fr, s), NEW n \in 1..Len(ReadOf(fr))
  PROVE  Wants(s, ReadOf(fr)[n])
<1>1. CASE fr = NoFilter
  BY <1>1 DEF ReadOf
<1>2. CASE fr # NoFilter /\ fr.field # NoName
  <2>1. ReadOf(fr) = <<fr>>
    BY <1>2 DEF ReadOf
  <2>2. n = 1
    BY <2>1
  <2> QED
    BY <1>2, <2>1, <2>2 DEF Wanted
<1>3. CASE fr # NoFilter /\ fr.field = NoName
  BY <1>3 DEF ReadOf, Wanted
<1> QED
  BY <1>1, <1>2, <1>3

-----------------------------------------------------------------------------
(* A condition narrows. *)

\* What was read is read still, and at most one condition on the field more.
Extends(c, d, field) ==
  /\ Len(c) \in Nat /\ Len(d) \in {Len(c), Len(c) + 1}
  /\ \A n \in 1..Len(c) : d[n].field = c[n].field /\ d[n].value = c[n].value
  /\ Len(d) = Len(c) + 1 => d[Len(d)].field = field

LEMMA ExtendingNarrows ==
  ASSUME TableTypeOK, NEW s, NEW field \in DOMAIN LowerName, NEW c, NEW d,
         Len(c) # 0 => Extends(c, d, field), Len(c) \in Nat,
         \A n \in 1..Len(c) : Wants(s, c[n]) /\ c[n].field \in DOMAIN LowerName,
         \A m \in 1..Len(s) : LowerName[s[m].field] # LowerName[field]
  PROVE  FoundBy(d) \subseteq FoundBy(c)
<1>1. CASE Len(c) = 0
  <2>1. 1..Len(c) = {} /\ LastOf(c) = {}
    BY <1>1 DEF LastOf, OnText
  <2> QED
    BY <2>1 DEF FoundBy, KnownBy
<1>2. CASE Len(c) # 0
  <2>0. Extends(c, d, field)
    BY <1>2
  <2>a. /\ Len(c) \in Nat
        /\ \A n \in 1..Len(c) : n \in 1..Len(d)
        /\ \A n \in 1..Len(d) : n \in 1..Len(c) \/ d[n].field = field
        /\ \A n \in 1..Len(c) : d[n].field = c[n].field /\ d[n].value = c[n].value
    BY <2>0 DEF Extends
  <2>1. KnownBy(d) => KnownBy(c)
    BY <2>a DEF KnownBy
  <2>2. ASSUME KnownBy(d), NEW n \in 1..Len(c)
        PROVE  StoreField(c[n].field) # StoreField(field)
    <3>1. StoreField(c[n].field) # 0 /\ ~SaysNothing(c[n])
      BY <2>1, <2>2, NoNameNotStored DEF KnownBy, SaysNothing
    <3>2. PICK m \in 1..Len(s) : c[n].field = s[m].field
      BY <3>1 DEF Wants, AskedAs
    <3>3. LowerName[c[n].field] # LowerName[field]
      BY <3>2
    <3> QED
      BY <3>1, <3>3, StoreFieldIs
  <2>3. ASSUME KnownBy(d), NEW n \in LastOf(c) PROVE n \in LastOf(d)
    <3>1. n \in 1..Len(c) /\ n \in OnText(c)
      BY <2>3 DEF LastOf, OnText
    <3>2. n \in OnText(d)
      BY <2>a, <3>1 DEF OnText
    <3>3. ASSUME NEW m \in OnText(d), StoreField(d[m].field) = StoreField(d[n].field)
          PROVE  m <= n
      <4>1. m \in 1..Len(c)
        BY <2>2, <2>3, <2>a, <3>1, <3>3 DEF OnText
      <4>2. m \in OnText(c)
        BY <2>a, <3>3, <4>1 DEF OnText
      <4> QED
        BY <2>3, <2>a, <3>1, <3>3, <4>1, <4>2 DEF LastOf
    <3> QED
      BY <3>2, <3>3 DEF LastOf
  <2>4. \A row : \A n \in 1..Len(c) : Matches(row, d[n]) => Matches(row, c[n])
    BY <2>a DEF Matches
  <2>5. LastOf(c) \subseteq 1..Len(c)
    BY DEF LastOf, OnText
  <2> QED
    BY <2>1, <2>3, <2>4, <2>5 DEF FoundBy
<1> QED
  BY <1>1, <1>2

LEMMA FoundIsNext ==
  ASSUME QueryTypeOK', fields' = fields, rows' = rows
  PROVE  Found' = FoundBy(ReadOf(filter'))
<1>1. PICK c : c = Conditions'
  OBVIOUS
<1>2. PICK g : g = filter'
  OBVIOUS
<1>3. g \in Filters \cup {NoFilter} /\ c = ReadOf(g)
  BY <1>1, <1>2 DEF QueryTypeOK, Conditions, ReadOf
<1>4. c = ReadOf(filter') /\ DOMAIN c = 1..Len(c)
  BY <1>2, <1>3, ReadParts
<1>5. \A x : StoreField(x)' = StoreField(x)
  BY DEF StoreField, SelectLastInSeq
<1>6. FieldsKnown' <=> KnownBy(c)
  BY <1>1, <1>4, <1>5 DEF FieldsKnown, KnownBy
<1>7. Counting' = LastOf(c)
  BY <1>1, <1>4, <1>5 DEF Counting, LastOf, OnText
<1>8. \A row : \A n \in 1..Len(c) : Matches(row, Conditions[n])' <=> Matches(row, c[n])
  BY <1>1, <1>5 DEF Matches
<1>9. LastOf(c) \subseteq 1..Len(c)
  BY DEF LastOf, OnText
<1>10. Found' = FoundBy(c)
  BY <1>6, <1>7, <1>8, <1>9 DEF Found, FoundBy
<1> QED
  BY <1>4, <1>10

LEMMA ReadTyped ==
  ASSUME NEW fr \in Filters \cup {NoFilter}, NEW n \in 1..Len(ReadOf(fr))
  PROVE  ReadOf(fr)[n].field \in DOMAIN LowerName
<1>1. CASE fr = NoFilter
  BY <1>1 DEF ReadOf
<1>2. CASE fr # NoFilter /\ fr.field # NoName
  <2>1. ReadOf(fr) = <<fr>> /\ fr.field \in DOMAIN LowerName
    BY <1>2, FilterIs, FiltersAre DEF ReadOf
  <2> QED
    BY <2>1
<1>3. CASE fr # NoFilter /\ fr.field = NoName
  <2>1. fr.inner \in Seq(Inners) /\ ReadOf(fr) = fr.inner
    BY <1>3, FilterIs, FiltersAre DEF ReadOf
  <2>2. ReadOf(fr)[n] \in Inners
    BY <2>1
  <2> QED
    BY <2>2, FilterIs DEF Inners
<1> QED
  BY <1>1, <1>2, <1>3

\* A condition at the root is read alone, whatever goes below it.
LEMMA RootAlone ==
  ASSUME NEW fr, NEW g, NEW field, fr.field # NoName, fr # NoFilter, g # NoFilter,
         g.field = fr.field, g.value = fr.value
  PROVE  Extends(ReadOf(fr), ReadOf(g), field)
<1>1. ReadOf(fr) = <<fr>> /\ ReadOf(g) = <<g>>
  BY DEF ReadOf
<1>2. Len(<<fr>>) = 1 /\ Len(<<g>>) = 1 /\ <<fr>>[1] = fr /\ <<g>>[1] = g
  OBVIOUS
<1> QED
  BY <1>1, <1>2 DEF Extends

LEMMA AddFilterExtends ==
  ASSUME QueryInv, NEW field \in DOMAIN LowerName, NEW value \in Values,
         AddFilter(field, value), Len(ReadOf(filter)) # 0
  PROVE  Extends(ReadOf(filter), ReadOf(filter'), field)
<1>0. QueryTypeOK
  BY DEF QueryInv
<1>1. PICK fr, g, c : fr = filter /\ g = filter' /\ c = Cond(field, value) /\ g = Grown(c)
  BY DEF AddFilter
<1>2. /\ g # NoFilter /\ c.field = field
      /\ fr # NoFilter /\ fr.inner = <<>> =>
           g.field = NoName /\ g.value = Null /\ g.inner = <<fr, c>>
      /\ fr # NoFilter /\ fr.inner # <<>> =>
           /\ Len(fr.inner) \in Nat
           /\ g.field = fr.field /\ g.value = fr.value
           /\ Len(g.inner) = Len(fr.inner) + 1
           /\ \A i \in 1..Len(fr.inner) : g.inner[i] = fr.inner[i]
           /\ g.inner[Len(fr.inner) + 1] = c
  BY <1>0, <1>1, GrownIs
<1>3. CASE fr = NoFilter \/ (fr.field = NoName /\ fr.inner = <<>>)
  <2>1. ReadOf(fr) = <<>>
    BY <1>3 DEF ReadOf
  <2> QED
    BY <1>1, <2>1
<1>4. CASE fr # NoFilter /\ fr.field # NoName /\ fr.inner = <<>>
  <2>1. ReadOf(fr) = <<fr>> /\ ReadOf(g) = <<fr, c>>
    BY <1>2, <1>4 DEF ReadOf
  <2>2. /\ Len(<<fr>>) = 1 /\ Len(<<fr, c>>) = 2 /\ <<fr>>[1] = fr
        /\ <<fr, c>>[1] = fr /\ <<fr, c>>[2] = c
    OBVIOUS
  <2>3. Extends(ReadOf(fr), ReadOf(g), field)
    BY <1>2, <2>1, <2>2 DEF Extends
  <2> QED
    BY <1>1, <2>3
<1>5. CASE fr # NoFilter /\ fr.inner # <<>> /\ fr.field # NoName
  BY <1>1, <1>2, <1>5, RootAlone
<1>6. CASE fr # NoFilter /\ fr.inner # <<>> /\ fr.field = NoName
  <2>1. ReadOf(fr) = fr.inner /\ ReadOf(g) = g.inner
    BY <1>2, <1>6 DEF ReadOf
  <2>2. Extends(fr.inner, g.inner, field)
    BY <1>2, <1>6 DEF Extends
  <2> QED
    BY <1>1, <2>1, <2>2
<1> QED
  BY <1>3, <1>4, <1>5, <1>6

LEMMA AndExtends ==
  ASSUME QueryInv, NEW field \in DOMAIN LowerName, NEW value \in Values, And(field, value)
  PROVE  Extends(ReadOf(filter), ReadOf(filter'), field)
<1>0. QueryTypeOK /\ PartsOK /\ filter # NoFilter
  BY TypeParts DEF QueryInv, And
<1>1. PICK fr, c : fr = filter /\ c = Cond(field, value)
  OBVIOUS
<1>2. PICK g : g = filter'
  OBVIOUS
<1>3. c \in Leaves /\ c \in Inners /\ c.field = field
  BY <1>1, CondIsLeaf DEF Cond
<1>4. /\ HandleOK(handle, fr) /\ fr # NoFilter /\ fr \in Filters
      /\ fr.inner \in Seq(Inners) /\ Len(fr.inner) \in Nat
      /\ DOMAIN fr.inner = 1..Len(fr.inner)
  BY <1>0, <1>1, FilterParts DEF PartsOK
<1>5. CASE handle = <<>>
  <2>1. g = [fr EXCEPT !.inner = Append(@, c)]
    BY <1>1, <1>2, <1>5 DEF And
  <2>2. /\ g \in Filters /\ g.field = fr.field /\ g.value = fr.value
        /\ Len(g.inner) = Len(fr.inner) + 1
        /\ \A i \in 1..Len(fr.inner) : g.inner[i] = fr.inner[i]
        /\ g.inner[Len(fr.inner) + 1] = c
    BY <1>3, <1>4, <2>1, AppendInner
  <2>3. g # NoFilter
    BY <2>2, QueryAssumption
  <2>4. CASE fr.field # NoName
    BY <1>1, <1>2, <1>4, <2>2, <2>3, <2>4, RootAlone
  <2>5. CASE fr.field = NoName
    <3>1. ReadOf(fr) = fr.inner /\ ReadOf(g) = g.inner
      BY <1>4, <2>2, <2>3, <2>5 DEF ReadOf
    <3>2. Extends(fr.inner, g.inner, field)
      BY <1>3, <1>4, <2>2 DEF Extends
    <3> QED
      BY <1>1, <1>2, <3>1, <3>2
  <2> QED
    BY <2>4, <2>5
<1>6. CASE handle # <<>>
  <2>1. PICK i \in 1..Len(fr.inner) : handle = <<i>>
    BY <1>4, <1>6 DEF HandleOK
  <2>2. handle[1] = i
    BY <2>1
  <2>3. g = [fr EXCEPT !.inner[i].inner = Append(@, c)]
    BY <1>1, <1>2, <1>6, <2>2 DEF And
  <2>4. /\ g \in Filters /\ g.field = fr.field /\ g.value = fr.value
        /\ DOMAIN g.inner = DOMAIN fr.inner
        /\ \A k \in DOMAIN fr.inner :
             g.inner[k].field = fr.inner[k].field /\ g.inner[k].value = fr.inner[k].value
    <3>1. i \in DOMAIN fr.inner /\ fr \in Filters /\ c \in Leaves
      BY <1>3, <1>4, <2>1
    <3>2. Deepened(fr, [fr EXCEPT !.inner[i].inner = Append(@, c)])
      BY <3>1, DeepenInner, Zenon
    <3>3. Deepened(fr, g)
      BY <2>3, <3>2, Zenon
    <3> QED
      BY <3>3 DEF Deepened
  <2>5. g # NoFilter /\ g.inner \in Seq(Inners)
    BY <2>4, QueryAssumption, FilterIs, FiltersAre
  <2>6. CASE fr.field # NoName
    BY <1>1, <1>2, <1>4, <2>4, <2>5, <2>6, RootAlone
  <2>7. CASE fr.field = NoName
    <3>1. ReadOf(fr) = fr.inner /\ ReadOf(g) = g.inner
      BY <1>4, <2>4, <2>5, <2>7 DEF ReadOf
    <3>2. Len(g.inner) = Len(fr.inner)
      BY <1>4, <2>4, <2>5
    <3>3. Extends(fr.inner, g.inner, field)
      BY <1>4, <2>4, <3>2 DEF Extends
    <3> QED
      BY <1>1, <1>2, <3>1, <3>3
  <2> QED
    BY <2>6, <2>7
<1> QED
  BY <1>5, <1>6

\* A condition on a field that no other one is on finds no row more.
LEMMA BuilderNarrows ==
  ASSUME QueryInv, QueryInv', NEW field \in DOMAIN LowerName, NEW value \in Values,
         AddFilter(field, value) \/ And(field, value),
         \A m \in 1..Len(asked) : LowerName[asked[m].field] # LowerName[field]
  PROVE  Found' \subseteq Found
<1>1. fields' = fields /\ rows' = rows /\ QueryTypeOK /\ QueryTypeOK' /\ TableTypeOK
  BY DEF AddFilter, And, QueryInv, QueryTypeOK
<1>2. PICK c, d, s : c = ReadOf(filter) /\ d = ReadOf(filter') /\ s = asked
  OBVIOUS
<1>3. Len(c) # 0 => Extends(c, d, field)
  BY <1>2, AddFilterExtends, AndExtends
<1>4. /\ Len(c) \in Nat
      /\ \A n \in 1..Len(c) : Wants(s, c[n]) /\ c[n].field \in DOMAIN LowerName
  <2>1. filter \in Filters \cup {NoFilter} /\ Wanted(filter, asked)
    BY DEF QueryInv, QueryTypeOK, AsAsked, Holds
  <2> QED
    BY <1>2, <2>1, ReadParts, ReadTyped, ReadWasAsked
<1>5. FoundBy(d) \subseteq FoundBy(c)
  BY <1>1, <1>2, <1>3, <1>4, ExtendingNarrows
<1> QED
  BY <1>1, <1>2, <1>5, FoundIs, FoundIsNext

\* A condition more, on a field that has none yet, brings no row back: AddFilter
\* and And never take away what Instance.Query reads of the filter.
THEOREM QueryNarrows == QuerySpec => ConditionNarrows
<1>1. QueryInv /\ QueryInv' /\ [QueryNext]_queryVars =>
        [\A n \in DOMAIN asked' :
           (/\ n > Len(asked)
            /\ \A m \in DOMAIN asked :
                 LowerName[asked[m].field] # LowerName[asked'[n].field])
           => Found' \subseteq Found]_queryVars
  <2> SUFFICES ASSUME QueryInv, QueryInv', [QueryNext]_queryVars,
                      NEW n \in DOMAIN asked', n > Len(asked),
                      \A m \in DOMAIN asked :
                        LowerName[asked[m].field] # LowerName[asked'[n].field]
               PROVE  Found' \subseteq Found
    OBVIOUS
  <2>1. QueryTypeOK /\ DOMAIN asked = 1..Len(asked) /\ Len(asked) \in Nat
    BY DEF QueryInv, QueryTypeOK
  <2>2. asked' # asked
    BY <2>1
  <2>3. PICK field \in DOMAIN LowerName, value \in Values :
          AddFilter(field, value) \/ And(field, value)
    <3>1. Query => asked' = asked
      BY <2>1, QueryAnswers
    <3>2. Delete => asked' = asked
      BY Zenon DEF Delete
    <3> QED
      BY <2>2, <3>1, <3>2 DEF QueryNext, queryVars, SearchFilter, SetLimit, SetSort, ChangeSpec
  <2>4. \E b : asked' = Append(asked, [field |-> field, value |-> value, within |-> b])
    BY <2>3 DEF AddFilter, And
  <2>5. asked'[n].field = field
    <3>1. PICK a : asked' = Append(asked, a) /\ a.field = field
      BY <2>4
    <3>2. n = Len(asked) + 1
      BY <2>1, <3>1
    <3> QED
      BY <2>1, <3>1, <3>2
  <2> QED
    BY <2>1, <2>3, <2>5, BuilderNarrows
<1>2. QueryInv /\ [QueryNext]_queryVars => QueryInv'
  BY NextQueryInv
<1> QED
  BY <1>1, <1>2, QueryAlways, PTL DEF QuerySpec, ConditionNarrows

-----------------------------------------------------------------------------
(* A page. *)

\* The elements of F that at most n of F do not exceed.
UpTo(F, i)   == {j \in F : j <= i}
Firsts(F, n) == {i \in F : Cardinality(UpTo(F, i)) <= n}

LEMMA UpToParts ==
  ASSUME NEW m \in Nat, NEW F, F \subseteq 1..m
  PROVE  /\ IsFiniteSet(F) /\ Cardinality(F) \in Nat
         /\ \A S : S \subseteq F => /\ IsFiniteSet(S) /\ Cardinality(S) \in Nat
                                    /\ Cardinality(S) <= Cardinality(F)
         /\ \A i \in F : UpTo(F, i) \subseteq F
         /\ \A i, j \in F : j <= i => Cardinality(UpTo(F, j)) <= Cardinality(UpTo(F, i))
<1>1. IsFiniteSet(1..m)
  BY FS_Interval
<1>2. IsFiniteSet(F) /\ Cardinality(F) \in Nat
  BY <1>1, FS_Subset, FS_CardinalityType
<1>3. \A S : S \subseteq F => /\ IsFiniteSet(S) /\ Cardinality(S) \in Nat
                              /\ Cardinality(S) <= Cardinality(F)
  BY <1>2, FS_Subset, FS_CardinalityType
<1>4. \A i \in F : UpTo(F, i) \subseteq F
  BY DEF UpTo
<1>5. ASSUME NEW i \in F, NEW j \in F, j <= i
      PROVE  Cardinality(UpTo(F, j)) <= Cardinality(UpTo(F, i))
  <2>0. i \in Int /\ j \in Int /\ \A k \in F : k \in Int
    OBVIOUS
  <2>1. UpTo(F, j) \subseteq UpTo(F, i)
    <3>1. \A k \in F : k <= j => k <= i
      BY <1>5, <2>0
    <3> QED
      BY <3>1 DEF UpTo
  <2>2. IsFiniteSet(UpTo(F, i))
    BY <1>3, <1>4
  <2> QED
    BY <2>1, <2>2, FS_Subset
<1> QED
  BY <1>2, <1>3, <1>4, <1>5

\* As many as there are or n allows, and none is passed over.
LEMMA FirstsAre ==
  ASSUME NEW m \in Nat, NEW F, F \subseteq 1..m, NEW n \in Int
  PROVE  /\ Cardinality(Firsts(F, n)) = IF n < 0 THEN 0
                                        ELSE IF n < Cardinality(F) THEN n
                                        ELSE Cardinality(F)
         /\ \A i \in Firsts(F, n), j \in F : j < i => j \in Firsts(F, n)
<1> DEFINE P == Firsts(F, n)
<1>1. P \subseteq F /\ \A i \in F : i \in P <=> Cardinality(UpTo(F, i)) <= n
  BY DEF Firsts
<1>2. \A i \in F : Cardinality(UpTo(F, i)) \in Nat
  BY UpToParts
<1>a. \A i \in F : i \in Int
  OBVIOUS
<1>3. ASSUME NEW i \in P, NEW j \in F, j <= i PROVE j \in P
  <2>1. i \in F /\ Cardinality(UpTo(F, i)) <= n
    BY <1>1
  <2>2. Cardinality(UpTo(F, j)) <= Cardinality(UpTo(F, i))
    BY <1>3, <2>1, UpToParts
  <2>3. Cardinality(UpTo(F, j)) <= n
    BY <1>2, <2>1, <2>2
  <2> QED
    BY <1>1, <2>3
<1>b. \A i \in P, j \in F : j < i => j \in P
  <2> SUFFICES ASSUME NEW i \in P, NEW j \in F, j < i PROVE j \in P
    OBVIOUS
  <2>1. i \in Int /\ j \in Int
    BY <1>1, <1>a
  <2>2. j <= i
    BY <2>1
  <2> QED
    BY <1>3, <2>2
<1>4. /\ Cardinality(F) \in Nat /\ IsFiniteSet(F)
      /\ Cardinality(P) \in Nat /\ IsFiniteSet(P)
  BY <1>1, UpToParts
<1> HIDE DEF P
<1>5. CASE n < 0
  <2>1. P = {}
    BY <1>1, <1>2, <1>5
  <2> QED
    BY <1>5, <2>1, FS_EmptySet, <1>b DEF P
<1>6. n >= 0 => Cardinality(P) <= n
  <2> SUFFICES ASSUME n >= 0 PROVE Cardinality(P) <= n
    OBVIOUS
  <2>1. CASE P = {}
    <3>1. Cardinality(P) = 0
      BY <2>1, FS_EmptySet
    <3> QED
      BY <3>1
  <2>2. CASE P # {}
    <3>1. P \subseteq 1..m
      BY <1>1
    <3>2. PICK p \in P : \A i \in P : i <= p
      BY <2>2, <3>1, GreatestIn
    <3>3. UpTo(F, p) = P
      BY <1>1, <1>3, <3>2 DEF UpTo
    <3> QED
      BY <1>1, <3>2, <3>3
  <2> QED
    BY <2>1, <2>2
<1>7. CASE n >= 0 /\ P = F
  BY <1>b, <1>4, <1>6, <1>7 DEF P
<1>8. CASE n >= 0 /\ P # F
  <2>1. F \ P # {} /\ F \ P \subseteq Nat
    <3>1. F \subseteq Nat
      OBVIOUS
    <3> QED
      BY <1>1, <1>8, <3>1
  <2>2. PICK b \in F \ P : \A i \in F \ P : b <= i
    BY <2>1, LeastIn
  <2>3. UpTo(F, b) = P \cup {b}
    <3>1. b \in F /\ b \in Int /\ b <= b
      BY <1>a
    <3>2. ASSUME NEW i \in F, i <= b PROVE i \in P \cup {b}
      <4>1. i \in Int /\ (i \notin P => b <= i)
        BY <1>a, <2>2
      <4> QED
        BY <3>1, <3>2, <4>1
    <3>3. ASSUME NEW i \in P PROVE i \in F /\ i <= b
      <4>1. i \in F /\ i \in Int
        BY <1>1, <1>a
      <4>2. ~ (b <= i)
        BY <1>3, <2>2
      <4> QED
        BY <3>1, <4>1, <4>2
    <3> QED
      BY <3>1, <3>2, <3>3 DEF UpTo
  <2>4. Cardinality(P \cup {b}) = Cardinality(P) + 1
    BY <1>4, FS_AddElement
  <2>5. Cardinality(UpTo(F, b)) > n
    BY <1>1, <1>2
  <2>6. Cardinality(P) = n
    BY <1>4, <1>6, <1>8, <2>3, <2>4, <2>5
  <2>7. Cardinality(P \cup {b}) <= Cardinality(F)
    BY <1>1, UpToParts
  <2>8. ~ (n < 0) /\ n < Cardinality(F)
    BY <1>4, <1>8, <2>4, <2>6, <2>7
  <2> QED
    BY <1>b, <2>6, <2>8 DEF P
<1> QED
  BY <1>5, <1>7, <1>8

\* A list of all elements of a set without a double has them all.
LEMMA ListsAll ==
  ASSUME NEW S, IsFiniteSet(S), NEW s, Lists(s, S)
  PROVE  ToSet(s) = S /\ Len(s) = Cardinality(S)
<1>1. PICK k : k = Cardinality(S)
  OBVIOUS
<1>2. k \in Nat
  BY <1>1, FS_CardinalityType
<1>3. s \in Injection(1..k, S)
  BY <1>1 DEF Lists, Injection, IsInjective
<1>4. Cardinality(1..k) = k
  BY <1>2, FS_Interval
<1>5. s \in Surjection(1..k, S)
  BY <1>1, <1>3, <1>4, FS_Injection
<1>6. ToSet(s) = S
  BY <1>5 DEF ToSet, Surjection
<1>7. s \in Seq(S) /\ DOMAIN s = 1..k
  BY <1>2, <1>5 DEF Surjection
<1> QED
  BY <1>1, <1>2, <1>6, <1>7

-----------------------------------------------------------------------------
(* The answer to a query. *)

\* When the conditions are on text fields, one each, the store reads them all.
LEMMA PlainFound ==
  ASSUME QueryInv, AskedPlainly
  PROVE  FieldsKnown /\ Found = Asked
<1>1. /\ QueryTypeOK /\ TableTypeOK /\ Tracked(filter, asked)
      /\ asked \in Seq(AskedSet) /\ DOMAIN asked = 1..Len(asked) /\ Len(asked) \in Nat
  BY DEF QueryInv, QueryTypeOK, AsAsked, Holds, AskedSet
<1>2. \A n \in 1..Len(asked) : ~asked[n].within /\ StoreField(asked[n].field) # 0
  BY <1>1 DEF AskedPlainly
<1>3. Plainly(asked)
  BY <1>1, <1>2, NoNameNotStored DEF Plainly
<1>4. PICK c : c = ReadOf(filter)
  OBVIOUS
<1>5. Len(c) = Len(asked)
      /\ \A n \in 1..Len(asked) : c[n].field = asked[n].field /\ c[n].value = asked[n].value
  BY <1>1, <1>3, <1>4 DEF Tracked, AskedAs
<1>6. KnownBy(c)
  BY <1>2, <1>5 DEF KnownBy
<1>7. OnText(c) = 1..Len(asked)
  BY <1>1, <1>5 DEF OnText, AskedPlainly
<1>8. LastOf(c) = 1..Len(asked)
  <2>1. \A n, m \in 1..Len(asked) : StoreField(c[m].field) = StoreField(c[n].field) => m = n
    BY <1>1, <1>5 DEF AskedPlainly
  <2> QED
    BY <1>1, <1>7, <2>1 DEF LastOf
<1>9. \A row : \A n \in 1..Len(asked) :
        Matches(row, c[n]) <=> row[StoreField(asked[n].field)] = asked[n].value
  BY <1>1, <1>5 DEF Matches, AskedPlainly
<1>10. FoundBy(c) = Asked
  BY <1>1, <1>6, <1>8, <1>9 DEF FoundBy, Asked
<1> QED
  BY <1>1, <1>4, <1>6, <1>10, FoundIs

LEMMA QueryAnswersRight ==
  ASSUME QueryInv, Query
  PROVE  ConditionsHold'
<1>1. QueryTypeOK
  BY DEF QueryInv
<1>2. /\ fields' = fields /\ rows' = rows /\ filter' = filter /\ asked' = asked
  BY <1>1, QueryAnswers
<1>3. PICK n \in Int : /\ limit' = n /\ n # 0
                       /\ FieldsKnown => Lists(answer'.rows, Page(n))
  BY <1>1, QueryAnswers
<1>4. \A x : StoreField(x)' = StoreField(x)
  BY <1>2 DEF StoreField, SelectLastInSeq
<1>5. (AskedPlainly' => AskedPlainly) /\ Asked' = Asked
  BY <1>2, <1>4 DEF AskedPlainly, Asked
<1>6. ASSUME AskedPlainly
      PROVE  /\ ToSet(answer'.rows) \subseteq Asked
             /\ Len(answer'.rows) = Cardinality(ToSet(answer'.rows))
             /\ Cardinality(ToSet(answer'.rows)) = IF n < 0 THEN 0
                                                   ELSE IF n < Cardinality(Asked) THEN n
                                                   ELSE Cardinality(Asked)
             /\ \A i \in ToSet(answer'.rows), j \in Asked : j < i => j \in ToSet(answer'.rows)
  <2>1. FieldsKnown /\ Found = Asked
    BY <1>6, PlainFound
  <2>2. rows \in Seq(ToSet(rows)) /\ Len(rows) \in Nat
    BY <1>1 DEF QueryTypeOK
  <2>3. Found \subseteq 1..Len(rows) /\ Page(n) \subseteq Found /\ IsFiniteSet(Page(n))
    BY <2>2, PageIsOfRows
  <2>4. ToSet(answer'.rows) = Page(n) /\ Len(answer'.rows) = Cardinality(Page(n))
    BY <1>3, <2>1, <2>3, ListsAll
  <2>5. Page(n) = Firsts(Asked, n)
    BY <2>1 DEF Page, Firsts, UpTo
  <2>6. /\ Cardinality(Firsts(Asked, n)) = IF n < 0 THEN 0
                                           ELSE IF n < Cardinality(Asked) THEN n
                                           ELSE Cardinality(Asked)
        /\ \A i \in Firsts(Asked, n), j \in Asked : j < i => j \in Firsts(Asked, n)
    BY <2>1, <2>2, <2>3, FirstsAre
  <2> QED
    BY <2>1, <2>3, <2>4, <2>5, <2>6
<1> QED
  BY <1>3, <1>5, <1>6 DEF ConditionsHold

\* No other call answers a query; SearchFilter leaves all that is spoken of.
LEMMA OtherAnswersRight ==
  ASSUME QueryInv, ConditionsHold, [QueryNext]_queryVars, ~Query
  PROVE  ConditionsHold'
<1>1. CASE answer'.op # "query"
  BY <1>1 DEF ConditionsHold
<1>2. CASE UNCHANGED <<fields, rows, asked, limit, answer>>
  <2>1. \A x : StoreField(x)' = StoreField(x)
    BY <1>2 DEF StoreField, SelectLastInSeq
  <2>2. (AskedPlainly' => AskedPlainly) /\ Asked' = Asked
    BY <1>2, <2>1 DEF AskedPlainly, Asked
  <2> QED
    BY <1>2, <2>2 DEF ConditionsHold
<1>3. NoAnswer.op # "query"
  BY DEF NoAnswer
<1>4. Delete => answer'.op # "query"
  <2>1. [op |-> "delete", status |-> "error", rows |-> <<>>].op # "query"
    OBVIOUS
  <2>2. [op |-> "delete", status |-> "ok", rows |-> <<>>].op # "query"
    OBVIOUS
  <2>3. Delete => \/ answer' = [op |-> "delete", status |-> "error", rows |-> <<>>]
                  \/ answer' = [op |-> "delete", status |-> "ok", rows |-> <<>>]
    BY Zenon DEF Delete
  <2> QED
    BY <2>1, <2>2, <2>3
<1>5. answer'.op # "query" \/ UNCHANGED <<fields, rows, asked, limit, answer>>
  BY <1>3, <1>4 DEF QueryNext, queryVars, AddFilter, And, SearchFilter, SetLimit, SetSort,
                    ChangeSpec
<1> QED
  BY <1>1, <1>2, <1>5

\* Instance.Query answers with the first rows that meet every condition the
\* caller added, as many as the limit allows, in whatever order the calls came.
THEOREM QueryAnswersAsked == QuerySpec => []ConditionsHold
<1>1. QueryInit => ConditionsHold
  BY DEF QueryInit, NoAnswer, ConditionsHold
<1>2. QueryInv /\ ConditionsHold /\ [QueryNext]_queryVars => ConditionsHold'
  BY QueryAnswersRight, OtherAnswersRight
<1> QED
  BY <1>1, <1>2, QueryAlways, PTL DEF QuerySpec
=============================================================================
