------------------------------ MODULE ErrorTrip ------------------------------
(***************************************************************************)
(* How an error travels (go/lynkapi/service_status.go).  It is a text that *)
(* may start with a code, "#4040 not found", or a status with a code and a *)
(* message.  Each hop turns one into the other: a method returns a text,   *)
(* the gRPC client parses it, the HTTP handler and the handler of a        *)
(* PreMethod make a response of it, a method that called another service   *)
(* makes a text of the status again and may add a code of its own.         *)
(*                                                                         *)
(* A text is the codes it starts with and the words after them.            *)
(***************************************************************************)
EXTENDS Naturals, Sequences

CONSTANTS
  StatusCodes,         \* four characters
  Words,         \* what may follow the codes
  NoWords,       \* nothing
  UnknownError,  \* the words "unknown error"
  BadRequest, UnAuth, InternalServerError,
  MaxCodes,      \* bound on the codes at the start of a text
  NoCode

ASSUME TripAssumption ==
  /\ NoWords \in Words /\ UnknownError \in Words /\ UnknownError # NoWords
  /\ {BadRequest, UnAuth, InternalServerError} \subseteq StatusCodes
  /\ NoCode \notin StatusCodes
  /\ MaxCodes \in Nat

VARIABLES
  kind,    \* "text" or "status"
  code,    \* the code of the status
  text,    \* the text of the error or the message of the status
  origin   \* the code first given to the error, NoCode before

tripVars == <<kind, code, text, origin>>

Text(cs, w) == [codes |-> cs, words |-> w]

Coded(t)   == t.codes # <<>>                                 \* "#4040 "...
Longer(t)  == Coded(t) /\ (Len(t.codes) > 1 \/ t.words # NoWords)
Rest(t)    == Text(Tail(t.codes), t.words)
Prefix(c, t) == Text(<<c>> \o t.codes, t.words)              \* "#" + c + " " + t

\* A mutated form of FixCodeMsg: the message stays as it is.
FixCodeMsgNot(c, t) == [code |-> c, message |-> t]

\* A code that the message starts with takes the place of the code, if
\* something follows it.
FixCodeMsg(c, t) ==
  IF Longer(t) THEN [code |-> Head(t.codes), message |-> Rest(t)]
  ELSE [code |-> c, message |-> t]

NewError(c, t) == LET f == FixCodeMsg(c, t) IN Prefix(f.code, f.message)

\* The text of an error without a code is lost.
ParseError(t) ==
  IF Coded(t) THEN [code |-> Head(t.codes), message |-> Rest(t)]
  ELSE [code |-> InternalServerError, message |-> Text(<<>>, UnknownError)]

TripInit ==
  /\ kind = "text" /\ code = NoCode
  /\ text \in [codes : {<<>>}, words : Words]
  /\ origin = NoCode

First(c) == origin' = IF origin = NoCode THEN c ELSE origin

BecomesStatus(s) ==
  /\ kind = "text"
  /\ kind' = "status" /\ code' = s.code /\ text' = s.message

\* NewError and the functions made from it.
Raise(c) ==
  /\ kind = "text" /\ Len(text.codes) < MaxCodes
  /\ text' = NewError(c, text)
  /\ First(c)
  /\ UNCHANGED <<kind, code>>

\* The gRPC client.
Receive ==
  /\ BecomesStatus(ParseError(text))
  /\ First(InternalServerError)

\* The response of the HTTP handler to a method that failed, and that to a
\* PreMethod that denied the call.
Respond(c) ==
  /\ BecomesStatus(FixCodeMsg(c, text))
  /\ First(c)

\* The status that Client.Exec makes of the error of tryAuth, whatever code it
\* has; gRPC puts words of its own before the text of an error of the server.
AuthFailed ==
  /\ \E t \in {text, Text(<<>>, UnknownError)} :
       BecomesStatus([code |-> UnAuth, message |-> t])
  /\ origin' = UnAuth

\* ServiceStatus.Err: the status is an error again.
Err ==
  /\ kind = "status" /\ Len(text.codes) < MaxCodes
  /\ kind' = "text" /\ text' = Prefix(code, text) /\ code' = NoCode
  /\ UNCHANGED origin

TripNext ==
  \/ \E c \in StatusCodes : Raise(c)
  \/ Respond(BadRequest) \/ Respond(InternalServerError)
  \/ Receive \/ AuthFailed
  \/ Err

TripSpec == TripInit /\ [][TripNext]_tripVars

-----------------------------------------------------------------------------
TripTypeOK ==
  /\ kind \in {"text", "status"}
  /\ code \in StatusCodes \cup {NoCode} /\ (code = NoCode <=> kind = "text")
  /\ text \in [codes : Seq(StatusCodes), words : Words]
  /\ origin \in StatusCodes \cup {NoCode}

CarriedCode ==
  IF kind = "status" THEN code
  ELSE IF Coded(text) THEN Head(text.codes) ELSE NoCode

\* The code an error was first given reaches whoever sees it, over any number
\* of hops of any kind, if the error says anything besides its code and no
\* client took it for a failure to authenticate, which has a code of its own.
CodeSurvives == text.words # NoWords => CarriedCode = origin
=============================================================================
