---------------------------- MODULE CommandLine ----------------------------
(***************************************************************************)
(* The interactive command line (go/lynkcli): Run reads the configuration, *)
(* asks the server for its services, makes each a command and then reads   *)
(* lines.  A line runs the first command in the order of the paths whose   *)
(* path it begins with; a command of a service prompts for the fields of   *)
(* its request and sends it.  One mutex is held over the whole command.    *)
(*                                                                         *)
(* Text is a sequence of characters, which are numbers in the order of     *)
(* their codes: Sp, Dash, upper case letters, and lower case letters that  *)
(* are CaseGap above them.                                                 *)
(***************************************************************************)
EXTENDS Integers, FiniteSets, SequencesExt

CONSTANTS
  Custom,    \* commands of the program's own: [path, registers]
  ApiLists,  \* what the server may answer: sequences of [name, methods]
  Lines,     \* what the user types: [path, empty], empty: an empty flag argument
  Answers,   \* what the user answers to a prompt, "" included
  Reads,     \* Reads[t][v]: the value sent for the answer v to a field of the
             \* scalar type t, if it parses; a number is sent as a float64
  Configs,   \* configuration files: sequences of [form, services, last]
  BadAddr,   \* services without a proper address
  Renders,   \* <<service, method>> with a registered render
  HelpPath,  \* "help"
  ServiceSuffix, CreateSuffix, UpdateSuffix,  \* "-service", "-create", "-update"
  NoService  \* no service, and no name of one

Sp       == 0
Dash     == 1
Upper    == 2..9
CaseGap  == 10

\* A dash goes before a capital that follows no capital.
lowerName(s) ==
  FlattenSeq([i \in DOMAIN s |->
    IF s[i] \notin Upper THEN <<s[i]>>
    ELSE (IF i > 1 /\ s[i - 1] \notin Upper THEN <<Dash>> ELSE <<>>)
           \o <<s[i] + CaseGap>>])

\* strings.Compare(a, b) < 0
Before(a, b) ==
  \/ IsStrictPrefix(a, b)
  \/ \E n \in DOMAIN a \cap DOMAIN b :
       a[n] < b[n] /\ \A k \in 1..(n - 1) : a[k] = b[k]

\* flagVarParse: the first word, unless it begins with a dash.
FirstWord(s) ==
  LET from == SelectInSeq(s, LAMBDA c : c # Sp)
      rest == SubSeq(s, from, Len(s))
      to   == SelectInSeq(rest, LAMBDA c : c = Sp)
  IN  IF from = 0 \/ s[from] = Dash THEN <<>>
      ELSE IF to = 0 THEN rest ELSE SubSeq(rest, 1, to - 1)

Drop(s, n) == SubSeq(s, n + 1, Len(s))

\* A file lists services, or is a single one, or has none; a bad one does not
\* decode, but for the part before the error.
FileForms  == {"list", "single", "empty", "bad"}
ConfigFile == [form : FileForms, services : Seq(STRING), last : STRING]

ASSUME FilesAssumption ==
  /\ NoService \in STRING
  /\ Configs \subseteq Seq(ConfigFile)
  /\ \A fs \in Configs : \A i \in DOMAIN fs :
       /\ fs[i].form \in {"list", "single"} => fs[i].services # <<>>
       /\ fs[i].form = "empty" => fs[i].services = <<>>

AllServices == UNION {ToSet(list) : list \in ApiLists}

\* Paths, lines and names are text, also in lower case, and what the server
\* lists are lists.
ASSUME TextAssumption ==
  /\ HelpPath \in Seq(Nat) /\ ServiceSuffix \in Seq(Nat)
  /\ \A c \in Custom : c.path \in Seq(Nat)
  /\ \A l \in Lines : l.path \in Seq(Nat)
  /\ ApiLists \subseteq Seq(AllServices)
  /\ \A srv \in AllServices :
       /\ lowerName(srv.name) \in Seq(Nat)
       /\ srv.methods \in Seq(ToSet(srv.methods))
       /\ \A m \in ToSet(srv.methods) :
            /\ m.fields \in Seq(ToSet(m.fields))
            /\ \A f \in ToSet(m.fields) : f.fields \in Seq(ToSet(f.fields))

VARIABLES
  files,     \* the configuration files, which outlive the process
  cfg,       \* the configuration read, the file taken, and the service in use
  pc,        \* where Run is
  todo,      \* services of the answer to ApiList not yet seen by mgrSetup
  cmds,      \* arrCmds
  services,  \* arrMgrServices
  mu,        \* who holds the mutex
  waiting,   \* commands other goroutines are registering
  line,      \* the line read last
  frames,    \* the objects scanInput is in, the innermost first
  request,   \* the request being put together, and what was answered for it
  answer,    \* what the last line was answered
  halfway    \* mgrSetup failed after it had made commands of some services

vars == <<files, cfg, pc, todo, cmds, services, mu, waiting, line, frames,
          request, answer, halfway>>

prompt == <<line, frames, request, answer>>

-----------------------------------------------------------------------------
\* cfgSetup.

\* Every file is decoded into the same cfg: what one gives stays until another
\* gives it anew.
ServicesRead(n) ==
  LET k == SelectLastInSeq(SubSeq(files, 1, n),
             LAMBDA f : f.form \in {"list", "bad"} /\ f.services # <<>>)
  IN  IF k = 0 THEN cfg.services ELSE files[k].services

LastRead(n) ==
  LET k == SelectLastInSeq(SubSeq(files, 1, n), LAMBDA f : f.last # NoService)
  IN  IF k = 0 THEN cfg.last ELSE files[k].last

\* The first file that decodes when services are known, or is a single one.
Usable(n) == files[n].form # "bad" /\ (files[n].form = "single" \/ ServicesRead(n) # <<>>)
Chosen    == LET I == {n \in DOMAIN files : Usable(n)} IN IF I = {} THEN 0 ELSE Min(I)

\* cfg with the files up to the chosen one read into it.  A file of a single
\* service is taken for it only when no others are known.
Loaded ==
  LET n == IF Chosen = 0 THEN Len(files) ELSE Chosen IN
  [cfg EXCEPT !.services = IF Chosen # 0 /\ ServicesRead(n) = <<>> THEN files[n].services
                           ELSE ServicesRead(n),
              !.last = LastRead(n),
              !.file = Chosen]

\* The service used last when it is still there, otherwise the first.
Active(c) ==
  IF c.last # NoService /\ c.last \in ToSet(c.services) THEN c.last
  ELSE c.services[1]

\* A mutated form of Written: only the service in use is written.
WrittenActive(c) == [form |-> "list", services |-> <<c.last>>, last |-> c.last]

Written(c) == [form |-> "list", services |-> c.services, last |-> c.last]

\* What a file holds before anything is written to it, and when the write is cut
\* off: the service in use is written first, then one service after the other.
Truncated == [form |-> "empty", services |-> <<>>, last |-> NoService]
Torn(c) ==
  {Truncated, [Truncated EXCEPT !.form = "bad"]}
    \cup {[form |-> IF n = 0 THEN "empty" ELSE "list",
           services |-> SubSeq(c.services, 1, n), last |-> c.last] :
             n \in 0..(Len(c.services) - 1)}

NoFileFits ==
  /\ Chosen # 0 => Active(Loaded) \in BadAddr
  /\ pc' = "failed" /\ cfg' = Loaded
  /\ UNCHANGED files

\* The file is written when another service was active; that it cannot be
\* opened, or written, is passed over in silence.
ConfigRead ==
  /\ Chosen # 0 /\ Active(Loaded) \notin BadAddr
  /\ cfg' = [Loaded EXCEPT !.last = Active(Loaded), !.active = Active(Loaded)]
  /\ \/ pc' = "setup" /\ UNCHANGED files
     \/ /\ Loaded.last # Active(Loaded)
        /\ pc' = "write" /\ files' = [files EXCEPT ![Chosen] = Truncated]

CfgSetup ==
  /\ pc \in {"down", "failed", "closed"}
  /\ NoFileFits \/ ConfigRead
  /\ UNCHANGED <<todo, cmds, services, mu, waiting, halfway, prompt>>

WriteEnds(f) ==
  /\ pc = "write" /\ pc' = "setup"
  /\ files' = [files EXCEPT ![cfg.file] = f]
  /\ UNCHANGED <<cfg, todo, cmds, services, mu, waiting, halfway, prompt>>

CfgWrite      == WriteEnds(Written(cfg))
CfgWriteFails == \E f \in Torn(cfg) : WriteEnds(f)

-----------------------------------------------------------------------------
\* The commands.

\* The name of a service's command, without a "-service" at its end.
CommandName(srv) ==
  LET name == lowerName(srv.name) IN
  IF IsSuffix(ServiceSuffix, name)
  THEN SubSeq(name, 1, Len(name) - Len(ServiceSuffix)) ELSE name

HelpCommand         == [path |-> HelpPath, kind |-> "help", runs |-> NoService]
CustomCommand(c)    == [path |-> c.path, kind |-> "custom", runs |-> c]
ServiceCommand(srv) == [path |-> CommandName(srv), kind |-> "mgr", runs |-> srv]

\* A mutated form of Insert: the commands are not sorted.
InsertLast(c) ==
  IF c.path \in {d.path : d \in ToSet(cmds)} THEN cmds ELSE Append(cmds, c)

\* The first command of a path stays; the commands are sorted by path.
Insert(c) ==
  LET n == SelectInSeq(cmds, LAMBDA d : Before(c.path, d.path)) IN
  IF c.path \in {d.path : d \in ToSet(cmds)} THEN cmds
  ELSE IF n = 0 THEN Append(cmds, c) ELSE InsertAt(cmds, n, c)

\* RegisterCommonCommand of another goroutine: the call, and when it has the
\* mutex.
Register(c) ==
  /\ waiting' = waiting \cup {c}
  /\ c \notin waiting
  /\ UNCHANGED <<files, cfg, pc, todo, cmds, services, mu, halfway, prompt>>

RegisterCommonCommand(c) ==
  /\ c \in waiting
  /\ mu = "free"
  /\ cmds' = Insert(CustomCommand(c))
  /\ waiting' = waiting \ {c}
  /\ UNCHANGED <<files, cfg, pc, todo, services, mu, halfway, prompt>>

-----------------------------------------------------------------------------
\* mgrSetup and the rest of the start.

\* The services are asked for once in the life of the process, unless there
\* were none; an error or a list.
ApiListKnown ==
  /\ pc = "setup" /\ services # <<>>
  /\ pc' = "hooks"
  /\ UNCHANGED <<files, cfg, todo, cmds, services, mu, waiting, halfway, prompt>>

ApiListFails ==
  /\ pc = "setup" /\ services = <<>>
  /\ pc' = "failed"
  /\ UNCHANGED <<files, cfg, todo, cmds, services, mu, waiting, halfway, prompt>>

ApiListAnswers(list) ==
  /\ pc = "setup" /\ services = <<>>
  /\ pc' = "register"
  /\ todo' = list
  /\ UNCHANGED <<files, cfg, cmds, services, mu, waiting, halfway, prompt>>

\* A service without methods ends the start; the commands made stay.
MgrSetupFails ==
  /\ pc = "register" /\ todo # <<>> /\ Head(todo).methods = <<>>
  /\ pc' = "failed"
  /\ todo' = <<>>
  /\ halfway' = (services # <<>>)
  /\ UNCHANGED <<files, cfg, cmds, services, mu, waiting, prompt>>

\* A mutated form of MgrRegister: a name that is taken is listed again.
MgrRegisterTwice ==
  LET ms == ServiceCommand(Head(todo)) IN
  /\ pc = "register" /\ todo # <<>> /\ Head(todo).methods # <<>>
  /\ mu = "free"
  /\ services' = Append(services, ms)
  /\ IF ms.path \in {d.path : d \in ToSet(services)} THEN UNCHANGED cmds
     ELSE cmds' = Insert(ms)
  /\ todo' = Tail(todo)
  /\ UNCHANGED <<files, cfg, pc, mu, waiting, halfway, prompt>>

\* The first service of a name becomes a command, which takes the mutex.
MgrRegister ==
  LET ms == ServiceCommand(Head(todo)) IN
  /\ pc = "register" /\ todo # <<>> /\ Head(todo).methods # <<>>
  /\ IF ms.path \in {d.path : d \in ToSet(services)}
     THEN UNCHANGED <<cmds, services>>
     ELSE /\ mu = "free"
          /\ services' = Append(services, ms)
          /\ cmds' = Insert(ms)
  /\ todo' = Tail(todo)
  /\ UNCHANGED <<files, cfg, pc, mu, waiting, halfway, prompt>>

MgrSetupEnds ==
  /\ pc = "register" /\ todo = <<>>
  /\ pc' = "hooks"
  /\ UNCHANGED <<files, cfg, todo, cmds, services, mu, waiting, halfway, prompt>>

\* The program's SetupFuncs, of which one may fail.
SetupFuncs ==
  /\ pc = "hooks"
  /\ pc' \in {"line", "failed"}
  /\ UNCHANGED <<files, cfg, todo, cmds, services, mu, waiting, halfway, prompt>>

-----------------------------------------------------------------------------
\* The loop of Run and cliInvoke.

NoLine    == [path |-> <<>>, empty |-> FALSE]
NoRequest == [service |-> <<>>, method |-> <<>>, data |-> {}, asked |-> {}]

ReadLine(l) ==
  /\ pc = "line"
  /\ pc' = "invoke"
  /\ line' = l
  /\ answer' = "none"
  /\ UNCHANGED <<files, cfg, todo, cmds, services, mu, waiting, halfway, frames, request>>

\* ^C on an empty line, or the end of the input.
Interrupt ==
  /\ pc = "line"
  /\ pc' = "closed"
  /\ UNCHANGED <<files, cfg, todo, cmds, services, mu, waiting, halfway, prompt>>

\* The line runs the n-th command: the first whose path it begins with.
Matches(n) ==
  /\ IsPrefix(cmds[n].path, line.path)
  /\ \A k \in 1..(n - 1) : ~IsPrefix(cmds[k].path, line.path)

\* The word after the path, and the method it names: the last one of a name.
VarArg(n) == FirstWord(Drop(line.path, Len(cmds[n].path)))
MethodNamed(srv, arg) == SelectLastInSeq(srv.methods, LAMBDA m : lowerName(m.name) = arg)
Method(n) == MethodNamed(cmds[n].runs, VarArg(n))

Invoking == pc = "invoke" /\ mu = "free"

\* The line is answered, and the loop goes back to reading one.
Answered(a) ==
  /\ pc' = "line"
  /\ answer' = a
  /\ line' = NoLine
  /\ frames' = <<>>
  /\ request' = NoRequest
  /\ UNCHANGED <<files, cfg, todo, cmds, services, waiting, halfway>>

\* A flag followed by an empty argument: the code reads its first character.
FlagParsePanics ==
  /\ Invoking /\ line.empty
  /\ pc' = "crashed"
  /\ UNCHANGED <<files, cfg, todo, cmds, services, mu, waiting, halfway, prompt>>

NoCommand ==
  /\ Invoking /\ ~line.empty /\ \A n \in DOMAIN cmds : ~Matches(n)
  /\ Answered("error")
  /\ UNCHANGED mu

Runs(n, kind) == Invoking /\ ~line.empty /\ Matches(n) /\ cmds[n].kind = kind

\* "help" lists the commands, the ones of services from the services known.
cmdHelp(n) ==
  /\ Runs(n, "help")
  /\ Answered("help")
  /\ UNCHANGED mu

\* A line that names no method of the service lists its methods.
help(n) ==
  /\ Runs(n, "mgr")
  /\ VarArg(n) = <<>> \/ Method(n) = 0
  /\ Answered("service help")
  /\ UNCHANGED mu

\* A command of the program's own, which may register another one: it waits
\* for the mutex that its caller holds.
CustomAction(n) ==
  /\ Runs(n, "custom")
  /\ IF cmds[n].runs.registers
     THEN /\ pc' = "stuck"
          /\ mu' = "cli"
          /\ UNCHANGED <<files, cfg, todo, cmds, services, waiting, halfway, prompt>>
     ELSE Answered("custom") /\ UNCHANGED mu

\* A method of a service: its request is put together under the mutex.
Action(n) ==
  /\ Runs(n, "mgr")
  /\ VarArg(n) # <<>> /\ Method(n) # 0
  /\ pc' = "prompt"
  /\ mu' = "cli"
  /\ LET m == cmds[n].runs.methods[Method(n)] IN
     /\ frames' = <<[path |-> <<>>, fields |-> m.fields]>>
     /\ request' = [service |-> cmds[n].runs.name, method |-> VarArg(n),
                    data |-> {}, asked |-> {}]
  /\ UNCHANGED <<files, cfg, todo, cmds, services, waiting, halfway, line, answer>>

-----------------------------------------------------------------------------
\* scanInput: the fields are prompted for one by one.

Frame == Head(frames)
Field == Head(Frame.fields)
At    == Append(Frame.path, Field.tag)

Prompting == pc = "prompt" /\ Frame.fields # <<>>
Rest      == <<[Frame EXCEPT !.fields = Tail(@)]>> \o Tail(frames)

Required(f) ==
  \/ IsSuffix(CreateSuffix, request.method) /\ "create_required" \in f.attrs
  \/ IsSuffix(UpdateSuffix, request.method) /\ "update_required" \in f.attrs

\* The answer v to the prompt, and what it adds to the data of the request.
Taken(v, data) ==
  [request EXCEPT !.asked = @ \cup {<<At, v>>}, !.data = @ \cup data]

\* A required object is gone into whatever the answer.
AnswerObject(v) ==
  /\ Prompting /\ Field.type = "struct"
  /\ IF v = "yes" \/ Required(Field)
     THEN /\ request' = Taken(v, {<<At, "object">>})
          /\ frames' = <<[path |-> At, fields |-> Field.fields]>> \o Rest
     ELSE /\ request' = Taken(v, {})
          /\ frames' = Rest
  /\ UNCHANGED <<files, cfg, pc, todo, cmds, services, mu, waiting, halfway, line, answer>>

\* A mutated form of AnswerScalar: what does not parse is passed over.
AnswerScalarLoosely(v) ==
  /\ Prompting /\ Field.type # "struct"
  /\ request' =
       Taken(v, IF Field.type \in DOMAIN Reads /\ v \in DOMAIN Reads[Field.type]
                THEN {<<At, Reads[Field.type][v]>>} ELSE {})
  /\ frames' = Rest
  /\ UNCHANGED <<files, cfg, pc, todo, cmds, services, mu, waiting, halfway, line, answer>>

\* A blank answer leaves the field out, required or not; an answer to a field
\* of another type than a scalar is lost.
AnswerScalar(v) ==
  /\ Prompting /\ Field.type # "struct"
  /\ Field.type \in DOMAIN Reads => v \in DOMAIN Reads[Field.type] \cup {""}
  /\ request' =
       Taken(v, IF v # "" /\ Field.type \in DOMAIN Reads
                THEN {<<At, Reads[Field.type][v]>>} ELSE {})
  /\ frames' = Rest
  /\ UNCHANGED <<files, cfg, pc, todo, cmds, services, mu, waiting, halfway, line, answer>>

LeaveObject ==
  /\ pc = "prompt" /\ Frame.fields = <<>> /\ Len(frames) > 1
  /\ frames' = Tail(frames)
  /\ UNCHANGED <<files, cfg, pc, todo, cmds, services, mu, waiting, halfway, line,
                 request, answer>>

\* A mutated form of InputFails: the mutex stays locked.
InputFailsLocked ==
  /\ Prompting
  /\ Answered("error")
  /\ UNCHANGED mu

\* ^C at a prompt, or an answer that does not parse, ends the command.
InputFails ==
  /\ Prompting
  /\ Answered("error")
  /\ mu' = "free"

-----------------------------------------------------------------------------
\* The request and its reply.

Send ==
  /\ pc = "prompt" /\ Frame.fields = <<>> /\ Len(frames) = 1
  /\ pc' = "exec"
  /\ UNCHANGED <<files, cfg, todo, cmds, services, mu, waiting, halfway, prompt>>

\* iterOutput: what is shown of the data of a reply.  Rows whose spec gives a
\* tag twice, and an empty object, are errors though the call is done.
iterOutput(data) ==
  CASE data = "nil"         -> "DONE"
    [] data = "rows"        -> "table"
    [] data = "fields"      -> "fields"
    [] data \in {"rows of a bad spec", "empty"} -> "error"

\* A mutated form of ExecDenied: the mutex stays locked.
ExecDeniedLocked ==
  /\ pc = "exec"
  /\ Answered("error")
  /\ UNCHANGED mu

ExecDenied ==
  /\ pc = "exec"
  /\ Answered("error")
  /\ mu' = "free"

ExecDone(data) ==
  /\ pc = "exec"
  /\ Answered(IF <<CommandName([name |-> request.service]), request.method>> \in Renders
              THEN "render" ELSE iterOutput(data))
  /\ mu' = "free"

-----------------------------------------------------------------------------
NoCfg == [services |-> <<>>, last |-> NoService, active |-> NoService, file |-> 0]

Init ==
  /\ files \in Configs
  /\ cfg = NoCfg
  /\ pc = "down" /\ todo = <<>> /\ halfway = FALSE
  /\ cmds = <<HelpCommand>> /\ services = <<>>
  /\ mu = "free" /\ waiting = {}
  /\ line = NoLine /\ frames = <<>> /\ request = NoRequest /\ answer = "none"

\* The process ends, or is killed, and is started again; only the files are
\* left.
Restart ==
  /\ pc # "down"
  /\ cfg' = NoCfg
  /\ pc' = "down" /\ todo' = <<>> /\ halfway' = FALSE
  /\ cmds' = <<HelpCommand>> /\ services' = <<>>
  /\ mu' = "free" /\ waiting' = {}
  /\ line' = NoLine /\ frames' = <<>> /\ request' = NoRequest /\ answer' = "none"
  /\ UNCHANGED files

Replies == {"nil", "empty", "fields", "rows", "rows of a bad spec"}

\* What the loop does by itself, and what the user and the server owe it.
InvokeStep ==
  \/ FlagParsePanics \/ NoCommand
  \/ \E n \in DOMAIN cmds : cmdHelp(n) \/ help(n) \/ CustomAction(n) \/ Action(n)

PromptStep ==
  \/ \E v \in Answers : AnswerObject(v) \/ AnswerScalar(v)
  \/ InputFails \/ LeaveObject \/ Send

ExecStep == ExecDenied \/ \E data \in Replies : ExecDone(data)

LoopStep ==
  \/ pc = "invoke" /\ InvokeStep
  \/ pc = "prompt" /\ PromptStep
  \/ pc = "exec" /\ ExecStep

StartStep ==
  \/ CfgSetup \/ CfgWrite \/ CfgWriteFails \/ ApiListKnown \/ ApiListFails
  \/ \E list \in ApiLists : ApiListAnswers(list)
  \/ MgrSetupFails \/ MgrRegister \/ MgrSetupEnds \/ SetupFuncs

Next ==
  \/ StartStep \/ LoopStep \/ Interrupt \/ Restart
  \/ \E l \in Lines : ReadLine(l)
  \/ \E c \in Custom : Register(c) \/ RegisterCommonCommand(c)

Spec == Init /\ [][Next]_vars

\* A user at a prompt answers or gives up, the server replies or the call times
\* out, and a goroutine that waits for a Go mutex gets it.
FairSpec ==
  /\ Spec
  /\ WF_vars(LoopStep)
  /\ \A c \in Custom : SF_vars(RegisterCommonCommand(c))

-----------------------------------------------------------------------------
\* What may be relied on.

ServiceCommands == {ServiceCommand(srv) : srv \in AllServices}
Commands        == {HelpCommand} \cup ServiceCommands \cup {CustomCommand(c) : c \in Custom}

\* Every variable holds a value of its kind; the mutex is held just while a
\* command runs.
TypeOK ==
  /\ files \in Seq(ConfigFile)
  /\ cfg \in [services : Seq(STRING), last : STRING, active : STRING, file : Nat]
  /\ pc \in {"down", "failed", "write", "setup", "register", "hooks", "line", "invoke",
             "prompt", "exec", "closed", "crashed", "stuck"}
  /\ todo \in Seq(AllServices)
  /\ cmds \in Seq(Commands) /\ services \in Seq(ServiceCommands)
  /\ waiting \subseteq Custom
  /\ line \in {NoLine} \cup Lines
  /\ mu \in {"free", "cli"} /\ (mu = "cli" <=> pc \in {"prompt", "exec", "stuck"})
  /\ frames # <<>> <=> pc \in {"prompt", "exec"}
  /\ halfway \in BOOLEAN

\* A command runs while it is the one with the shortest path of all that the
\* line begins with, in whatever order they were registered: so no command
\* whose path begins with another's is ever reached.
ShortestPathRuns ==
  mu = "cli" =>
    \E c \in ToSet(cmds) :
      /\ IsPrefix(c.path, line.path)
      /\ \A d \in ToSet(cmds) : IsPrefix(d.path, line.path) => IsPrefix(c.path, d.path)
      /\ IF pc = "stuck" THEN c.kind = "custom" /\ c.runs.registers
         ELSE c.kind = "mgr" /\ c.runs.name = request.service

\* The method of the service that the request names: the last one of the name.
AskedFor(s, m) ==
  LET k == MethodNamed(s.runs, request.method) IN
  s.runs.name = request.service /\ k # 0 /\ m = s.runs.methods[k]

DataAt(path) == {x \in request.data : x[1] = path}

\* What was answered for f, and what of it is in the request.
FieldSent(f) ==
  \E v \in Answers :
    /\ <<<<f.tag>>, v>> \in request.asked
    /\ IF f.type = "struct"
       THEN DataAt(<<f.tag>>) =
              IF v = "yes" \/ Required(f) THEN {<<<<f.tag>>, "object">>} ELSE {}
       ELSE IF f.type \in DOMAIN Reads /\ v # ""
       THEN /\ v \in DOMAIN Reads[f.type]
            /\ DataAt(<<f.tag>>) = {<<<<f.tag>>, Reads[f.type][v]>>}
       ELSE DataAt(<<f.tag>>) = {}

\* The request that is sent is for a method of its service, and is what the
\* user answered, a number as the float64 next to it: a field is in it with its
\* answer just when that was not blank and its type can be typed in, an object
\* when it was asked for or is required; and then the fields of the object were
\* prompted for.  No answer that does not parse is sent or passed over.
SentAsAnswered ==
  pc = "exec" =>
    \E s \in ToSet(services) : \E m \in ToSet(s.runs.methods) :
      /\ AskedFor(s, m)
      /\ \A f \in ToSet(m.fields) :
           /\ FieldSent(f)
           /\ f.type = "struct" /\ DataAt(<<f.tag>>) # {} =>
                \A g \in ToSet(f.fields) :
                  \E w \in Answers : <<<<f.tag, g.tag>>, w>> \in request.asked

\* The loop knows every service the server listed, unless the start failed
\* halfway before: then the later start takes the part for the whole.  It tells
\* them all, and the program's own commands, when asked for help.
HelpIsWhole ==
  pc = "line" =>
    /\ {c.path : c \in ToSet(cmds)} \ {HelpPath}
         = ({s.path : s \in ToSet(services)}
             \cup {c.path : c \in {d \in ToSet(cmds) : d.kind = "custom"}}) \ {HelpPath}
    /\ ~halfway =>
         \E list \in ApiLists \cup {<<>>} :
           {s.path : s \in ToSet(services)} = {CommandName(srv) : srv \in ToSet(list)}
    /\ IsInjective([i \in DOMAIN services |-> services[i].path])

\* The start rewrites a file of the user.  When it opens the file, all that the
\* files name is in another file or in memory; a write that comes to its end
\* puts all of that in the file, with the choice, which the next start finds
\* there.  Excepted is a file of a single service after one that does not
\* decode, whose services may be taken for it.  A rewrite that is cut off, by
\* an error or the end of the process, loses the services of the file.
NamedIn(fs) == UNION {ToSet(g.services) : g \in ToSet(fs)}

Legible(fs) ==
  \A i, j \in DOMAIN fs : j < i /\ fs[j].form = "bad" => fs[i].form # "single"

ConfigSurvives ==
  [][ /\ Legible(files) /\ pc' = "write" =>
           NamedIn(files) \subseteq NamedIn(files') \cup ToSet(cfg'.services)
      /\ CfgWrite =>
           /\ NamedIn(files) \cup ToSet(cfg.services) \subseteq NamedIn(files')
           /\ \E g \in ToSet(files') : g.last = cfg.active /\ g.last \in ToSet(g.services)
    ]_files

\* A line is answered, unless its command registers another one, or the user
\* ends the process; one with an empty flag argument ends the program instead.
LineAnswered ==
  pc \in {"invoke", "prompt", "exec"} /\ ~line.empty ~>
    \/ pc \in {"line", "down"}
    \/ pc = "stuck" /\ \E c \in Custom : c.registers /\ IsPrefix(c.path, line.path)

\* A goroutine that registers a command gets through between two lines, however
\* many are typed, unless a command has locked itself out.
RegistrationGetsThrough ==
  \A c \in Custom : c \in waiting ~> (c \notin waiting \/ pc = "stuck")
=============================================================================
