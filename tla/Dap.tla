--------------------------------- MODULE Dap ---------------------------------
(***************************************************************************)
(* The debug adapter (proxy/src/dap.rs) and its control connection to the  *)
(* proxy of the language server (handle_conn in proxy/src/control.rs).     *)
(*                                                                         *)
(* The adapter finds a running proxy by the session file, has it start the *)
(* debug server, and relays. Its writer thread completes every launch by   *)
(* commands on the control connection: one command, one line, one answer.  *)
(* The connection keeps answers the adapter gave up waiting for.           *)
(***************************************************************************)
EXTENDS Integers, Sequences, FiniteSets

CONSTANTS
    MaxInstances,  \* bound on the proxies the host starts
    MaxLaunches,   \* bound on the launch requests of the client
    UserFields,    \* sets of fields that launch requests come with
    Results        \* sets of parts that results of the server have; {}: an error

Field == {"classPaths", "modulePaths", "moduleName", "cwd", "javaExec"}

\* What a result may have: a port, the document of a class, fields of a launch.
Part == Field \cup {"port", "uri"}

ASSUME BoundAssumption == MaxInstances \in Nat /\ MaxLaunches \in Nat
ASSUME PartAssumption ==
    /\ UserFields \subseteq SUBSET Field
    /\ Results \subseteq SUBSET Part

\* The command whose result has the part.
CommandOf(f) ==
    CASE f = "port" -> "start" [] f = "uri" -> "class"
      [] f = "cwd" -> "cwd" [] f = "javaExec" -> "java" [] OTHER -> "classpath"

Command == {"class", "classpath", "cwd", "java"}

VARIABLES
    alive,      \* the running proxy; 0: none
    started,    \* proxies started so far
    session,    \* the proxy in the session file; 0: no file
    adapter,    \* the main thread of the adapter
    conn,       \* the proxy at the other end of the control connection
    requests,   \* lines on their way to the proxy
    answers,    \* lines on their way to the adapter
    nextId,     \* Control::next_id
    stage,      \* the writer thread: reading, or the command it waits for
    asked,      \* asked[c]: id of command c for the launch in hand; 0: not asked
    user,       \* fields of the launch the user has set
    filled,     \* filled[f]: id of the answer that filled the field; 0: none
    document,   \* id of the answer that named the document; 0: none
    launches,   \* launches read so far
    given,      \* history: <<id, part>> of the results the proxy has written
                \* since the last launch went out
    timedOut,   \* history: ids of commands the adapter gave up waiting for
    eof,        \* the client has closed the stdin of the adapter
    tcpOpen     \* the connection to the debug server

host == <<alive, started, session>>
channel == <<conn, requests, answers, nextId, given, timedOut>>
launch == <<asked, user, filled, document, launches>>
vars == <<host, adapter, channel, stage, launch, eof, tcpOpen>>

NotAsked == [c \in Command |-> 0]
NotFilled == [f \in Field |-> 0]

Init ==
    /\ alive = 0 /\ started = 0 /\ session = 0
    /\ adapter = "connecting" /\ conn = 0
    /\ requests = << >> /\ answers = << >> /\ nextId = 1
    /\ stage = "reading" /\ asked = NotAsked /\ user = {} /\ filled = NotFilled
    /\ document = 0 /\ launches = 0
    /\ given = {} /\ timedOut = {}
    /\ eof = FALSE /\ tcpOpen = FALSE

-----------------------------------------------------------------------------
(* The proxies of the language server.                                      *)

InstanceStarts ==
    /\ alive = 0 /\ started < MaxInstances
    /\ started' = started + 1 /\ alive' = started + 1
    /\ session' = started + 1
    /\ UNCHANGED <<adapter, channel, stage, launch, eof, tcpOpen>>

\* Its server and the debug server go with it; the session file stays.
InstanceDies ==
    /\ alive # 0 /\ alive' = 0
    /\ tcpOpen' = (tcpOpen /\ conn # alive)
    /\ UNCHANGED <<started, session, adapter, channel, stage, launch, eof>>

\* The debug server closes its connection at the end of the debuggee.
BackendCloses ==
    /\ tcpOpen /\ tcpOpen' = FALSE
    /\ UNCHANGED <<host, adapter, channel, stage, launch, eof>>

\* The parts of a result that belong to the command.
PartsOf(command, result) == {part \in result : CommandOf(part) = command}

\* Bug: the call writes its line, and so does the loop that made it.
Twice(line) == <<line, line>>

ResponseLine(line) == <<line>>

\* handle_conn: one line read, one call to the server, one line written.
HandleRequest(result) ==
    /\ conn # 0 /\ alive = conn /\ requests # << >>
    /\ LET request == Head(requests)
           has == PartsOf(request.of, result) IN
         /\ answers' = answers \o ResponseLine([id |-> request.id, has |-> has])
         /\ given' = given \cup ({request.id} \X has)
    /\ requests' = Tail(requests)
    /\ UNCHANGED <<host, adapter, conn, nextId, timedOut, stage, launch, eof, tcpOpen>>

-----------------------------------------------------------------------------
(* execute_command.                                                         *)

NextId == nextId + 1

\* The line is written; id and next_id.
Write(command) ==
    /\ requests' = Append(requests, [id |-> nextId, of |-> command])
    /\ nextId' = NextId

\* The next line is taken for the answer, whatever id it bears.
ReadLine == answers # << >> /\ answers' = Tail(answers) /\ UNCHANGED timedOut

\* Bug: a read that has failed is repeated, for a command that may still run.
KeepReading(id) == FALSE

\* Nothing comes within CONTROL_TIMEOUT, or the connection is closed.
ReadFails(id) ==
    /\ answers = << >> /\ UNCHANGED answers
    /\ \/ timedOut' = timedOut \cup {id}
       \/ alive # conn /\ UNCHANGED timedOut

-----------------------------------------------------------------------------
(* The main thread: run_inner and connect_control.                          *)

Adapter(label) == adapter' = label

Connect ==
    /\ adapter = "connecting" /\ alive # 0 /\ session = alive
    /\ conn' = alive
    /\ Write("start") /\ Adapter("starting")
    /\ UNCHANGED <<host, answers, given, timedOut, stage, launch, eof, tcpOpen>>

\* SESSION_WAIT is over.
GiveUp ==
    /\ adapter = "connecting" /\ (session = 0 \/ session # alive)
    /\ Adapter("failed")
    /\ UNCHANGED <<host, channel, stage, launch, eof, tcpOpen>>

\* start_debug_server returns a port that the adapter connects to, or not.
Started ==
    /\ adapter = "starting"
    /\ \/ /\ ReadLine /\ "port" \in Head(answers).has /\ alive = conn
          /\ Adapter("relaying") /\ tcpOpen' = TRUE
       \/ /\ ReadLine \/ ReadFails(1)
          /\ Adapter("failed") /\ UNCHANGED tcpOpen
    /\ UNCHANGED <<host, conn, requests, nextId, given, stage, launch, eof>>

\* backend_to_client is over, and the writer is joined.
AdapterEnds ==
    /\ adapter = "relaying" /\ ~tcpOpen /\ stage = "over"
    /\ Adapter("ended")
    /\ UNCHANGED <<host, channel, stage, launch, eof, tcpOpen>>

-----------------------------------------------------------------------------
(* The writer thread: client_to_backend and enrich_launch.                  *)

Enter(s) ==
    IF s \in Command
      THEN /\ stage' = s
           /\ asked' = [asked EXCEPT ![s] = nextId]
           /\ Write(s)
      ELSE stage' = s /\ UNCHANGED <<asked, requests, nextId>>

\* A launch is read; the class is resolved unless the user names a file.
ReadLaunch(fields, mainClass, file) ==
    /\ adapter = "relaying" /\ stage = "reading" /\ ~eof /\ launches < MaxLaunches
    /\ launches' = launches + 1 /\ user' = fields
    /\ LET first == IF ~mainClass THEN "ready" ELSE IF file THEN "classpath" ELSE "class" IN
         IF first = "ready"
           THEN stage' = first /\ UNCHANGED <<asked, requests, nextId>>
           ELSE /\ stage' = first
                /\ asked' = [asked EXCEPT ![first] = nextId]
                /\ Write(first)
    /\ UNCHANGED <<host, adapter, conn, answers, given, timedOut, filled, document, eof,
                   tcpOpen>>

\* Only fields that are not set, or empty, are filled.
Unset(f, values) == f \notin user /\ values[f] = 0

\* The fields this command resolves, as far as the answer has them.
Fill(command, answer) ==
    [f \in Field |->
       IF CommandOf(f) = command /\ f \in answer.has /\ Unset(f, filled)
         THEN answer.id ELSE filled[f]]

\* Bug: a working directory of the user ends the resolution.
StopAtCwd(command, values) ==
    IF command = "classpath" /\ Unset("cwd", values) THEN "cwd"
    ELSE IF command = "cwd" /\ Unset("javaExec", values) THEN "java"
    ELSE "ready"

\* The commands for fields that are still not set follow.
After(command, values) ==
    IF command = "classpath" /\ Unset("cwd", values) THEN "cwd"
    ELSE IF command \in {"classpath", "cwd"} /\ Unset("javaExec", values) THEN "java"
    ELSE "ready"

\* The document: without it nothing is resolved.
EndClass ==
    /\ stage = "class"
    /\ \/ /\ ReadLine /\ "uri" \in Head(answers).has
          /\ document' = Head(answers).id /\ Enter("classpath")
       \/ /\ ReadLine /\ "uri" \notin Head(answers).has
          /\ Enter("ready") /\ UNCHANGED document
       \/ /\ ReadFails(asked["class"])
          /\ Enter("ready") /\ UNCHANGED document
    /\ UNCHANGED <<host, adapter, conn, given, user, filled, launches, eof,
                   tcpOpen>>

EndCommand ==
    /\ stage \in Command \ {"class"}
    /\ \/ ReadLine /\ filled' = Fill(stage, Head(answers))
       \/ ReadFails(asked[stage]) /\ UNCHANGED filled
    /\ Enter(After(stage, filled'))
    /\ UNCHANGED <<host, adapter, conn, given, user, document, launches, eof,
                   tcpOpen>>

\* The frame is written; a write to a closed connection fails sooner or later.
Forward ==
    /\ stage = "ready"
    /\ \/ stage' = "reading"
       \/ ~tcpOpen /\ stage' = "over"
    /\ asked' = NotAsked /\ user' = {} /\ filled' = NotFilled /\ document' = 0 /\ given' = {}
    /\ UNCHANGED <<host, adapter, conn, requests, answers, nextId, timedOut, launches, eof,
                   tcpOpen>>

ClientCloses ==
    /\ ~eof /\ eof' = TRUE
    /\ UNCHANGED <<host, adapter, channel, stage, launch, tcpOpen>>

\* Bug: the connection is not shut down when the client is gone.
LeaveOpen == tcpOpen

ShutDown == FALSE

WriterEnds ==
    /\ adapter = "relaying" /\ stage = "reading" /\ eof
    /\ stage' = "over" /\ tcpOpen' = ShutDown
    /\ UNCHANGED <<host, adapter, channel, launch, eof>>

-----------------------------------------------------------------------------
MainThread == Connect \/ GiveUp \/ Started \/ AdapterEnds
WriterThread == EndClass \/ EndCommand \/ Forward \/ WriterEnds
Handle == \E result \in Results : HandleRequest(result)

Next ==
    \/ InstanceStarts \/ InstanceDies \/ BackendCloses \/ Handle
    \/ MainThread \/ WriterThread \/ ClientCloses
    \/ \E fields \in UserFields, mainClass, file \in BOOLEAN :
          ReadLaunch(fields, mainClass, file)

Spec == Init /\ [][Next]_vars

\* The threads of the adapter run, and the proxy, while it lives, answers every
\* line: its calls end by their time-out.
FairSpec == Spec /\ WF_vars(MainThread) /\ WF_vars(WriterThread) /\ WF_vars(Handle)

-----------------------------------------------------------------------------
Id == 0..(1 + 4 * MaxLaunches)

\* Type invariant: the proxies, the connection and the launch in hand.
TypeOK ==
    /\ alive \in 0..MaxInstances /\ started \in 0..MaxInstances
    /\ session \in 0..MaxInstances /\ conn \in 0..MaxInstances
    /\ adapter \in {"connecting", "starting", "relaying", "failed", "ended"}
    /\ \A n \in DOMAIN requests :
          requests[n].id \in Id /\ requests[n].of \in Command \cup {"start"}
    /\ \A n \in DOMAIN answers : answers[n].id \in Id /\ answers[n].has \subseteq Part
    /\ nextId \in 1..(2 + 4 * MaxLaunches)
    /\ stage \in Command \cup {"reading", "ready", "over"}
    /\ asked \in [Command -> Id] /\ filled \in [Field -> Id] /\ document \in Id
    /\ user \subseteq Field /\ launches \in 0..MaxLaunches
    /\ given \subseteq Id \X Part /\ timedOut \subseteq Id
    /\ eof \in BOOLEAN /\ tcpOpen \in BOOLEAN

\* An answer is at most as many commands old as reads have timed out.
Lag(command, answer) == asked[command] - answer <= Cardinality(timedOut)

\* Safety: what the adapter adds to a launch is the answer to its own command or,
\* since a late line is taken for the answer to a later command, one that is no
\* more commands old than reads have timed out; no field of the user is replaced.
OwnAnswers ==
    /\ document # 0 => Lag("class", document)
    /\ \A f \in Field : filled[f] # 0 => f \notin user /\ Lag(CommandOf(f), filled[f])

\* The command for the field was asked, and its result lacks the field, there is
\* no result, or it is too late.
Missing(f) ==
    LET id == asked[CommandOf(f)] IN
      id # 0 /\ (<<id, f>> \notin given \/ id \in timedOut)

Resolved(f) == f \in user \/ filled[f] # 0 \/ Missing(f)

\* An earlier command had timed out when the one for the field was asked.
AfterLate(f) == \E id \in timedOut : id < asked[CommandOf(f)]

\* Every command of the launch is over.
Completed == stage = "ready" /\ asked["classpath"] # 0

\* Safety: when a launch with a document goes out, every field is set by the
\* user or filled, or else the command for it had no such result or was too late.
LaunchResolved == Completed => \A f \in Field : Resolved(f)

\* Safety: so it is for every field whose command was asked before the first
\* time-out of a read, or was the one that timed out.
ResolvedUntilLate == Completed => \A f \in Field : Resolved(f) \/ AfterLate(f)

\* Liveness: a launch that was read goes out, or the writer is over, although
\* the backend does not answer or the proxy dies.
LaunchGoesOut == stage \in Command ~> stage \in {"reading", "over"}

\* Liveness: the adapter ends when its client is gone.
ClientEndsAdapter == eof ~> adapter \in {"failed", "ended"}
=============================================================================
