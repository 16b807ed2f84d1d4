------------------------------ MODULE DapProofs ------------------------------
(***************************************************************************)
(* The debug adapter, for any number of proxies and launches: the types,   *)
(* how far the lines the adapter reads are behind its commands, and what   *)
(* follows for the launches that go out.                                   *)
(***************************************************************************)
EXTENDS Dap, FiniteSetTheorems, TLAPS

-----------------------------------------------------------------------------
(* Types. The ids are bounded because a launch takes no more than four.     *)

Request == [id : Id, of : Command \cup {"start"}]
Answer == [id : Id, has : SUBSET Part]

Lines == requests \in Seq(Request) /\ answers \in Seq(Answer)

HostTypes ==
    /\ alive \in 0..MaxInstances /\ started \in 0..MaxInstances
    /\ session \in 0..MaxInstances /\ conn \in 0..MaxInstances

AdapterTypes ==
    /\ adapter \in {"connecting", "starting", "relaying", "failed", "ended"}
    /\ nextId \in 1..(2 + 4 * MaxLaunches)
    /\ stage \in Command \cup {"reading", "ready", "over"}
    /\ asked \in [Command -> Id] /\ filled \in [Field -> Id] /\ document \in Id
    /\ user \subseteq Field /\ launches \in 0..MaxLaunches
    /\ given \subseteq Id \X Part /\ timedOut \subseteq Id
    /\ eof \in BOOLEAN /\ tcpOpen \in BOOLEAN

\* The commands that may follow the one in hand.
Left(s) == CASE s = "class" -> 3 [] s = "classpath" -> 2 [] s = "cwd" -> 1 [] OTHER -> 0

Budget ==
    /\ nextId + Left(stage) <= 2 + 4 * launches
    /\ adapter = "connecting" => nextId = 1 /\ stage = "reading" /\ conn = 0
    /\ adapter = "starting" => nextId = 2 /\ stage = "reading"

Types == Lines /\ HostTypes /\ AdapterTypes /\ Budget

USE BoundAssumption, PartAssumption

LEMMA TypesGiveTypeOK == Types => TypeOK
<1> SUFFICES ASSUME Types PROVE TypeOK
  OBVIOUS
<1>1. \A n \in DOMAIN requests : requests[n] \in Request
  BY DEF Types, Lines
<1>2. \A n \in DOMAIN answers : answers[n] \in Answer
  BY DEF Types, Lines
<1> QED
  BY <1>1, <1>2 DEF Types, HostTypes, AdapterTypes, TypeOK, Request, Answer

LEMMA TypesInit == Init => Types
<1> SUFFICES ASSUME Init PROVE Types
  OBVIOUS
<1>1. Lines
  BY DEF Init, Lines
<1>2. HostTypes
  BY DEF Init, HostTypes
<1>3. 0 \in Id /\ 1 \in 1..(2 + 4 * MaxLaunches) /\ 0 \in 0..MaxLaunches
  BY DEF Id
<1>4. AdapterTypes
  BY <1>3 DEF Init, AdapterTypes, NotAsked, NotFilled
<1>5. Budget
  BY DEF Init, Budget, Left
<1> QED
  BY <1>1, <1>2, <1>4, <1>5 DEF Types

\* What the read of a line leaves.
LEMMA ReadTypes ==
    ASSUME Types, ReadLine
    PROVE /\ answers # << >> /\ Head(answers) \in Answer /\ answers' = Tail(answers)
          /\ answers' \in Seq(Answer) /\ timedOut' = timedOut
<1>1. answers # << >> /\ answers' = Tail(answers) /\ timedOut' = timedOut
  BY DEF ReadLine
<1>2. answers \in Seq(Answer)
  BY DEF Types, Lines
<1> QED
  BY <1>1, <1>2

LEMMA ReadFailsTypes ==
    ASSUME Types, NEW id \in Id, ReadFails(id)
    PROVE answers = << >> /\ answers' = answers /\ timedOut' \subseteq Id
  BY DEF ReadFails, Types, AdapterTypes

\* The next command, or none: an id is taken from the launch in hand.
LEMMA EnterTypes ==
    ASSUME Types, NEW s \in {"classpath", "cwd", "java", "ready"}, Enter(s),
           stage \in Command, Left(s) < Left(stage) \/ s = "ready"
    PROVE /\ requests' \in Seq(Request) /\ asked' \in [Command -> Id] /\ stage' = s
          /\ nextId' \in 1..(2 + 4 * MaxLaunches)
          /\ nextId' + Left(s) <= 2 + 4 * launches
<1> USE DEF Types, AdapterTypes, Budget, Lines
<1>1. CASE s = "ready"
  BY <1>1 DEF Enter, Command, Left
<1>2. CASE s # "ready"
  <2>1. /\ stage' = s /\ asked' = [asked EXCEPT ![s] = nextId] /\ nextId' = nextId + 1
        /\ requests' = Append(requests, [id |-> nextId, of |-> s])
    BY <1>2 DEF Enter, Command, Write, NextId
  <2>2. nextId + 1 + Left(s) <= 2 + 4 * launches
    BY <1>2 DEF Left, Command
  <2>3. nextId \in Id /\ nextId + 1 \in 1..(2 + 4 * MaxLaunches)
    <3>1. Left(s) \in 0..3
      BY DEF Left
    <3>2. nextId \in Nat \ {0} /\ launches \in Nat /\ launches <= MaxLaunches
      OBVIOUS
    <3>3. 4 * launches <= 4 * MaxLaunches
      BY <3>2
    <3>4. nextId + 1 <= 2 + 4 * MaxLaunches
      BY <2>2, <3>1, <3>2, <3>3
    <3> QED
      BY <3>2, <3>4 DEF Id
  <2>4. [id |-> nextId, of |-> s] \in Request
    BY <1>2, <2>3 DEF Request, Command
  <2>5. requests' \in Seq(Request)
    BY <2>1, <2>4
  <2>6. asked' \in [Command -> Id]
    BY <2>1, <2>3
  <2> QED
    BY <2>1, <2>2, <2>3, <2>5, <2>6
<1> QED
  BY <1>1, <1>2

LEMMA HostStepTypes ==
    ASSUME Types, InstanceStarts \/ InstanceDies \/ BackendCloses \/ GiveUp \/ AdapterEnds
                    \/ Forward \/ ClientCloses \/ WriterEnds \/ UNCHANGED vars
    PROVE Types'
<1> USE DEF Types, host, channel, launch, vars
<1>1. Lines'
  BY DEF Lines, InstanceStarts, InstanceDies, BackendCloses, GiveUp, AdapterEnds, Forward,
     ClientCloses, WriterEnds
<1>2. HostTypes'
  BY DEF HostTypes, InstanceStarts, InstanceDies, BackendCloses, GiveUp, AdapterEnds,
     Forward, ClientCloses, WriterEnds
<1>3. AdapterTypes'
  <2> USE DEF AdapterTypes, Adapter
  <2>1. CASE InstanceStarts \/ InstanceDies \/ BackendCloses \/ UNCHANGED vars
    BY <2>1 DEF InstanceStarts, InstanceDies, BackendCloses
  <2>2. CASE GiveUp \/ AdapterEnds
    BY <2>2 DEF GiveUp, AdapterEnds
  <2>3. CASE Forward \/ ClientCloses \/ WriterEnds
    <3>1. 0 \in Id
      BY DEF Id
    <3>2. CASE Forward
      BY <3>1, <3>2 DEF Forward, NotAsked, NotFilled
    <3>3. CASE ClientCloses \/ WriterEnds
      BY <3>3 DEF ClientCloses, WriterEnds, ShutDown
    <3> QED
      BY <2>3, <3>2, <3>3
  <2> QED
    BY <2>1, <2>2, <2>3
<1>4. Budget'
  <2> USE DEF Budget, Left, Adapter
  <2>1. CASE InstanceStarts \/ InstanceDies \/ BackendCloses \/ UNCHANGED vars
    BY <2>1 DEF InstanceStarts, InstanceDies, BackendCloses
  <2>2. CASE GiveUp \/ AdapterEnds
    BY <2>2 DEF GiveUp, AdapterEnds
  <2>3. CASE Forward \/ ClientCloses \/ WriterEnds
    BY <2>3 DEF Forward, ClientCloses, WriterEnds
  <2> QED
    BY <2>1, <2>2, <2>3
<1> QED
  BY <1>1, <1>2, <1>3, <1>4

LEMMA HandleTypes ==
    ASSUME Types, NEW result \in Results, HandleRequest(result)
    PROVE Types'
<1> USE DEF Types
<1> DEFINE request == Head(requests)
           has == PartsOf(request.of, result)
           line == [id |-> request.id, has |-> has]
<1>1. /\ requests # << >> /\ requests' = Tail(requests)
      /\ answers' = answers \o <<line>>
      /\ given' = given \cup ({request.id} \X has)
      /\ UNCHANGED <<host, adapter, conn, nextId, timedOut, stage, launch, eof, tcpOpen>>
  BY DEF HandleRequest, ResponseLine
<1>2. request \in Request
  BY <1>1 DEF Lines
<1>3. line \in Answer /\ request.id \in Id /\ has \subseteq Part
  BY <1>2 DEF Request, Answer, PartsOf
<1>4. Lines'
  <2> HIDE DEF line
  <2>1. <<line>> \in Seq(Answer)
    BY <1>3
  <2> QED
    BY <1>1, <2>1 DEF Lines
<1>5. HostTypes' /\ Budget'
  BY <1>1 DEF HostTypes, Budget, host, launch, Left
<1>6. AdapterTypes'
  <2> HIDE DEF has
  <2>1. given' \subseteq Id \X Part
    BY <1>1, <1>3 DEF AdapterTypes
  <2> QED
    BY <1>1, <2>1 DEF AdapterTypes, launch
<1> QED
  BY <1>4, <1>5, <1>6

LEMMA ConnectTypes ==
    ASSUME Types, Connect \/ Started
    PROVE Types'
<1> USE DEF Types
<1>1. CASE Connect
  <2>1. /\ adapter = "connecting" /\ adapter' = "starting" /\ conn' = alive
        /\ requests' = Append(requests, [id |-> nextId, of |-> "start"])
        /\ nextId' = nextId + 1
        /\ UNCHANGED <<host, answers, given, timedOut, stage, launch, eof, tcpOpen>>
    BY <1>1 DEF Connect, Write, NextId, Adapter
  <2>2. nextId = 1 /\ stage = "reading"
    BY <2>1 DEF Budget
  <2>3. [id |-> nextId, of |-> "start"] \in Request
    BY <2>2 DEF Request, Id
  <2>4. Lines'
    BY <2>1, <2>3 DEF Lines
  <2>5. HostTypes' /\ Budget'
    BY <2>1, <2>2 DEF HostTypes, Budget, host, launch, Left, AdapterTypes
  <2>6. AdapterTypes'
    BY <2>1, <2>2 DEF AdapterTypes, launch
  <2> QED
    BY <2>4, <2>5, <2>6
<1>2. CASE Started
  <2>1. /\ adapter = "starting" /\ adapter' \in {"relaying", "failed"}
        /\ tcpOpen' \in BOOLEAN /\ (ReadLine \/ ReadFails(1))
        /\ UNCHANGED <<host, conn, requests, nextId, given, stage, launch, eof>>
    BY <1>2 DEF Started, Adapter, AdapterTypes
  <2>2. 1 \in Id
    BY DEF Id
  <2>3. answers' \in Seq(Answer) /\ timedOut' \subseteq Id
    <3>1. CASE ReadLine
      BY <3>1, ReadTypes DEF AdapterTypes
    <3>2. CASE ReadFails(1)
      BY <3>2, <2>2, ReadFailsTypes DEF Lines
    <3> QED
      BY <2>1, <3>1, <3>2
  <2>4. Lines' /\ HostTypes' /\ Budget'
    BY <2>1, <2>3 DEF Lines, HostTypes, Budget, host, launch, Left
  <2>5. AdapterTypes'
    BY <2>1, <2>3 DEF AdapterTypes, launch
  <2> QED
    BY <2>4, <2>5
<1> QED
  BY <1>1, <1>2

LEMMA LaunchTypes ==
    ASSUME Types, NEW fields \in UserFields, NEW mainClass \in BOOLEAN,
           NEW withFile \in BOOLEAN, ReadLaunch(fields, mainClass, withFile)
    PROVE Types'
<1> USE DEF Types
<1>1. /\ adapter = "relaying" /\ launches < MaxLaunches /\ launches' = launches + 1
      /\ stage = "reading" /\ user' = fields
      /\ UNCHANGED <<host, adapter, conn, answers, given, timedOut, filled, document, eof,
                     tcpOpen>>
  BY DEF ReadLaunch
<1>2. launches' \in 0..MaxLaunches /\ 4 * launches' = 4 * launches + 4
  BY <1>1 DEF AdapterTypes
<1>3. nextId <= 2 + 4 * launches /\ 4 * launches' <= 4 * MaxLaunches
  <2>1. Left(stage) = 0
    BY <1>1 DEF Left
  <2>2. nextId + 0 <= 2 + 4 * launches /\ nextId \in Nat /\ launches \in Nat
    BY <2>1 DEF Budget, AdapterTypes
  <2>3. launches' \in Nat /\ launches' <= MaxLaunches
    BY <1>2
  <2>4. \A k \in Nat : k <= MaxLaunches => 4 * k <= 4 * MaxLaunches
    OBVIOUS
  <2>5. 4 * launches' <= 4 * MaxLaunches
    BY <2>3, <2>4
  <2> QED
    BY <2>2, <2>5
<1>4. nextId \in Id /\ nextId + 1 \in 1..(2 + 4 * MaxLaunches)
  <2>1. nextId \in Nat \ {0} /\ launches \in Nat /\ launches' \in Nat
    BY <1>2 DEF AdapterTypes
  <2>2. 4 * launches + 4 <= 4 * MaxLaunches
    BY <1>2, <1>3
  <2>3. \A k, l \in Nat : k <= 2 + 4 * l /\ 4 * l + 4 <= 4 * MaxLaunches =>
           k <= 4 * MaxLaunches
    OBVIOUS
  <2>4. nextId <= 4 * MaxLaunches
    BY <2>1, <2>2, <2>3, <1>3
  <2> QED
    BY <2>1, <2>4 DEF Id
<1>5. /\ requests' \in Seq(Request) /\ asked' \in [Command -> Id]
      /\ stage' \in {"ready", "classpath", "class"}
      /\ nextId' \in 1..(2 + 4 * MaxLaunches) /\ nextId' + Left(stage') <= 2 + 4 * launches'
  <2>1. 0 \in Id
    BY DEF Id
  <2>2. CASE ~mainClass
    BY <2>1, <2>2, <1>2, <1>3 DEF ReadLaunch, NotAsked, Lines, AdapterTypes, Left
  <2>3. CASE mainClass
    <3>1. PICK s \in {"classpath", "class"} :
             /\ stage' = s /\ asked' = [asked EXCEPT ![s] = nextId]
             /\ requests' = Append(requests, [id |-> nextId, of |-> s])
             /\ nextId' = nextId + 1
      BY <2>3 DEF ReadLaunch, Write, NextId
    <3>2. [id |-> nextId, of |-> s] \in Request
      BY <1>4 DEF Request, Command
    <3>3. requests' \in Seq(Request)
      BY <3>1, <3>2 DEF Lines
    <3>4. asked' \in [Command -> Id]
      BY <3>1, <1>4 DEF AdapterTypes
    <3>5. nextId' + Left(stage') <= 2 + 4 * launches'
      <4>1. Left(s) \in Nat /\ Left(s) <= 3
        BY DEF Left
      <4>2. nextId \in Nat /\ 4 * launches \in Nat /\ nextId <= 2 + 4 * launches
        BY <1>3 DEF AdapterTypes
      <4>3. nextId + 1 + Left(s) <= 2 + (4 * launches + 4)
        BY <4>1, <4>2
      <4> QED
        BY <3>1, <1>2, <4>3
    <3>6. nextId' \in 1..(2 + 4 * MaxLaunches)
      BY <3>1, <1>4
    <3> QED
      BY <3>1, <3>3, <3>4, <3>5, <3>6
  <2> QED
    BY <2>2, <2>3
<1>6. Lines' /\ HostTypes' /\ Budget'
  BY <1>1, <1>5 DEF Lines, HostTypes, Budget, host
<1>7. AdapterTypes'
  <2>1. 0 \in Id
    BY DEF Id
  <2> QED
    BY <1>1, <1>2, <1>5, <2>1 DEF AdapterTypes, NotFilled, Command
<1> QED
  BY <1>6, <1>7

LEMMA EndTypes ==
    ASSUME Types, EndClass \/ EndCommand
    PROVE Types'
<1> USE DEF Types
<1>1. stage \in Command /\ asked[stage] \in Id
      /\ UNCHANGED <<host, adapter, conn, given, user, launches, eof, tcpOpen>>
  BY DEF EndClass, EndCommand, Command, AdapterTypes
<1>2. PICK s \in {"classpath", "cwd", "java", "ready"} :
         Enter(s) /\ (Left(s) < Left(stage) \/ s = "ready")
  <2>1. CASE EndClass
    BY <2>1 DEF EndClass, Left
  <2>2. CASE EndCommand
    BY <2>2 DEF EndCommand, After, Command, Left
  <2> QED
    BY <2>1, <2>2
<1>3. /\ requests' \in Seq(Request) /\ asked' \in [Command -> Id] /\ stage' = s
      /\ nextId' \in 1..(2 + 4 * MaxLaunches) /\ nextId' + Left(s) <= 2 + 4 * launches
  BY <1>1, <1>2, EnterTypes
<1>4. ReadLine \/ ReadFails(asked[stage])
  BY DEF EndClass, EndCommand
<1>5. answers' \in Seq(Answer) /\ timedOut' \subseteq Id
  BY <1>1, <1>4, ReadTypes, ReadFailsTypes DEF Lines, AdapterTypes
<1>6. document' \in Id /\ filled' \in [Field -> Id]
  <2>1. ReadLine => Head(answers).id \in Id
    BY ReadTypes DEF Answer
  <2>2. CASE EndClass
    BY <2>1, <2>2 DEF EndClass, AdapterTypes
  <2>3. CASE EndCommand
    BY <2>1, <2>3 DEF EndCommand, AdapterTypes, Fill
  <2> QED
    BY <2>2, <2>3
<1>7. Lines' /\ HostTypes' /\ Budget'
  BY <1>1, <1>2, <1>3, <1>5 DEF Lines, HostTypes, Budget, host, Command
<1>8. AdapterTypes'
  BY <1>1, <1>2, <1>3, <1>5, <1>6 DEF AdapterTypes, Command
<1> QED
  BY <1>7, <1>8

LEMMA TypesNext == Types /\ [Next]_vars => Types'
<1> SUFFICES ASSUME Types, [Next]_vars PROVE Types'
  OBVIOUS
<1>1. CASE InstanceStarts \/ InstanceDies \/ BackendCloses \/ ClientCloses \/ UNCHANGED vars
  BY <1>1, HostStepTypes
<1>2. CASE Handle
  BY <1>2, HandleTypes DEF Handle
<1>3. CASE MainThread
  BY <1>3, HostStepTypes, ConnectTypes DEF MainThread
<1>4. CASE WriterThread
  BY <1>4, HostStepTypes, EndTypes DEF WriterThread
<1>5. CASE \E fields \in UserFields, mainClass, file \in BOOLEAN :
              ReadLaunch(fields, mainClass, file)
  BY <1>5, LaunchTypes
<1> QED
  BY <1>1, <1>2, <1>3, <1>4, <1>5 DEF Next

\* The types hold for any number of proxies and launches, whether lines come late
\* or not: the ids of the commands never exceed four for a launch and one.
THEOREM DapTypeCorrect == Spec => []TypeOK
<1>1. Spec => []Types
  BY TypesInit, TypesNext, PTL DEF Spec
<1> QED
  BY <1>1, TypesGiveTypeOK, PTL

-----------------------------------------------------------------------------
(* The lines of the connection. It is a queue, and the adapter does not     *)
(* look at the id of what it reads: a read that times out leaves one line   *)
(* more ahead of the answers to all later commands.                         *)

Waiting == adapter = "starting" \/ stage \in Command
AwaitedId == IF adapter = "starting" THEN 1 ELSE asked[stage]

Late == Cardinality(timedOut)

\* The id of the line the adapter reads next, and of the one the proxy handles.
NextLine == nextId - Late - (IF Waiting THEN 1 ELSE 0)
NextHandled == NextLine + Len(answers)

\* The lines on their way back, and those on their way to a live proxy, are
\* numbered in a row.
InOrder(next, back, there, total, live) ==
    /\ \A n \in 1..Len(back) : back[n].id = next + n - 1
    /\ next + Len(back) <= total
    /\ live => /\ next + Len(back) + Len(there) = total
               /\ \A n \in 1..Len(there) : there[n].id = next + Len(back) + n - 1

Live == conn # 0 /\ alive = conn

Order == InOrder(NextLine, answers, requests, nextId, Live)

\* Proxies start one after the other; who has none has sent nothing.
Hosts ==
    /\ alive \in {0, started} /\ conn <= started
    /\ conn = 0 => /\ requests = << >> /\ answers = << >> /\ timedOut = {} /\ given = {}
                   /\ adapter \in {"connecting", "failed"} /\ stage = "reading"
    /\ stage \in Command \cup {"ready"} => adapter = "relaying"

Awaits ==
    /\ Waiting => AwaitedId = nextId - 1 /\ AwaitedId # 0 /\ AwaitedId \notin timedOut
    /\ \A id \in timedOut : id < nextId

\* What a line has is what the proxy has written, as long as none is late.
Contents ==
    /\ \A entry \in given : entry[1] < NextHandled
    /\ timedOut = {} =>
         \A n \in 1..Len(answers), part \in Part :
            part \in answers[n].has <=> <<answers[n].id, part>> \in given

\* The commands of the launch are asked one after the other.
Asked ==
    /\ stage \in {"reading", "over"} =>
         asked = NotAsked /\ filled = NotFilled /\ document = 0
    /\ stage = "class" => \A c \in {"classpath", "cwd", "java"} : asked[c] = 0
    /\ stage = "classpath" => asked["cwd"] = 0 /\ asked["java"] = 0
    /\ stage = "cwd" => asked["java"] = 0
    /\ \A f \in Field : filled[f] # 0 => asked[CommandOf(f)] # 0

\* The line for a command that is over is read, unless some read was late.
Over(c) ==
    \/ asked[c] < NextLine \/ asked[c] \in timedOut
    \/ \E id \in timedOut : id < asked[c]

CommandsOver == \A c \in Command : asked[c] # 0 /\ c # stage => Over(c)

\* A command that is over has done for its fields what it can.
Done(c) == \A f \in Field : CommandOf(f) = c => Resolved(f) \/ AfterLate(f)

Progress ==
    asked["classpath"] # 0 =>
      /\ stage \in {"cwd", "java", "ready"} => Done("classpath")
      /\ stage \in {"java", "ready"} => Done("cwd")
      /\ stage = "ready" => Done("java")

Inv ==
    /\ Types /\ Hosts /\ Order /\ Awaits /\ Contents /\ Asked
    /\ CommandsOver /\ OwnAnswers /\ Progress

-----------------------------------------------------------------------------
(* Lines in a row, whoever writes or reads one.                             *)

LEMMA InOrderRead ==
    ASSUME NEW next \in Int, NEW total \in Int, NEW back \in Seq(Answer),
           NEW there \in Seq(Request), NEW live \in BOOLEAN,
           InOrder(next, back, there, total, live), back # << >>
    PROVE /\ Head(back).id = next
          /\ InOrder(next + 1, Tail(back), there, total, live)
<1>1. /\ Len(back) \in Nat /\ Len(back) > 0 /\ Head(back) = back[1]
      /\ Len(Tail(back)) = Len(back) - 1
      /\ \A n \in 1..Len(Tail(back)) : Tail(back)[n] = back[n + 1] /\ n + 1 \in 1..Len(back)
  OBVIOUS
<1>2. back[1].id = next + 1 - 1
  BY <1>1 DEF InOrder
<1>3. \A n \in 1..Len(Tail(back)) : Tail(back)[n].id = (next + 1) + n - 1
  BY <1>1 DEF InOrder
<1> DEFINE rest == Tail(back)
<1>4. (next + 1) + Len(rest) = next + Len(back)
  BY <1>1
<1>5. Head(back).id = next
  BY <1>1, <1>2
<1>6. \A n \in 1..Len(rest) : rest[n].id = (next + 1) + n - 1
  BY <1>3
<1> HIDE DEF rest
<1>7. InOrder(next + 1, rest, there, total, live)
  BY <1>4, <1>6 DEF InOrder
<1> QED
  BY <1>5, <1>7 DEF rest

LEMMA InOrderSkip ==
    ASSUME NEW next \in Int, NEW total \in Int, NEW there \in Seq(Request),
           next + 1 <= total
    PROVE InOrder(next + 1, << >>, there, total, FALSE)
  BY DEF InOrder

LEMMA InOrderAsk ==
    ASSUME NEW next \in Int, NEW total \in Int, NEW back \in Seq(Answer),
           NEW there \in Seq(Request), NEW live \in BOOLEAN, NEW request \in Request,
           InOrder(next, back, there, total, live), request.id = total
    PROVE InOrder(next, back, Append(there, request), total + 1, live)
<1> DEFINE more == Append(there, request)
<1>1. /\ Len(back) \in Nat /\ Len(there) \in Nat /\ Len(more) = Len(there) + 1
      /\ \A n \in 1..Len(there) : more[n] = there[n]
      /\ more[Len(there) + 1] = request
  OBVIOUS
<1>2. ASSUME live, NEW n \in 1..Len(more)
      PROVE more[n].id = next + Len(back) + n - 1
  <2>1. next + Len(back) + Len(there) = total
    BY <1>2 DEF InOrder
  <2>2. CASE n = Len(there) + 1
    BY <1>1, <2>1, <2>2
  <2>3. CASE n \in 1..Len(there)
    BY <1>1, <1>2, <2>3 DEF InOrder
  <2> QED
    BY <1>1, <2>2, <2>3
<1> HIDE DEF more
<1> QED
  BY <1>1, <1>2 DEF InOrder, more

LEMMA InOrderHandle ==
    ASSUME NEW next \in Int, NEW total \in Int, NEW back \in Seq(Answer),
           NEW there \in Seq(Request), NEW line \in Answer,
           InOrder(next, back, there, total, TRUE), there # << >>, line.id = Head(there).id
    PROVE /\ line.id = next + Len(back)
          /\ InOrder(next, back \o <<line>>, Tail(there), total, TRUE)
<1> DEFINE more == back \o <<line>>
<1>1. /\ Len(back) \in Nat /\ Len(there) \in Nat /\ Len(there) > 0
      /\ Head(there) = there[1] /\ Len(Tail(there)) = Len(there) - 1
      /\ \A n \in 1..Len(Tail(there)) :
            Tail(there)[n] = there[n + 1] /\ n + 1 \in 1..Len(there)
  OBVIOUS
<1>2. /\ Len(more) = Len(back) + 1 /\ more[Len(back) + 1] = line
      /\ \A n \in 1..Len(back) : more[n] = back[n]
  OBVIOUS
<1>3. there[1].id = next + Len(back) + 1 - 1
  BY <1>1 DEF InOrder
<1>4. line.id = next + Len(back)
  BY <1>1, <1>3
<1>5. \A n \in 1..Len(more) : more[n].id = next + n - 1
  BY <1>1, <1>2, <1>4 DEF InOrder
<1>6. \A n \in 1..Len(Tail(there)) :
         Tail(there)[n].id = next + (Len(back) + 1) + n - 1
  BY <1>1 DEF InOrder
<1>7. next + Len(back) + Len(there) = total
  BY DEF InOrder
<1> HIDE DEF more
<1> QED
  BY <1>1, <1>2, <1>4, <1>5, <1>6, <1>7 DEF InOrder, more

LEMMA InOrderDead ==
    ASSUME NEW next, NEW total, NEW back, NEW there, NEW live,
           InOrder(next, back, there, total, live)
    PROVE InOrder(next, back, there, total, FALSE)
  BY DEF InOrder

\* The counts are numbers.
LEMMA Counts ==
    ASSUME Types
    PROVE /\ IsFiniteSet(timedOut) /\ Late \in Nat /\ (Late = 0 <=> timedOut = {})
          /\ nextId \in Int /\ NextLine \in Int /\ Len(answers) \in Nat
          /\ NextHandled = NextLine + Len(answers) /\ Live \in BOOLEAN
<1>1. 0 \in Int /\ 1 + 4 * MaxLaunches \in Int
  OBVIOUS
<1>2. IsFiniteSet(Id)
  BY <1>1, FS_Interval DEF Id
<1>3. IsFiniteSet(timedOut)
  BY <1>2, FS_Subset DEF Types, AdapterTypes
<1>4. Late \in Nat /\ (Late = 0 <=> timedOut = {})
  BY <1>3, FS_CardinalityType, FS_EmptySet DEF Late
<1>5. nextId \in Int /\ Len(answers) \in Nat
  BY DEF Types, AdapterTypes, Lines
<1> QED
  BY <1>3, <1>4, <1>5 DEF NextLine, NextHandled, Live

LEMMA InvInit == Init => Inv
<1> SUFFICES ASSUME Init PROVE Inv
  OBVIOUS
<1>1. Types
  BY TypesInit
<1>2. timedOut = {} /\ Late = 0 /\ ~Waiting /\ NextLine = 1
  BY FS_EmptySet DEF Init, Late, Waiting, Command, NextLine
<1>3. Hosts /\ Awaits /\ Contents
  BY <1>2 DEF Init, Hosts, Command, Awaits, Contents
<1>4. Order
  BY <1>2 DEF Init, Order, InOrder, Live
<1>5. Asked /\ CommandsOver /\ OwnAnswers /\ Progress
  BY DEF Init, Asked, CommandsOver, OwnAnswers, Progress, NotAsked, NotFilled, Command
<1> QED
  BY <1>1, <1>3, <1>4, <1>5 DEF Inv

\* Steps after which the adapter waits for what it has waited for before.
LEMMA StillWaiting ==
    ASSUME Inv, Types', Hosts',
           UNCHANGED <<conn, requests, answers, nextId, given, timedOut, launch>>,
           Waiting' <=> Waiting, Waiting => AwaitedId' = AwaitedId, Live' => Live,
           stage' = stage \/ (stage = "reading" /\ stage' = "over")
    PROVE Inv'
<1> USE DEF Inv, launch
<1>1. Late' = Late /\ NextLine' = NextLine /\ NextHandled' = NextHandled
  BY DEF Late, NextLine, NextHandled
<1>2. Order'
  BY <1>1 DEF Order, InOrder
<1>3. Awaits' /\ Contents'
  BY <1>1 DEF Awaits, Contents
<1>4. Asked'
  BY DEF Asked
<1>5. CommandsOver'
  BY <1>1 DEF CommandsOver, Over, Asked, NotAsked, Command
<1>6. OwnAnswers'
  BY <1>1 DEF OwnAnswers, Lag, Late
<1>7. Progress'
  BY DEF Progress, Done, Resolved, Missing, AfterLate
<1> QED
  BY <1>2, <1>3, <1>4, <1>5, <1>6, <1>7

LEMMA HostsKept ==
    ASSUME Inv, [Next]_vars
    PROVE Hosts'
<1> USE DEF Inv, Hosts, Types, HostTypes, Command
<1>1. CASE InstanceStarts \/ InstanceDies
  BY <1>1 DEF InstanceStarts, InstanceDies, channel
<1>2. CASE Connect
  BY <1>2 DEF Connect, host, Adapter, Budget
<1>3. CASE BackendCloses \/ ClientCloses \/ GiveUp \/ AdapterEnds \/ UNCHANGED vars
  BY <1>3 DEF BackendCloses, ClientCloses, GiveUp, AdapterEnds, vars, host, channel, Adapter
<1>4. CASE Handle
  BY <1>4 DEF Handle, HandleRequest, host
<1>5. CASE Started
  BY <1>5 DEF Started, host, Adapter, Budget
<1>6. CASE WriterThread
  <2>1. conn # 0 /\ UNCHANGED <<host, conn, adapter>>
        /\ (stage' \in Command \cup {"ready"} => stage \in Command)
    BY <1>6 DEF WriterThread, EndClass, EndCommand, Forward, WriterEnds, host, channel
  <2> QED
    BY <2>1 DEF host
<1>7. CASE \E fields \in UserFields, mainClass, file \in BOOLEAN :
              ReadLaunch(fields, mainClass, file)
  BY <1>7 DEF ReadLaunch, host
<1> QED
  BY <1>1, <1>2, <1>3, <1>4, <1>5, <1>6, <1>7 DEF Next, MainThread

LEMMA HostStepKeeps ==
    ASSUME Inv, Types', Hosts',
           InstanceStarts \/ InstanceDies \/ BackendCloses \/ GiveUp \/ AdapterEnds
             \/ ClientCloses \/ WriterEnds \/ UNCHANGED vars
    PROVE Inv'
<1> USE DEF channel, host, launch, vars, Waiting, AwaitedId, Live, Adapter
<1>0. Types /\ Hosts
  BY DEF Inv
<1>1. CASE InstanceStarts
  <2>1. alive' # conn
    BY <1>0, <1>1 DEF Hosts, Types, HostTypes, InstanceStarts
  <2> QED
    BY <1>1, <2>1, StillWaiting DEF InstanceStarts
<1>2. CASE InstanceDies
  BY <1>2, StillWaiting DEF InstanceDies
<1>3. CASE BackendCloses \/ ClientCloses \/ UNCHANGED vars
  BY <1>3, StillWaiting DEF BackendCloses, ClientCloses
<1>4. CASE GiveUp
  <2>1. adapter = "connecting" /\ adapter' = "failed" /\ stage = "reading" /\ stage' = stage
    BY <1>0, <1>4 DEF GiveUp, Types, Budget
  <2> QED
    BY <1>4, <2>1, StillWaiting DEF GiveUp, Command
<1>5. CASE AdapterEnds
  <2>1. adapter = "relaying" /\ adapter' = "ended" /\ stage = "over" /\ stage' = stage
    BY <1>5 DEF AdapterEnds
  <2> QED
    BY <1>5, <2>1, StillWaiting DEF AdapterEnds, Command
<1>6. CASE WriterEnds
  <2>1. stage = "reading" /\ stage' = "over" /\ adapter' = adapter /\ adapter = "relaying"
    BY <1>6 DEF WriterEnds
  <2> QED
    BY <1>6, <2>1, StillWaiting DEF WriterEnds, Command
<1> QED
  BY <1>1, <1>2, <1>3, <1>4, <1>5, <1>6

\* The launch goes out: the next one begins with nothing asked.
LEMMA ForwardKeeps ==
    ASSUME Inv, Types', Hosts', Forward
    PROVE Inv'
<1>0. Types /\ Hosts /\ Order /\ Awaits
  BY DEF Inv
<1>1. /\ stage = "ready" /\ stage' \in {"reading", "over"} /\ asked' = NotAsked
      /\ filled' = NotFilled /\ document' = 0 /\ given' = {}
      /\ UNCHANGED <<host, adapter, conn, requests, answers, nextId, timedOut>>
  BY DEF Forward
<1>2. ~Waiting /\ ~Waiting'
  BY <1>0, <1>1 DEF Hosts, Waiting, Command
<1>3. Late' = Late /\ NextLine' = NextLine /\ NextHandled' = NextHandled /\ Live' = Live
  BY <1>1, <1>2 DEF Late, NextLine, NextHandled, Live, host
<1>4. Order'
  BY <1>0, <1>1, <1>3 DEF Order, InOrder
<1>5. Awaits'
  BY <1>0, <1>1, <1>2 DEF Awaits
<1>6. timedOut = {} => Len(answers) = 0
  BY <1>0, <1>2, Counts DEF Order, InOrder, NextLine
<1>7. Contents'
  BY <1>1, <1>6 DEF Contents
<1>8. Asked' /\ CommandsOver' /\ OwnAnswers' /\ Progress'
  BY <1>1 DEF Asked, CommandsOver, OwnAnswers, Progress, NotAsked, NotFilled, Command
<1> QED
  BY <1>4, <1>5, <1>7, <1>8 DEF Inv

\* Only what is not yet answered can get a line.
LEMMA HandleKeeps ==
    ASSUME Inv, Types', Hosts', NEW result \in Results, HandleRequest(result)
    PROVE Inv'
<1> DEFINE request == Head(requests)
           has == PartsOf(request.of, result)
           line == [id |-> request.id, has |-> has]
<1>0. Types /\ Hosts /\ Order /\ Awaits /\ Contents /\ Asked /\ CommandsOver /\ OwnAnswers
      /\ Progress
  BY DEF Inv
<1>1. /\ conn # 0 /\ alive = conn /\ requests # << >> /\ requests' = Tail(requests)
      /\ answers' = answers \o <<line>> /\ given' = given \cup ({request.id} \X has)
      /\ UNCHANGED <<host, adapter, conn, nextId, timedOut, stage, launch>>
  BY DEF HandleRequest, ResponseLine
<1>2. requests \in Seq(Request) /\ answers \in Seq(Answer) /\ request \in Request
  BY <1>0, <1>1 DEF Types, Lines
<1>3. has \in SUBSET Part /\ line \in Answer /\ line.id = request.id /\ line.has = has
  BY <1>2 DEF PartsOf, Answer, Request
<1> HIDE DEF request, has, line
<1>4. /\ Waiting' = Waiting /\ (Waiting => AwaitedId' = AwaitedId)
      /\ Late' = Late /\ NextLine' = NextLine /\ Live /\ Live'
  BY <1>1 DEF Waiting, AwaitedId, Late, NextLine, Live, host, launch
<1>5. /\ line.id = NextLine + Len(answers)
      /\ InOrder(NextLine, answers \o <<line>>, Tail(requests), nextId, TRUE)
  <2>1. InOrder(NextLine, answers, requests, nextId, TRUE)
    BY <1>0, <1>4, Counts DEF Order
  <2> QED
    BY <1>0, <1>1, <1>2, <1>3, <2>1, Counts, InOrderHandle DEF request
<1>6. Order'
  BY <1>1, <1>4, <1>5 DEF Order, InOrder
<1>7. Awaits'
  BY <1>0, <1>1, <1>4 DEF Awaits
<1>8. NextHandled' = NextHandled + 1 /\ line.id = NextHandled /\ NextHandled \in Int
  <2>1. Len(answers') = Len(answers) + 1
    BY <1>1, <1>2, <1>3
  <2> QED
    BY <1>0, <1>4, <1>5, <2>1, Counts DEF NextHandled
<1>9. \A entry \in given : entry[1] \in Int
  BY <1>0 DEF Types, AdapterTypes, Id
<1>10. \A entry \in given : entry[1] < NextHandled
  BY <1>0 DEF Contents
<1>11. Contents'
  <2>1. \A entry \in given' : entry[1] < NextHandled'
    BY <1>1, <1>3, <1>8, <1>9, <1>10
  <2>2. ASSUME timedOut = {}, NEW n \in 1..Len(answers'), NEW part \in Part
        PROVE part \in answers'[n].has <=> <<answers'[n].id, part>> \in given'
    <3>1. CASE n \in 1..Len(answers)
      <4>1. answers'[n] = answers[n]
        BY <1>1, <1>2, <1>3, <3>1
      <4>2. answers[n].id # line.id
        BY <1>0, <1>5, <3>1, Counts DEF Order, InOrder
      <4>3. part \in answers[n].has <=> <<answers[n].id, part>> \in given
        BY <1>0, <2>2, <3>1 DEF Contents
      <4> QED
        BY <1>1, <1>3, <4>1, <4>2, <4>3
    <3>2. CASE n \notin 1..Len(answers)
      <4>1. answers'[n] = line
        BY <1>1, <1>2, <1>3, <3>2
      <4>2. <<line.id, part>> \notin given
        BY <1>8, <1>10
      <4> QED
        BY <1>1, <1>3, <4>1, <4>2
    <3> QED
      BY <3>1, <3>2
  <2> QED
    BY <1>1, <2>1, <2>2 DEF Contents
<1>12. Asked' /\ CommandsOver' /\ OwnAnswers'
  BY <1>0, <1>1, <1>4 DEF Asked, CommandsOver, Over, OwnAnswers, Lag, Late, launch
<1>13. ASSUME NEW c \in Command, asked[c] # 0, c # stage, Done(c) PROVE Done(c)'
  <2>1. ASSUME NEW f \in Field, CommandOf(f) = c, Missing(f) PROVE Missing(f)' \/ AfterLate(f)'
    <3>1. CASE asked[c] < NextLine
      <4>1. asked[c] # line.id
        BY <1>0, <1>5, <3>1, Counts DEF Types, AdapterTypes, Id
      <4> QED
        BY <1>1, <1>3, <2>1, <4>1 DEF Missing, launch
    <3>2. CASE asked[c] \in timedOut \/ \E id \in timedOut : id < asked[c]
      BY <1>1, <2>1, <3>2 DEF Missing, AfterLate, launch
    <3> QED
      BY <1>0, <1>13, <3>1, <3>2 DEF CommandsOver, Over
  <2> QED
    BY <1>1, <1>13, <2>1 DEF Done, Resolved, AfterLate, launch
<1>14. ASSUME NEW c \in Command, asked[c] = 0, Done(c) PROVE Done(c)'
  BY <1>1, <1>14 DEF Done, Resolved, Missing, AfterLate, launch
<1>15. Progress'
  BY <1>0, <1>1, <1>13, <1>14 DEF Progress, Command, launch
<1> QED
  BY <1>6, <1>7, <1>11, <1>12, <1>15 DEF Inv

\* What a read leaves, whether it ends with a line, by its time-out or because
\* the proxy is gone: the adapter waits no more, and the lines are in a row.
AfterRead ==
    /\ Late' \in Nat /\ Late <= Late' /\ timedOut \subseteq timedOut'
    /\ timedOut' \subseteq timedOut \cup {AwaitedId}
    /\ InOrder(nextId - Late', answers', requests, nextId, Live)
    /\ NextLine <= nextId - Late' /\ NextHandled <= nextId - Late' + Len(answers')
    /\ timedOut' = {} =>
         \A n \in 1..Len(answers'), part \in Part :
            part \in answers'[n].has <=> <<answers'[n].id, part>> \in given

LEMMA ReadEnds ==
    ASSUME Inv, Waiting, ReadLine \/ ReadFails(AwaitedId)
    PROVE AfterRead
<1>0. Types /\ Order /\ Awaits /\ Contents
  BY DEF Inv
<1>1. /\ Late \in Nat /\ nextId \in Int /\ NextLine = nextId - Late - 1
      /\ AwaitedId = nextId - 1 /\ AwaitedId \notin timedOut /\ IsFiniteSet(timedOut)
      /\ answers \in Seq(Answer) /\ requests \in Seq(Request) /\ Live \in BOOLEAN
      /\ NextHandled = NextLine + Len(answers)
  BY <1>0, Counts DEF NextLine, Awaits, Types, Lines
<1>2. CASE ReadLine
  <2>1. answers # << >> /\ answers' = Tail(answers) /\ timedOut' = timedOut /\ Late' = Late
    BY <1>2 DEF ReadLine, Late
  <2>2. InOrder(NextLine + 1, answers', requests, nextId, Live)
    BY <1>0, <1>1, <2>1, InOrderRead DEF Order
  <2>3. NextLine + 1 = nextId - Late'
    BY <1>1, <2>1
  <2>4. /\ Len(answers') \in Nat /\ Len(answers) = Len(answers') + 1
        /\ \A n \in 1..Len(answers') :
              n + 1 \in 1..Len(answers) /\ answers'[n] = answers[n + 1]
    BY <1>1, <2>1
  <2>5. timedOut' = {} =>
           \A n \in 1..Len(answers'), part \in Part :
              part \in answers'[n].has <=> <<answers'[n].id, part>> \in given
    BY <1>0, <2>1, <2>4 DEF Contents
  <2>6. NextHandled <= nextId - Late' + Len(answers') /\ NextLine <= nextId - Late'
    BY <1>1, <2>1, <2>4
  <2> QED
    BY <1>1, <2>1, <2>2, <2>3, <2>5, <2>6 DEF AfterRead
<1>3. CASE ReadFails(AwaitedId) /\ timedOut' = timedOut \cup {AwaitedId}
  <2>1. answers' = answers /\ answers = << >> /\ Late' = Late + 1
    BY <1>1, <1>3, FS_AddElement DEF ReadFails, Late
  <2>2. nextId - Late' = NextLine
    BY <1>1, <2>1
  <2> QED
    BY <1>0, <1>1, <1>3, <2>1, <2>2 DEF AfterRead, Order
<1>4. CASE ReadFails(AwaitedId) /\ alive # conn /\ timedOut' = timedOut
  <2>1. answers' = << >> /\ answers = << >> /\ Late' = Late /\ Live = FALSE
        /\ Len(answers) = 0 /\ Len(answers') = 0
    BY <1>4 DEF ReadFails, Late, Live
  <2>2. NextLine + 1 = nextId - Late' /\ NextLine + 1 <= nextId
    BY <1>1, <2>1
  <2>3. InOrder(nextId - Late', answers', requests, nextId, Live)
    <3>1. InOrder(NextLine + 1, << >>, requests, nextId, FALSE)
      <4>1. NextLine \in Int
        BY <1>0, Counts
      <4> QED
        BY <1>1, <2>2, <4>1, InOrderSkip
    <3> QED
      BY <2>1, <2>2, <3>1
  <2> QED
    BY <1>1, <1>4, <2>1, <2>2, <2>3 DEF AfterRead
<1> QED
  BY <1>2, <1>3, <1>4 DEF ReadFails

LEMMA StartedKeeps ==
    ASSUME Inv, Types', Hosts', Started
    PROVE Inv'
<1>0. Types /\ Hosts /\ Order /\ Awaits /\ Contents /\ Asked
  BY DEF Inv
<1>1. /\ adapter = "starting" /\ adapter' \in {"relaying", "failed"} /\ stage = "reading"
      /\ ReadLine \/ ReadFails(1)
      /\ UNCHANGED <<host, conn, requests, nextId, given, stage, launch>>
  BY <1>0 DEF Started, Adapter, Types, Budget
<1>2. Waiting /\ AwaitedId = 1 /\ ~Waiting' /\ Live' = Live
  BY <1>1 DEF Waiting, AwaitedId, Command, Live, host
<1>3. AfterRead
  BY <1>1, <1>2, ReadEnds
<1>4. NextLine' = nextId - Late' /\ NextHandled' = nextId - Late' + Len(answers')
  BY <1>0, <1>1, <1>2, <1>3 DEF NextLine, NextHandled, AfterRead, Types, AdapterTypes
<1>5. Order'
  BY <1>1, <1>2, <1>3, <1>4 DEF Order, AfterRead
<1>6. Awaits'
  BY <1>0, <1>1, <1>2, <1>3 DEF Awaits, AfterRead, Types, AdapterTypes
<1>7. Contents'
  <2>1. \A entry \in given : entry[1] < NextHandled'
    <3>1. \A entry \in given : entry[1] \in Int
      BY <1>0 DEF Types, AdapterTypes, Id
    <3>2. Len(answers') \in Nat
      BY DEF Types, Lines
    <3> QED
      BY <1>0, <1>3, <1>4, <3>1, <3>2, Counts DEF Contents, AfterRead
  <2> QED
    BY <1>1, <1>3, <2>1 DEF Contents, AfterRead
<1>8. Asked' /\ CommandsOver' /\ OwnAnswers' /\ Progress'
  BY <1>0, <1>1 DEF Asked, CommandsOver, OwnAnswers, Progress, NotAsked, NotFilled, Command,
     launch
<1> QED
  BY <1>5, <1>6, <1>7, <1>8 DEF Inv

LEMMA ConnectKeeps ==
    ASSUME Inv, Types', Hosts', Connect
    PROVE Inv'
<1>0. Types /\ Hosts /\ Asked
  BY DEF Inv
<1>1. /\ adapter = "connecting" /\ adapter' = "starting" /\ alive # 0 /\ conn' = alive
      /\ requests' = Append(requests, [id |-> nextId, of |-> "start"])
      /\ nextId' = nextId + 1
      /\ UNCHANGED <<host, answers, given, timedOut, stage, launch>>
  BY DEF Connect, Write, NextId, Adapter
<1>2. nextId = 1 /\ stage = "reading" /\ requests = << >> /\ answers = << >>
      /\ timedOut = {} /\ given = {}
  BY <1>0, <1>1 DEF Types, Budget, Hosts
<1>3. requests' = <<[id |-> 1, of |-> "start"]>> /\ answers' = << >> /\ nextId' = 2
  BY <1>1, <1>2
<1>4. Waiting' /\ AwaitedId' = 1 /\ Late' = 0 /\ NextLine' = 1
  BY <1>1, <1>2, <1>3, FS_EmptySet DEF Waiting, AwaitedId, Late, NextLine
<1>5. Order'
  BY <1>3, <1>4 DEF Order, InOrder
<1>6. Awaits' /\ Contents'
  BY <1>1, <1>2, <1>3, <1>4 DEF Awaits, Contents
<1>7. Asked' /\ CommandsOver' /\ OwnAnswers' /\ Progress'
  BY <1>0, <1>1, <1>2 DEF Asked, CommandsOver, OwnAnswers, Progress, NotAsked, NotFilled,
     Command, launch
<1> QED
  BY <1>5, <1>6, <1>7 DEF Inv

\* The first command of a launch.
LEMMA LaunchKeeps ==
    ASSUME Inv, Types', Hosts', NEW fields \in UserFields, NEW mainClass \in BOOLEAN,
           NEW withFile \in BOOLEAN, ReadLaunch(fields, mainClass, withFile)
    PROVE Inv'
<1>0. Types /\ Hosts /\ Order /\ Awaits /\ Contents /\ Asked
  BY DEF Inv
<1>1. /\ adapter = "relaying" /\ stage = "reading" /\ user' = fields
      /\ UNCHANGED <<host, adapter, conn, answers, given, timedOut, filled, document>>
  BY DEF ReadLaunch
<1>2. ~Waiting /\ asked = NotAsked /\ filled = NotFilled /\ document = 0
  BY <1>0, <1>1 DEF Waiting, Command, Asked
<1>3. nextId \in Nat \ {0} /\ Live' = Live /\ Late' = Late
  BY <1>0, <1>1 DEF Types, AdapterTypes, Live, host, Late
<1>4. CASE ~mainClass
  <2>1. stage' = "ready" /\ UNCHANGED <<asked, requests, nextId>>
    BY <1>4 DEF ReadLaunch
  <2>2. ~Waiting' /\ NextLine' = NextLine /\ NextHandled' = NextHandled
    BY <1>1, <1>2, <1>3, <2>1 DEF Waiting, Command, NextLine, NextHandled
  <2>3. Order' /\ Awaits' /\ Contents'
    BY <1>0, <1>1, <1>3, <2>1, <2>2 DEF Order, InOrder, Awaits, Contents
  <2>4. Asked' /\ CommandsOver' /\ OwnAnswers' /\ Progress'
    BY <1>1, <1>2, <2>1 DEF Asked, CommandsOver, OwnAnswers, Progress, NotAsked, NotFilled,
       Command
  <2> QED
    BY <2>3, <2>4 DEF Inv
<1>5. CASE mainClass
  <2>1. PICK s \in {"classpath", "class"} :
           /\ stage' = s /\ asked' = [asked EXCEPT ![s] = nextId]
           /\ requests' = Append(requests, [id |-> nextId, of |-> s])
           /\ nextId' = nextId + 1
    BY <1>5 DEF ReadLaunch, Write, NextId
  <2>2. \A c \in Command : asked'[c] = IF c = s THEN nextId ELSE 0
    BY <1>2, <2>1 DEF NotAsked
  <2>3. Waiting' /\ AwaitedId' = nextId /\ NextLine' = NextLine /\ NextHandled' = NextHandled
    BY <1>0, <1>1, <1>2, <1>3, <2>1, <2>2, Counts
       DEF Waiting, AwaitedId, Command, NextLine, NextHandled
  <2>4. Order'
    <3>1. [id |-> nextId, of |-> s] \in Request
      <4>1. Len(requests') = Len(requests) + 1 /\ requests'[Len(requests) + 1] \in Request
        BY <1>0, <2>1 DEF Types, Lines
      <4> QED
        BY <1>0, <2>1, <4>1 DEF Types, Lines
    <3> QED
      BY <1>0, <1>1, <1>3, <2>1, <2>3, <3>1, Counts, InOrderAsk DEF Order, Types, Lines
  <2>5. Awaits'
    <3>1. \A id \in timedOut : id \in Int /\ id < nextId
      BY <1>0 DEF Awaits, Types, AdapterTypes, Id
    <3>2. timedOut' = timedOut /\ AwaitedId' = nextId' - 1 /\ nextId' = nextId + 1
      BY <1>1, <1>3, <2>1, <2>3
    <3> QED
      BY <1>3, <2>3, <3>1, <3>2 DEF Awaits
  <2>6. Contents'
    BY <1>0, <1>1, <2>3 DEF Contents
  <2>7. Asked' /\ CommandsOver' /\ OwnAnswers' /\ Progress'
    BY <1>1, <1>2, <2>1, <2>2 DEF Asked, CommandsOver, OwnAnswers, Progress, NotFilled,
       Command
  <2> QED
    BY <2>4, <2>5, <2>6, <2>7 DEF Inv
<1> QED
  BY <1>4, <1>5

\* A command ends, and the next one is asked, if there is one.
LEMMA CommandEnds ==
    ASSUME Inv, Types', stage \in Command, ReadLine \/ ReadFails(asked[stage]),
           NEW s \in {"classpath", "cwd", "java", "ready"}, Enter(s), s # stage,
           s \in Command => asked[s] = 0,
           UNCHANGED <<host, adapter, conn, given>>
    PROVE /\ Order' /\ Awaits' /\ Contents' /\ CommandsOver' /\ stage' = s
          /\ Late \in Nat /\ Late' \in Nat /\ Late <= Late' /\ timedOut \subseteq timedOut'
          /\ asked[stage] # 0 /\ asked[stage] = NextLine + Late
          /\ \A c \in Command : asked'[c] = IF c = s THEN nextId ELSE asked[c]
          /\ nextId # 0
<1>0. Types /\ Hosts /\ Order /\ Awaits /\ Contents /\ CommandsOver
  BY DEF Inv
<1>1. Waiting /\ AwaitedId = asked[stage] /\ adapter = "relaying"
  BY <1>0 DEF Hosts, Waiting, AwaitedId
<1>2. AfterRead
  BY <1>1, ReadEnds
<1>3. /\ nextId \in Nat \ {0} /\ Late \in Nat /\ Late' \in Nat /\ Late <= Late'
      /\ timedOut \subseteq timedOut' /\ NextLine = nextId - Late - 1
      /\ asked[stage] = nextId - 1 /\ asked[stage] # 0 /\ Live \in BOOLEAN
  <2>1. nextId \in Nat \ {0} /\ Late \in Nat /\ Live \in BOOLEAN
    BY <1>0, Counts DEF Types, AdapterTypes
  <2>2. Late' \in Nat /\ Late <= Late' /\ timedOut \subseteq timedOut'
    BY <1>2 DEF AfterRead
  <2>3. asked[stage] = nextId - 1 /\ asked[stage] # 0
    BY <1>0, <1>1 DEF Awaits
  <2> QED
    BY <1>1, <2>1, <2>2, <2>3 DEF NextLine
<1>4. /\ stage' = s
      /\ \A c \in Command : asked'[c] = IF c = s THEN nextId ELSE asked[c]
  BY <1>0 DEF Enter, Types, AdapterTypes, Command
<1>5. Live' = Live /\ NextLine' = nextId - Late'
      /\ (Waiting' => AwaitedId' = nextId /\ nextId' = nextId + 1)
      /\ nextId' \in {nextId, nextId + 1}
  <2>1. CASE s = "ready"
    BY <1>1, <1>3, <1>4, <2>1 DEF Enter, Command, Waiting, Live, host, NextLine
  <2>2. CASE s # "ready"
    <3>1. nextId' = nextId + 1 /\ s \in Command
      BY <2>2 DEF Enter, Command, Write, NextId
    <3>2. Waiting' /\ AwaitedId' = nextId
      BY <1>1, <1>4, <3>1 DEF Waiting, AwaitedId
    <3> QED
      BY <1>3, <3>1, <3>2 DEF Live, host, NextLine
  <2> QED
    BY <2>1, <2>2
<1>6. Order'
  <2>1. InOrder(nextId - Late', answers', requests, nextId, Live)
    BY <1>2 DEF AfterRead
  <2>2. CASE s = "ready"
    BY <1>5, <2>1, <2>2 DEF Order, Enter, Command
  <2>3. CASE s # "ready"
    <3>1. /\ requests' = Append(requests, [id |-> nextId, of |-> s])
          /\ nextId' = nextId + 1
      BY <2>3 DEF Enter, Command, Write, NextId
    <3>2. [id |-> nextId, of |-> s] \in Request
      <4>1. Len(requests') = Len(requests) + 1 /\ requests'[Len(requests) + 1] \in Request
        BY <1>0, <3>1 DEF Types, Lines
      <4> QED
        BY <1>0, <3>1, <4>1 DEF Types, Lines
    <3>3. answers' \in Seq(Answer) /\ requests \in Seq(Request) /\ nextId - Late' \in Int
      BY <1>0, <1>3 DEF Types, Lines
    <3> QED
      BY <1>3, <1>5, <2>1, <3>1, <3>2, <3>3, InOrderAsk DEF Order
  <2> QED
    BY <2>2, <2>3
<1>7. \A id \in timedOut' : id \in Int /\ (id = nextId - 1 \/ id < nextId - 1)
  <2>1. \A id \in timedOut : id \in Int /\ id < nextId
    BY <1>0 DEF Awaits, Types, AdapterTypes, Id
  <2> QED
    BY <1>1, <1>2, <1>3, <2>1 DEF AfterRead
<1>8. Awaits'
  BY <1>3, <1>5, <1>7 DEF Awaits
<1>9. Contents'
  <2>1. \A entry \in given : entry[1] \in Int
    BY <1>0 DEF Types, AdapterTypes, Id
  <2>2. Len(answers') \in Nat
    BY DEF Types, Lines
  <2>3. NextHandled' = nextId - Late' + Len(answers')
    BY <1>5 DEF NextHandled
  <2>4. \A entry \in given : entry[1] < NextHandled'
    BY <1>0, <1>2, <1>3, <2>1, <2>2, <2>3, Counts DEF Contents, AfterRead
  <2> QED
    BY <1>2, <2>4 DEF Contents, AfterRead
<1>10. CommandsOver'
  <2> SUFFICES ASSUME NEW c \in Command, c # s, asked[c] # 0
               PROVE \/ asked[c] < NextLine' \/ asked[c] \in timedOut'
                     \/ \E id \in timedOut' : id < asked[c]
    BY <1>4 DEF CommandsOver, Over
  <2>1. asked[c] \in Int
    BY <1>0 DEF Types, AdapterTypes, Id
  <2>2. CASE c = stage
    <3>1. timedOut' = {} => Late' = 0
      BY FS_EmptySet DEF Late
    <3> QED
      BY <1>3, <1>5, <1>7, <2>2, <3>1
  <2>3. CASE c # stage
    <3>1. NextLine <= NextLine'
      BY <1>3, <1>5, <1>2 DEF AfterRead
    <3> QED
      <4>1. Over(c)
        BY <1>0, <2>3 DEF CommandsOver
      <4>2. NextLine \in Int /\ NextLine' \in Int
        BY <1>3, <1>5
      <4> QED
        BY <1>3, <2>1, <3>1, <4>1, <4>2 DEF Over
  <2> QED
    BY <2>2, <2>3
<1> QED
  BY <1>3, <1>4, <1>6, <1>8, <1>9, <1>10

\* A command that is over has done for its fields what it can.
LEMMA CommandDone ==
    ASSUME Inv, Types', NEW c \in {"classpath", "cwd", "java"}, stage = c, EndCommand,
           asked'[c] = asked[c]
    PROVE Done(c)'
<1>0. Types /\ Hosts /\ Order /\ Awaits /\ Contents
  BY DEF Inv
<1>1. UNCHANGED <<host, adapter, conn, given, user>> /\ stage \in Command
  BY DEF EndCommand, Command
<1>2. Waiting /\ AwaitedId = asked[stage]
  BY <1>0, <1>1 DEF Hosts, Waiting, AwaitedId
<1>3. AfterRead
  BY <1>2, ReadEnds DEF EndCommand
<1>4. /\ nextId \in Nat /\ Late \in Nat /\ Late' \in Nat /\ Late <= Late'
      /\ NextLine = nextId - Late - 1 /\ Len(answers) \in Nat
      /\ asked[stage] = nextId - 1 /\ asked[stage] # 0
      /\ NextHandled = NextLine + Len(answers)
  BY <1>0, <1>2, <1>3, Counts DEF AfterRead, Types, AdapterTypes, NextLine, Awaits
<1> SUFFICES ASSUME NEW f \in Field, CommandOf(f) = c
             PROVE Resolved(f)' \/ AfterLate(f)'
  BY <1>1 DEF Done
<1>5. CASE timedOut' # {}
  <2>1. PICK id \in timedOut' : TRUE
    BY <1>5
  <2>2. id = asked[stage] \/ (id \in Int /\ id < asked[stage])
    <3>1. \A t \in timedOut : t \in Int /\ t < nextId /\ t # nextId - 1
      BY <1>0, <1>2, <1>4 DEF Awaits, Types, AdapterTypes, Id
    <3> QED
      BY <1>2, <1>3, <1>4, <2>1, <3>1 DEF AfterRead
  <2> QED
    BY <1>4, <2>1, <2>2 DEF Resolved, Missing, AfterLate
<1>6. CASE timedOut' = {}
  <2>1. timedOut = {} /\ Late = 0 /\ NextLine = asked[stage]
    BY <1>0, <1>3, <1>4, <1>6, Counts DEF AfterRead
  <2>2. CASE ReadLine /\ filled' = Fill(stage, Head(answers))
    <3>1. answers # << >> /\ Head(answers) = answers[1] /\ 1 \in 1..Len(answers)
      BY <1>0, <2>2 DEF ReadLine, Types, Lines
    <3>2. Head(answers).id = asked[stage]
      BY <1>0, <1>4, <2>1, <3>1 DEF Order, InOrder
    <3>3. f \in Part
      BY DEF Part
    <3>4. f \in Head(answers).has <=> <<asked[stage], f>> \in given
      BY <1>0, <2>1, <3>1, <3>2, <3>3 DEF Contents
    <3>5. filled'[f] = IF f \in Head(answers).has /\ Unset(f, filled)
                         THEN asked[stage] ELSE filled[f]
      BY <2>2, <3>2 DEF Fill
    <3> QED
      BY <1>1, <1>4, <3>4, <3>5 DEF Resolved, Missing, Unset
  <2>3. CASE ReadFails(asked[stage])
    <3>1. Len(answers) = 0
      BY <2>3 DEF ReadFails
    <3>2. NextHandled = asked[stage]
      BY <1>4, <2>1, <3>1
    <3>3. <<asked[stage], f>> \notin given
      BY <1>0, <1>4, <3>2 DEF Contents
    <3> QED
      BY <1>1, <1>4, <3>3 DEF Resolved, Missing
  <2> QED
    BY <2>2, <2>3 DEF EndCommand
<1> QED
  BY <1>5, <1>6

\* The line that is read answers a command as old as reads have timed out.
LEMMA ReadLag ==
    ASSUME Inv, stage \in Command, ReadLine
    PROVE Head(answers).id = NextLine
<1>1. answers # << >> /\ answers \in Seq(Answer)
  BY DEF ReadLine, Inv, Types, Lines
<1>2. Head(answers) = answers[1] /\ 1 \in 1..Len(answers)
  BY <1>1
<1>3. answers[1].id = NextLine + 1 - 1 /\ NextLine \in Int
  BY <1>2, Counts DEF Inv, Order, InOrder
<1> QED
  BY <1>2, <1>3

LEMMA EndClassKeeps ==
    ASSUME Inv, Types', Hosts', EndClass
    PROVE Inv'
<1>0. Types /\ Asked /\ OwnAnswers
  BY DEF Inv
<1>1. /\ stage = "class" /\ stage \in Command
      /\ ReadLine \/ ReadFails(asked[stage])
      /\ UNCHANGED <<host, adapter, conn, given, user, filled>>
  BY DEF EndClass, Command
<1>2. PICK s \in {"classpath", "ready"} :
         Enter(s) /\ (document' = document \/ (ReadLine /\ document' = Head(answers).id))
  <2>1. CASE ReadLine /\ document' = Head(answers).id /\ Enter("classpath")
    BY <2>1
  <2>2. CASE Enter("ready") /\ document' = document
    BY <2>2
  <2> QED
    BY <2>1, <2>2 DEF EndClass
<1>3. /\ s \in {"classpath", "cwd", "java", "ready"} /\ s # stage /\ s # "class"
      /\ Enter(s) /\ (s \in Command => asked[s] = 0)
  BY <1>0, <1>1, <1>2 DEF Asked, Command
<1>4. /\ Order' /\ Awaits' /\ Contents' /\ CommandsOver' /\ stage' = s
      /\ Late \in Nat /\ Late' \in Nat /\ Late <= Late'
      /\ asked[stage] = NextLine + Late
      /\ \A c \in Command : asked'[c] = IF c = s THEN nextId ELSE asked[c]
  BY <1>1, <1>3, CommandEnds
<1>5. \A f \in Field : filled[f] = 0
  BY <1>0, <1>1 DEF Asked, CommandOf, Field
<1>6. OwnAnswers'
  <2>1. asked'["class"] = asked["class"] /\ asked["class"] \in Int /\ document \in Int
        /\ NextLine \in Int
    BY <1>0, <1>2, <1>4, Counts DEF Command, Types, AdapterTypes, Id
  <2>2. document' # 0 => asked'["class"] - document' <= Late'
    <3>1. CASE document' = document
      BY <1>0, <1>4, <2>1, <3>1 DEF OwnAnswers, Lag, Late
    <3>2. CASE document' = NextLine
      BY <1>1, <1>4, <2>1, <3>2
    <3> QED
      BY <1>1, <1>2, <3>1, <3>2, ReadLag
  <2> QED
    BY <1>1, <1>5, <2>2 DEF OwnAnswers, Lag, Late
<1>7. Asked'
  BY <1>0, <1>1, <1>2, <1>4, <1>5 DEF Asked, Command
<1>8. Progress'
  BY <1>0, <1>1, <1>2, <1>4 DEF Progress, Asked, Command
<1> QED
  BY <1>4, <1>6, <1>7, <1>8 DEF Inv

LEMMA EndCommandKeeps ==
    ASSUME Inv, Types', Hosts', EndCommand
    PROVE Inv'
<1> DEFINE s == After(stage, filled')
<1>0. Types /\ Asked /\ OwnAnswers /\ Progress
  BY DEF Inv
<1>1. /\ stage \in {"classpath", "cwd", "java"} /\ stage \in Command
      /\ ReadLine \/ ReadFails(asked[stage])
      /\ UNCHANGED <<host, adapter, conn, given, user, document>>
  BY DEF EndCommand, Command
<1>2. /\ s \in {"cwd", "java", "ready"} /\ Enter(s) /\ s # stage
      /\ stage = "cwd" => s \in {"java", "ready"}
      /\ stage = "java" => s = "ready"
  BY <1>1 DEF EndCommand, After
<1>3. /\ stage = "classpath" /\ s # "cwd" => ~Unset("cwd", filled')
      /\ stage \in {"classpath", "cwd"} /\ s = "ready" => ~Unset("javaExec", filled')
  BY DEF After
<1> HIDE DEF s
<1>4. s \in Command => asked[s] = 0
  BY <1>0, <1>1, <1>2 DEF Asked, Command
<1>5. /\ Order' /\ Awaits' /\ Contents' /\ CommandsOver' /\ stage' = s
      /\ Late \in Nat /\ Late' \in Nat /\ Late <= Late' /\ timedOut \subseteq timedOut'
      /\ asked[stage] # 0 /\ asked[stage] = NextLine + Late /\ nextId # 0
      /\ \A c \in Command : asked'[c] = IF c = s THEN nextId ELSE asked[c]
  BY <1>0, <1>1, <1>2, <1>4, CommandEnds
<1>6. \A f \in Field :
         \/ filled'[f] = filled[f]
         \/ /\ CommandOf(f) = stage /\ f \notin user /\ filled[f] = 0
            /\ filled'[f] = NextLine
  <2>1. CASE ReadLine /\ filled' = Fill(stage, Head(answers))
    BY <1>1, <2>1, ReadLag DEF Fill, Unset
  <2>2. CASE filled' = filled
    BY <2>2
  <2> QED
    BY <2>1, <2>2 DEF EndCommand
<1>7. \A f \in Field : CommandOf(f) \in Command /\ (filled'[f] # 0 => CommandOf(f) # s)
  <2>1. \A f \in Field : CommandOf(f) \in Command
    BY DEF CommandOf, Command, Field
  <2> QED
    BY <1>0, <1>1, <1>2, <1>4, <1>6, <2>1 DEF Asked
<1>8. OwnAnswers'
  <2>1. ASSUME NEW f \in Field, filled'[f] # 0
        PROVE f \notin user' /\ asked'[CommandOf(f)] - filled'[f] <= Late'
    <3>1. asked'[CommandOf(f)] = asked[CommandOf(f)] /\ asked[CommandOf(f)] \in Int
          /\ filled[f] \in Int /\ NextLine \in Int
      BY <1>0, <1>5, <1>7, <2>1, Counts DEF Types, AdapterTypes, Id
    <3>2. CASE filled'[f] = filled[f]
      BY <1>0, <1>1, <1>5, <2>1, <3>1, <3>2 DEF OwnAnswers, Lag, Late
    <3>3. CASE CommandOf(f) = stage /\ f \notin user /\ filled'[f] = NextLine
      BY <1>1, <1>5, <3>1, <3>3
    <3> QED
      BY <1>6, <3>2, <3>3
  <2>2. document' # 0 => asked'["class"] - document' <= Late'
    <3>1. asked'["class"] = asked["class"] /\ asked["class"] \in Int /\ document \in Int
      BY <1>0, <1>2, <1>5 DEF Command, Types, AdapterTypes, Id
    <3> QED
      BY <1>0, <1>1, <1>5, <3>1 DEF OwnAnswers, Lag, Late
  <2> QED
    BY <2>1, <2>2 DEF OwnAnswers, Lag, Late
<1>9. Asked'
  <2>1. \A f \in Field : filled'[f] # 0 => asked'[CommandOf(f)] # 0
    BY <1>0, <1>1, <1>5, <1>6, <1>7 DEF Asked
  <2> QED
    BY <1>0, <1>1, <1>2, <1>5, <2>1 DEF Asked, Command
<1>10. ASSUME NEW c \in Command, c # s, c # stage, Done(c) PROVE Done(c)'
  <2>1. \A f \in Field : filled[f] # 0 => filled'[f] # 0
    BY <1>6
  <2> QED
    BY <1>1, <1>5, <1>10, <2>1 DEF Done, Resolved, Missing, AfterLate
<1>12. ASSUME NEW c \in {"classpath", "cwd", "java"}, stage = c PROVE Done(c)'
  BY <1>1, <1>2, <1>5, <1>12, CommandDone
<1>13. ~Unset("cwd", filled') => Done("cwd")'
  BY <1>1 DEF Unset, Done, Resolved, CommandOf, Field
<1>14. ~Unset("javaExec", filled') => Done("java")'
  BY <1>1 DEF Unset, Done, Resolved, CommandOf, Field
<1>15. Progress'
  <2> SUFFICES ASSUME asked'["classpath"] # 0
               PROVE /\ s \in {"cwd", "java", "ready"} => Done("classpath")'
                     /\ s \in {"java", "ready"} => Done("cwd")'
                     /\ s = "ready" => Done("java")'
    BY <1>5 DEF Progress
  <2>1. asked["classpath"] # 0
    BY <1>2, <1>5 DEF Command
  <2>2. Done("classpath")'
    BY <1>0, <1>1, <1>2, <1>10, <1>12, <2>1 DEF Progress, Command
  <2>3. s \in {"java", "ready"} => Done("cwd")'
    BY <1>0, <1>1, <1>2, <1>3, <1>10, <1>12, <1>13, <2>1 DEF Progress, Command
  <2>4. s = "ready" => Done("java")'
    BY <1>1, <1>3, <1>12, <1>14
  <2> QED
    BY <2>2, <2>3, <2>4
<1> QED
  BY <1>5, <1>8, <1>9, <1>15 DEF Inv

LEMMA InvNext == Inv /\ [Next]_vars => Inv'
<1> SUFFICES ASSUME Inv, [Next]_vars PROVE Inv'
  OBVIOUS
<1>0. Types' /\ Hosts'
  BY TypesNext, HostsKept DEF Inv
<1>1. CASE InstanceStarts \/ InstanceDies \/ BackendCloses \/ ClientCloses \/ UNCHANGED vars
  BY <1>0, <1>1, HostStepKeeps
<1>2. CASE Handle
  BY <1>0, <1>2, HandleKeeps DEF Handle
<1>3. CASE MainThread
  BY <1>0, <1>3, HostStepKeeps, ConnectKeeps, StartedKeeps DEF MainThread
<1>4. CASE WriterThread
  BY <1>0, <1>4, HostStepKeeps, ForwardKeeps, EndClassKeeps, EndCommandKeeps DEF WriterThread
<1>5. CASE \E fields \in UserFields, mainClass, file \in BOOLEAN :
              ReadLaunch(fields, mainClass, file)
  BY <1>0, <1>5, LaunchKeeps
<1> QED
  BY <1>1, <1>2, <1>3, <1>4, <1>5 DEF Next

LEMMA InvAlways == Spec => []Inv
  BY InvInit, InvNext, PTL DEF Spec

-----------------------------------------------------------------------------
(* What goes out.                                                           *)

\* However late the lines come, whichever results are empty and whichever proxies
\* die, what the adapter adds to a launch is at most as many commands old as its
\* reads have timed out: as long as none has, it is the answer to the command of
\* the launch. No field of the user is replaced.
THEOREM LaunchesGetTheirOwn == Spec => []OwnAnswers
<1>1. Inv => OwnAnswers
  BY DEF Inv
<1> QED
  BY <1>1, InvAlways, PTL

\* A field whose command was asked before the first time-out of a read, or was
\* the one that timed out, is missing from a launch that goes out only if the
\* proxy has written no result that has it, or the adapter gave up waiting for it.
THEOREM LaunchesAreResolved == Spec => []ResolvedUntilLate
<1>1. ASSUME Inv, Completed, NEW f \in Field
      PROVE Resolved(f) \/ AfterLate(f)
  <2>1. CommandOf(f) \in {"classpath", "cwd", "java"}
    BY DEF CommandOf, Field
  <2>2. Done("classpath") /\ Done("cwd") /\ Done("java")
    BY <1>1 DEF Inv, Progress, Completed
  <2> QED
    BY <2>1, <2>2 DEF Done
<1>2. Inv => ResolvedUntilLate
  BY <1>1 DEF ResolvedUntilLate
<1> QED
  BY <1>2, InvAlways, PTL

==============================================================================
