---------------------------- MODULE ProxyProofs ----------------------------
(***************************************************************************)
(* Theorems about Proxy, for every set of ids, URIs, sessions and workers: *)
(* types; every answer of the backend to the client is in exactly one      *)
(* place, and the proxy implements the abstract relay of Relay.tla;        *)
(* replies to its own calls find them, the client never sees them, and     *)
(* together with the prompts they implement Rpc.tla; reloads have options, *)
(* archive URIs are resolved, and the command of a menu is the one picked; *)
(* navigation answers are handed over as Workers.tla has it.               *)
(***************************************************************************)
EXTENDS Proxy, Lemmas

-----------------------------------------------------------------------------
(* The position handle_choose_action_reply finds.                           *)

\* The first entry with a title of the menu has an index, a natural number.
LEMMA IndexExists ==
    ASSUME NEW s \in Session, NEW t \in Titles(s)
    PROVE IndexOf(s, t) \in Nat
<1> DEFINE T == {i \in DOMAIN Menu[s] : Menu[s][i].name = t}
<1>1. Menu[s] \in Seq([name: Title, index: Nat])
  BY MenuAssumption
<1>2. T \in SUBSET Nat /\ T # {}
  BY <1>1 DEF Titles
<1>3. PICK n \in T : \A m \in T : n <= m
  BY <1>2, LeastExists
<1>4. n \in DOMAIN Menu[s] /\ Menu[s][n].name = t
  OBVIOUS
<1>5. \A j \in 1..(n - 1) : Menu[s][j].name # t
  BY <1>1, <1>3
<1> DEFINE First(i) == Menu[s][i].name = t /\ \A j \in 1..(i - 1) : Menu[s][j].name # t
           k == CHOOSE i \in DOMAIN Menu[s] : First(i)
<1>6. k \in DOMAIN Menu[s]
  BY <1>4, <1>5
<1>7. IndexOf(s, t) = Menu[s][k].index
  BY DEF IndexOf
<1>8. \A i \in DOMAIN Menu[s] : Menu[s][i].index \in Nat
  <2>1. \A i \in DOMAIN Menu[s] : Menu[s][i] \in [name: Title, index: Nat]
    BY <1>1, LenProperties, ElementOfSeq
  <2> QED
    BY <2>1
<1> HIDE DEF k
<1> QED
  BY <1>6, <1>7, <1>8

-----------------------------------------------------------------------------
(* Type correctness. Types rest on more than types: an answer that is on    *)
(* its way exists, and a worker that calls is at a link of its answer.      *)

StdoutExists ==
    \A i \in DOMAIN stdout :
        /\ stdout[i] \in ClientId => answers[stdout[i]] # None
        /\ stdout[i] \in ProxyId => replies[stdout[i]] # None

QueueExists == \A i \in DOMAIN workQueue : answers[workQueue[i]] # None

JobsExist ==
    \A w \in Worker : jobs[w] # None =>
        /\ answers[jobs[w].id] # None
        /\ Len(jobs[w].done) <= Len(Links(w))
        /\ jobs[w].call # 0 => Len(jobs[w].done) < Len(Links(w))

Existing == StdoutExists /\ QueueExists /\ JobsExist

TypeInv == TypeOK /\ Existing

\* What a step leaves alone keeps its type.
LEMMA UnchangedTypes ==
    /\ ClientType /\ UNCHANGED client => ClientType'
    /\ BackendType /\ UNCHANGED backend => BackendType'
    /\ InitType /\ UNCHANGED init => InitType'
    /\ RpcType /\ UNCHANGED rpc => RpcType'
    /\ WorkType /\ UNCHANGED work => WorkType'
    /\ OtherType /\ UNCHANGED <<files, navRequests, pendingClient, hand, spawned, manual>>
        => OtherType'
    /\ StdoutExists /\ UNCHANGED <<stdout, answers, replies>> => StdoutExists'
    /\ QueueExists /\ UNCHANGED <<workQueue, answers>> => QueueExists'
    /\ JobsExist /\ UNCHANGED <<jobs, answers>> => JobsExist'
  BY DEF client, backend, init, rpc, work, files, ClientType, BackendType, InitType,
     RpcType, WorkType, OtherType, StdoutExists, QueueExists, JobsExist, Links

LEMMA InitTypes == Init => TypeInv
<1> SUFFICES ASSUME Init PROVE TypeInv
  OBVIOUS
<1>1. ClientType
  BY DEF Init, ClientType, Outcome
<1>2. BackendType
  BY DEF Init, BackendType
<1>3. InitType
  BY DEF Init, InitType
<1>4. RpcType
  BY BoundAssumption DEF Init, RpcType
<1>5. WorkType /\ OtherType
  BY DEF Init, WorkType, OtherType
<1>6. Existing
  BY DEF Init, Existing, StdoutExists, QueueExists, JobsExist
<1> QED
  BY <1>1, <1>2, <1>3, <1>4, <1>5, <1>6 DEF TypeInv, TypeOK

\* What call_server, a spawned thread, an answer to the client and a resolved
\* link do to the types.
LEMMA RegisterTypes ==
    ASSUME RpcType, NEW m \in Method, NEW a \in Cause, Register(m, a)
    PROVE RpcType'
  BY BoundAssumption DEF RpcType, Register, Remember, ProxyId, Call, CallStatus

LEMMA SpawnTypes ==
    ASSUME OtherType, NEW m \in Method, NEW a \in Cause, Spawn(m, a)
    PROVE spawned' \subseteq Thread
  BY DEF OtherType, Spawn, Thread

LEMMA UntouchedTypes ==
    ASSUME BackendType, NEW c \in ClientId, answers[c] # None
    PROVE /\ answers[c] \in Answer
          /\ Untouched(c) \in Seq(Outcome)
          /\ DOMAIN Untouched(c) = DOMAIN answers[c].links
<1>1. answers[c] \in Answer
  BY DEF BackendType
<1>2. answers[c].links \in Seq(Uri)
  BY <1>1 DEF Answer
<1> QED
  BY <1>1, <1>2 DEF Untouched, Outcome

LEMMA ElementTypes ==
    ASSUME TypeInv
    PROVE /\ \A i \in DOMAIN stdin : stdin[i] \in ClientId \cup SaveId \cup ProxyId
          /\ \A i \in DOMAIN stdout : stdout[i] \in ClientId \cup ProxyId \cup Session
          /\ \A i \in DOMAIN workQueue : workQueue[i] \in NavId /\ workQueue[i] \in ClientId
          /\ \A w \in Worker : jobs[w] # None => jobs[w].id \in NavId /\ jobs[w].id \in ClientId
  BY LenProperties, ElementOfSeq
     DEF TypeInv, TypeOK, ClientType, BackendType, WorkType, Job, ClientId

LEMMA DeliverTypes ==
    ASSUME ClientType, NEW id \in ClientId \cup ProxyId, NEW o \in Seq(Outcome),
           Deliver(id, o)
    PROVE /\ received' \in [ClientId \cup ProxyId -> Seq(Seq(Outcome))]
          /\ received'[id] = Append(received[id], o)
          /\ \A x \in ClientId \cup ProxyId : x # id => received'[x] = received[x]
<1>1. received \in [ClientId \cup ProxyId -> Seq(Seq(Outcome))]
  BY DEF ClientType
<1>2. Append(received[id], o) \in Seq(Seq(Outcome))
  BY <1>1
<1> QED
  BY <1>1, <1>2 DEF Deliver

LEMMA LinkTypes ==
    ASSUME TypeInv, NEW w \in Worker, jobs[w] # None
    PROVE /\ jobs[w] \in Job /\ jobs[w].id \in NavId
          /\ jobs[w].done \in Seq(Outcome) /\ Len(jobs[w].done) \in Nat
          /\ jobs[w].call \in ProxyId \cup {0}
          /\ answers[jobs[w].id] \in Answer
          /\ Links(w) \in Seq(Uri) /\ Len(Links(w)) \in Nat
          /\ Len(jobs[w].done) <= Len(Links(w))
          /\ Len(jobs[w].done) < Len(Links(w)) => ThisUri(w) \in Uri
<1>1. jobs[w] \in Job
  BY DEF TypeInv, TypeOK, WorkType
<1>2. /\ jobs[w].id \in NavId /\ jobs[w].done \in Seq(Outcome)
      /\ jobs[w].call \in ProxyId \cup {0}
  BY <1>1 DEF Job
<1>3. answers[jobs[w].id] \in Answer
  BY <1>2 DEF TypeInv, TypeOK, BackendType, Existing, JobsExist, ClientId
<1>4. Links(w) \in Seq(Uri)
  BY <1>3 DEF Links, Answer
<1>5. Len(jobs[w].done) <= Len(Links(w))
  BY DEF TypeInv, Existing, JobsExist
<1>6. Len(jobs[w].done) \in Nat /\ Len(Links(w)) \in Nat
  BY <1>2, <1>4
<1>7. ASSUME Len(jobs[w].done) < Len(Links(w)) PROVE ThisUri(w) \in Uri
  BY <1>4, <1>6, <1>7, ElementOfSeq DEF ThisUri
<1> QED
  BY <1>1, <1>2, <1>3, <1>4, <1>5, <1>6, <1>7

LEMMA LinkDoneTypes ==
    ASSUME TypeInv, NEW w \in Worker, jobs[w] # None, NEW o \in Outcome,
           Len(jobs[w].done) < Len(Links(w)), LinkDone(w, o), UNCHANGED <<workQueue, dead, answers>>
    PROVE WorkType' /\ JobsExist'
<1> DEFINE j == [id |-> jobs[w].id, call |-> 0, done |-> Append(jobs[w].done, o)]
<1>1. jobs' = [jobs EXCEPT ![w] = j]
  BY DEF LinkDone
<1>2. j \in Job
  BY LinkTypes DEF Job
<1>3. jobs' \in [Worker -> Job \cup {None}]
  <2> HIDE DEF j
  <2> QED BY <1>1, <1>2 DEF TypeInv, TypeOK, WorkType
<1>4. WorkType'
  BY <1>3 DEF TypeInv, TypeOK, WorkType
<1>5. jobs'[w] = j /\ \A v \in Worker : v # w => jobs'[v] = jobs[v]
  BY <1>1 DEF TypeInv, TypeOK, WorkType
<1>6. j.id = jobs[w].id /\ j.call = 0 /\ Len(j.done) <= Len(answers[j.id].links)
  <2>1. Len(Append(jobs[w].done, o)) = Len(jobs[w].done) + 1
    BY LinkTypes
  <2>2. Len(Append(jobs[w].done, o)) <= Len(Links(w))
    BY <2>1, LinkTypes
  <2>3. j.id = jobs[w].id /\ j.call = 0 /\ j.done = Append(jobs[w].done, o)
    OBVIOUS
  <2> QED
    BY <2>2, <2>3 DEF Links
<1>7. JobsExist'
  <2> SUFFICES ASSUME NEW v \in Worker, jobs'[v] # None
               PROVE /\ answers[jobs'[v].id] # None
                     /\ Len(jobs'[v].done) <= Len(answers[jobs'[v].id].links)
                     /\ jobs'[v].call # 0
                          => Len(jobs'[v].done) < Len(answers[jobs'[v].id].links)
    BY DEF JobsExist, Links
  <2>1. CASE v = w
    <3> HIDE DEF j
    <3> QED BY <2>1, <1>5, <1>6 DEF TypeInv, Existing, JobsExist
  <2>2. CASE v # w
    BY <2>2, <1>5 DEF TypeInv, Existing, JobsExist, Links
  <2> QED
    BY <2>1, <2>2
<1> QED
  BY <1>4, <1>7

LEMMA ClientInitializeTypes ==
    ASSUME TypeInv, ClientInitialize
    PROVE TypeInv'
<1>1. ClientType'
  BY DEF TypeInv, TypeOK, Existing, ClientType, ClientSends, ClientId, ClientInitialize
<1> QED
  BY <1>1, UnchangedTypes
     DEF TypeInv, TypeOK, Existing, ClientInitialize, client, backend, init, rpc, work, files

LEMMA ClientRequestTypes ==
    ASSUME TypeInv, NEW id \in NavId \cup PlainId \cup SaveId, ClientRequest(id)
    PROVE TypeInv'
<1>1. ClientType'
  BY DEF TypeInv, TypeOK, Existing, ClientType, ClientSends, ClientId, ClientRequest
<1> QED
  BY <1>1, UnchangedTypes
     DEF TypeInv, TypeOK, Existing, ClientRequest, client, backend, init, rpc, work, files

LEMMA ClientPicksTypes ==
    ASSUME TypeInv, NEW p \in ProxyId, NEW t \in Title \cup {"dismissed"}, ClientPicks(p, t)
    PROVE TypeInv'
<1>1. ClientType'
  BY DEF TypeInv, TypeOK, Existing, ClientType, ClientPicks
<1> QED
  BY <1>1, UnchangedTypes
     DEF TypeInv, TypeOK, Existing, ClientPicks, client, backend, init, rpc, work, files

LEMMA AnswerClientTypes ==
    ASSUME TypeInv, NEW c \in ClientId, NEW a \in AnswersTo[c], AnswerClient(c, a)
    PROVE TypeInv'
<1>1. a \in Answer /\ a # None
  BY AnswersAssumption, NoneAssumption DEF TypeInv, TypeOK, Existing, Answer, AnswerClient
<1>2. BackendType'
  BY <1>1 DEF TypeInv, TypeOK, Existing, BackendType, AnswerClient
<1>3. \A x \in ClientId : answers'[x] = IF x = c THEN a ELSE answers[x]
  BY DEF TypeInv, TypeOK, Existing, BackendType, AnswerClient
<1>4. StdoutExists'
  <2> SUFFICES ASSUME NEW i \in DOMAIN stdout'
               PROVE /\ stdout'[i] \in ClientId => answers'[stdout'[i]] # None
                     /\ stdout'[i] \in ProxyId => replies'[stdout'[i]] # None
    BY DEF StdoutExists
  <2>1. stdout' = Append(stdout, c) /\ replies' = replies
    BY DEF AnswerClient
  <2>2. \/ i \in DOMAIN stdout /\ stdout'[i] = stdout[i]
        \/ stdout'[i] = c
    BY <2>1, AppendElements DEF TypeInv, TypeOK, BackendType
  <2> QED
    BY <1>1, <1>3, <2>1, <2>2, IdsDisjoint DEF TypeInv, Existing, StdoutExists, ClientId
<1>5. QueueExists'
  BY <1>1, <1>3, ElementTypes DEF TypeInv, TypeOK, Existing, QueueExists, work, AnswerClient
<1>6. JobsExist'
  BY <1>3, ElementTypes DEF TypeInv, TypeOK, Existing, JobsExist, Links, work, AnswerClient
<1> QED
  BY <1>1, <1>2, <1>3, <1>4, <1>5, <1>6, UnchangedTypes
     DEF TypeInv, TypeOK, Existing, AnswerClient, client, backend, init, rpc, work, files

LEMMA AnswerCallTypes ==
    ASSUME TypeInv, NEW p \in ProxyId, NEW r \in {"ok", "empty", "error"}, AnswerCall(p, r)
    PROVE TypeInv'
<1>1. BackendType'
  BY DEF TypeInv, TypeOK, Existing, BackendType, AnswerCall
<1>2. \A x \in ProxyId : replies'[x] = IF x = p THEN r ELSE replies[x]
  BY DEF TypeInv, TypeOK, Existing, BackendType, AnswerCall
<1>3. StdoutExists'
  <2> SUFFICES ASSUME NEW i \in DOMAIN stdout'
               PROVE /\ stdout'[i] \in ClientId => answers'[stdout'[i]] # None
                     /\ stdout'[i] \in ProxyId => replies'[stdout'[i]] # None
    BY DEF StdoutExists
  <2>1. stdout' = Append(stdout, p) /\ answers' = answers
    BY DEF AnswerCall
  <2>2. \/ i \in DOMAIN stdout /\ stdout'[i] = stdout[i]
        \/ stdout'[i] = p
    BY <2>1, AppendElements DEF TypeInv, TypeOK, BackendType
  <2>3. r # None
    BY NoneAssumption
  <2> QED
    BY <1>2, <2>1, <2>2, <2>3, IdsDisjoint DEF TypeInv, Existing, StdoutExists, ClientId
<1> QED
  BY <1>1, <1>2, <1>3, UnchangedTypes
     DEF TypeInv, TypeOK, Existing, AnswerCall, client, backend, init, rpc, work, files

LEMMA ServerChooseTypes ==
    ASSUME TypeInv, NEW s \in Session, ServerChoose(s)
    PROVE TypeInv'
<1>1. BackendType'
  BY DEF TypeInv, TypeOK, Existing, BackendType, ServerChoose
<1>2. StdoutExists'
  BY AppendElements, IdsDisjoint DEF TypeInv, TypeOK, Existing, StdoutExists, BackendType, ClientId, ServerChoose
<1> QED
  BY <1>1, <1>2, UnchangedTypes
     DEF TypeInv, TypeOK, Existing, ServerChoose, client, backend, init, rpc, work, files

LEMMA StartCallTypes ==
    ASSUME TypeInv, NEW t \in spawned, StartCall(t)
    PROVE TypeInv'
<1>1. t.method \in Method /\ t.arg \in Cause
  BY DEF TypeInv, TypeOK, Existing, OtherType, Thread, StartCall
<1>2. RpcType'
  BY <1>1, RegisterTypes DEF TypeInv, TypeOK, Existing, StartCall
<1>3. OtherType'
  BY DEF TypeInv, TypeOK, Existing, OtherType, files, StartCall
<1> QED
  BY <1>1, <1>2, <1>3, UnchangedTypes
     DEF TypeInv, TypeOK, Existing, StartCall, client, backend, init, rpc, work, files

LEMMA SendCallTypes ==
    ASSUME TypeInv, NEW p \in ProxyId, SendCall(p)
    PROVE TypeInv'
<1>1. BackendType'
  BY DEF TypeInv, TypeOK, Existing, BackendType, SendCall
<1>2. RpcType'
  BY DEF TypeInv, TypeOK, Existing, RpcType, CallIs, Call, CallStatus, SendCall
<1> QED
  BY <1>1, <1>2, UnchangedTypes
     DEF TypeInv, TypeOK, Existing, SendCall, client, backend, init, rpc, work, files

LEMMA TimeoutCallTypes ==
    ASSUME TypeInv, NEW p \in ProxyId, TimeoutCall(p)
    PROVE TypeInv'
<1>1. RpcType'
  BY DEF TypeInv, TypeOK, Existing, RpcType, CallIs, Call, CallStatus, TimeoutCall
<1> QED
  BY <1>1, UnchangedTypes
     DEF TypeInv, TypeOK, Existing, TimeoutCall, client, backend, init, rpc, work, files

LEMMA TakeRequestTypes ==
    ASSUME TypeInv, TakeRequest
    PROVE TypeInv'
<1>1. ClientType'
  BY DEF TypeInv, TypeOK, Existing, ClientType, TakeRequest
<1>2. InitType'
  BY DEF TypeInv, TypeOK, Existing, InitType, TakeRequest
<1>3. OtherType'
  BY DEF TypeInv, TypeOK, Existing, OtherType, files, Tracked, TakeRequest
<1> QED
  BY <1>1, <1>2, <1>3, UnchangedTypes
     DEF TypeInv, TypeOK, Existing, TakeRequest, client, backend, init, rpc, work, files

LEMMA ForwardRequestTypes ==
    ASSUME TypeInv, ForwardRequest
    PROVE TypeInv'
<1>1. BackendType'
  BY DEF TypeInv, TypeOK, Existing, BackendType, OtherType, ForwardRequest
<1>2. OtherType'
  BY DEF TypeInv, TypeOK, Existing, OtherType, files, ForwardRequest
<1> QED
  BY <1>1, <1>2, UnchangedTypes
     DEF TypeInv, TypeOK, Existing, ForwardRequest, client, backend, init, rpc, work, files

LEMMA TakeSaveTypes ==
    ASSUME TypeInv, TakeSave
    PROVE TypeInv'
<1>1. ClientType'
  BY DEF TypeInv, TypeOK, Existing, ClientType, TakeSave
<1>2. BackendType'
  BY DEF TypeInv, TypeOK, Existing, BackendType, TakeSave
<1>3. spawned' \subseteq Thread
  BY SpawnTypes DEF TypeInv, TypeOK, Existing, ReloadAfter, Method, Cause, OtherType, TakeSave
<1>4. OtherType'
  BY <1>3 DEF TypeInv, TypeOK, Existing, OtherType, files, TakeSave
<1> QED
  BY <1>1, <1>2, <1>3, <1>4, UnchangedTypes
     DEF TypeInv, TypeOK, Existing, TakeSave, client, backend, init, rpc, work, files

LEMMA TakeReplyTypes ==
    ASSUME TypeInv, TakeReply
    PROVE TypeInv'
<1>1. ClientType'
  BY DEF TypeInv, TypeOK, Existing, ClientType, TakeReply
<1>2. spawned' \subseteq Thread
  <2>1. Head(stdin) \in ProxyId
    BY DEF TakeReply
  <2>2. CASE spawned' = spawned
    BY <2>2 DEF TypeInv, TypeOK, OtherType
  <2>3. ASSUME NEW e \in pendingClient, picked[Head(stdin)] \in Titles(e.session),
               Spawn("chooseMod", <<e.session, IndexOf(e.session, picked[Head(stdin)])>>)
        PROVE spawned' \subseteq Thread
    <3>1. e.session \in Session
      BY DEF TypeInv, TypeOK, OtherType
    <3>2. <<e.session, IndexOf(e.session, picked[Head(stdin)])>> \in Cause
      BY <2>3, <3>1, IndexExists DEF Cause
    <3> QED
      BY <2>3, <3>2, SpawnTypes DEF TypeInv, TypeOK, Method
  <2> QED
    BY <2>2, <2>3 DEF TakeReply
<1>3. OtherType'
  BY <1>2 DEF TypeInv, TypeOK, Existing, OtherType, files, TakeReply
<1> QED
  BY <1>1, <1>2, <1>3, UnchangedTypes
     DEF TypeInv, TypeOK, Existing, TakeReply, client, backend, init, rpc, work, files

LEMMA PumpFastPathTypes ==
    ASSUME TypeInv, PumpFastPath
    PROVE TypeInv'
<1>1. answers[Head(stdout)] # None
  BY TailElements DEF TypeInv, TypeOK, Existing, StdoutExists, BackendType, PumpFastPath
<1>2. Untouched(Head(stdout)) \in Seq(Outcome)
  BY <1>1, UntouchedTypes DEF TypeInv, TypeOK, Existing, PumpFastPath
<1>3. ClientType'
  BY <1>2, DeliverTypes DEF TypeInv, TypeOK, Existing, ClientType, PumpFastPath
<1>4. BackendType'
  BY DEF TypeInv, TypeOK, Existing, BackendType, PumpFastPath
<1>5. StdoutExists'
  BY TailElements DEF TypeInv, TypeOK, Existing, StdoutExists, BackendType, PumpFastPath
<1> QED
  BY <1>1, <1>2, <1>3, <1>4, <1>5, UnchangedTypes
     DEF TypeInv, TypeOK, Existing, PumpFastPath, client, backend, init, rpc, work, files

LEMMA PumpCallReplyTypes ==
    ASSUME TypeInv, PumpCallReply
    PROVE TypeInv'
<1>1. BackendType'
  BY DEF TypeInv, TypeOK, Existing, BackendType, PumpCallReply
<1>2. replies[Head(stdout)] \in CallStatus
  BY TailElements DEF TypeInv, TypeOK, Existing, StdoutExists, BackendType, CallStatus, PumpCallReply
<1>3. RpcType'
  BY <1>2 DEF TypeInv, TypeOK, Existing, RpcType, Wakes, CallIs, Call, PumpCallReply
<1>4. StdoutExists'
  BY TailElements DEF TypeInv, TypeOK, Existing, StdoutExists, BackendType, PumpCallReply
<1> QED
  BY <1>1, <1>2, <1>3, <1>4, UnchangedTypes
     DEF TypeInv, TypeOK, Existing, PumpCallReply, client, backend, init, rpc, work, files, Swallow

LEMMA PumpClientAnswerTypes ==
    ASSUME TypeInv, PumpClientAnswer
    PROVE TypeInv'
<1>1. answers[Head(stdout)] # None
  BY TailElements DEF TypeInv, TypeOK, Existing, StdoutExists, BackendType, PumpClientAnswer
<1>2. answers[Head(stdout)].dir \in BOOLEAN /\ Untouched(Head(stdout)) \in Seq(Outcome)
  BY <1>1, UntouchedTypes DEF TypeInv, TypeOK, Existing, Answer, PumpClientAnswer
<1>3. ClientType'
  BY <1>2, DeliverTypes DEF TypeInv, TypeOK, Existing, ClientType, Route, PumpClientAnswer
<1>4. BackendType'
  BY DEF TypeInv, TypeOK, Existing, BackendType, PumpClientAnswer
<1>5. InitType'
  BY <1>2 DEF TypeInv, TypeOK, Existing, InitType, Initialized, PumpClientAnswer
<1>6. WorkType'
  <2>1. workQueue' = workQueue \/ (Head(stdout) \in NavId /\ workQueue' = Append(workQueue, Head(stdout)))
    BY DEF PumpClientAnswer, Route, TypeInv, TypeOK, OtherType
  <2>2. workQueue' \in Seq(NavId)
    BY <2>1, AppendElements DEF TypeInv, TypeOK, WorkType
  <2> QED
    BY <2>2 DEF PumpClientAnswer, TypeInv, TypeOK, WorkType
<1>7. spawned' \subseteq Thread
  BY SpawnTypes DEF TypeInv, TypeOK, Existing, Initialized, Discover, OtherType, Method, Cause, PumpClientAnswer
<1>8. OtherType'
  BY <1>7 DEF TypeInv, TypeOK, Existing, OtherType, files, PumpClientAnswer
<1>9. StdoutExists'
  BY TailElements DEF TypeInv, TypeOK, Existing, StdoutExists, BackendType, PumpClientAnswer
<1>10. QueueExists'
  <2>1. answers' = answers
    BY DEF PumpClientAnswer
  <2>2. CASE workQueue' = workQueue
    BY <2>1, <2>2 DEF TypeInv, Existing, QueueExists
  <2>3. CASE Head(stdout) \in navRequests /\ workQueue' = Append(workQueue, Head(stdout))
    <3>1. Head(stdout) \in NavId /\ workQueue \in Seq(NavId)
      BY <2>3 DEF TypeInv, TypeOK, OtherType, WorkType
    <3>2. \A i \in DOMAIN workQueue' :
             \/ i \in DOMAIN workQueue /\ workQueue'[i] = workQueue[i]
             \/ workQueue'[i] = Head(stdout)
      BY <2>3, <3>1, AppendElements
    <3> QED
      BY <1>1, <2>1, <3>2 DEF TypeInv, Existing, QueueExists
  <2> QED
    BY <2>2, <2>3 DEF PumpClientAnswer, Route
<1> QED
  BY <1>1, <1>2, <1>3, <1>4, <1>5, <1>6, <1>7, <1>8, <1>9, <1>10, UnchangedTypes
     DEF TypeInv, TypeOK, Existing, PumpClientAnswer, client, backend, init, rpc, work, files

LEMMA PumpChooseActionTypes ==
    ASSUME TypeInv, PumpChooseAction
    PROVE TypeInv'
<1>1. ClientType'
  BY DEF TypeInv, TypeOK, Existing, ClientType, PumpChooseAction
<1>2. BackendType'
  BY DEF TypeInv, TypeOK, Existing, BackendType, PumpChooseAction
<1>3. RpcType'
  BY BoundAssumption DEF TypeInv, TypeOK, Existing, RpcType, ProxyId, PumpChooseAction
<1>4. OtherType'
  BY DEF TypeInv, TypeOK, Existing, OtherType, files, PumpChooseAction
<1>5. StdoutExists'
  BY TailElements DEF TypeInv, TypeOK, Existing, StdoutExists, BackendType, PumpChooseAction
<1> QED
  BY <1>1, <1>2, <1>3, <1>4, <1>5, UnchangedTypes
     DEF TypeInv, TypeOK, Existing, PumpChooseAction, client, backend, init, rpc, work, files

LEMMA PumpNoSessionTypes ==
    ASSUME TypeInv, PumpNoSession
    PROVE TypeInv'
<1>1. BackendType' /\ StdoutExists'
  BY TailElements DEF TypeInv, TypeOK, Existing, StdoutExists, BackendType, PumpNoSession
<1> QED
  BY <1>1, UnchangedTypes
     DEF TypeInv, TypeOK, Existing, PumpNoSession, client, backend, init, rpc, work, files

LEMMA PanicTypes ==
    ASSUME TypeInv, NEW w \in Worker, Panic(w)
    PROVE TypeInv'
<1>1. WorkType'
  BY DEF TypeInv, TypeOK, WorkType, Panic
<1> QED
  BY <1>1, UnchangedTypes
     DEF TypeInv, TypeOK, Existing, Panic, client, backend, init, rpc, work, files

LEMMA TakeJobTypes ==
    ASSUME TypeInv, NEW w \in Worker, TakeJob(w)
    PROVE TypeInv'
<1>1. Head(workQueue) \in NavId /\ answers[Head(workQueue)] \in Answer
  BY TailElements DEF TypeInv, TypeOK, Existing, WorkType, QueueExists, BackendType, ClientId, TakeJob
<1>2. WorkType'
  BY <1>1 DEF TypeInv, TypeOK, Existing, WorkType, Job, TakeJob
<1>3. QueueExists'
  <2>1. workQueue' = Tail(workQueue) /\ answers' = answers /\ workQueue # <<>>
    BY DEF TakeJob, backend
  <2>2. \A i \in DOMAIN workQueue' : i + 1 \in DOMAIN workQueue /\ workQueue'[i] = workQueue[i + 1]
    BY <2>1, TailElements DEF TypeInv, TypeOK, WorkType
  <2> QED
    BY <2>1, <2>2 DEF TypeInv, Existing, QueueExists
<1>4. jobs'[w] = [id |-> Head(workQueue), done |-> <<>>, call |-> 0] /\ \A v \in Worker : v # w => jobs'[v] = jobs[v]
  BY DEF TypeInv, TypeOK, Existing, WorkType, TakeJob
<1>5. answers[Head(workQueue)] # None /\ Len(answers[Head(workQueue)].links) \in Nat
  BY <1>1, TailElements DEF TypeInv, TypeOK, Existing, WorkType, QueueExists, Answer, TakeJob
<1>6. JobsExist'
  BY <1>4, <1>5 DEF TypeInv, TypeOK, Existing, JobsExist, Links, backend, TakeJob
<1> QED
  BY <1>1, <1>2, <1>3, <1>4, <1>5, <1>6, UnchangedTypes
     DEF TypeInv, TypeOK, Existing, TakeJob, client, backend, init, rpc, work, files

LEMMA CacheHitTypes ==
    ASSUME TypeInv, NEW w \in Worker, CacheHit(w)
    PROVE TypeInv'
<1>1. WorkType' /\ JobsExist'
  BY LinkDoneTypes DEF TypeInv, TypeOK, Existing, AtLink, Outcome, backend, CacheHit
<1> QED
  BY <1>1, UnchangedTypes
     DEF TypeInv, TypeOK, Existing, CacheHit, client, backend, init, rpc, work, files, AtLink

LEMMA CacheMissTypes ==
    ASSUME TypeInv, NEW w \in Worker, CacheMiss(w)
    PROVE TypeInv'
<1>1. ThisUri(w) \in Cause
  BY LinkTypes DEF TypeInv, TypeOK, Existing, AtLink, Cause, CacheMiss
<1>2. RpcType'
  BY <1>1, RegisterTypes DEF TypeInv, TypeOK, Existing, Method, CacheMiss
<1>3. nextProxyId \in ProxyId
  BY DEF TypeInv, TypeOK, Existing, Register, CacheMiss
<1>4. WorkType'
  BY <1>3, LinkTypes DEF TypeInv, TypeOK, Existing, WorkType, AtLink, Job, CacheMiss
<1>5. jobs'[w] = [jobs[w] EXCEPT !.call = nextProxyId] /\ \A v \in Worker : v # w => jobs'[v] = jobs[v]
  BY DEF TypeInv, TypeOK, Existing, WorkType, CacheMiss
<1>6. jobs'[w].id = jobs[w].id /\ jobs'[w].done = jobs[w].done
  BY <1>5, LinkTypes DEF TypeInv, TypeOK, Existing, Job, AtLink, CacheMiss
<1>7. JobsExist'
  BY <1>5, <1>6 DEF TypeInv, TypeOK, Existing, JobsExist, Links, AtLink, backend, CacheMiss
<1> QED
  BY <1>1, <1>2, <1>3, <1>4, <1>5, <1>6, <1>7, UnchangedTypes
     DEF TypeInv, TypeOK, Existing, CacheMiss, client, backend, init, rpc, work, files

LEMMA StoreFileTypes ==
    ASSUME TypeInv, NEW w \in Worker, StoreFile(w)
    PROVE TypeInv'
<1>1. jobs[w] # None /\ Len(jobs[w].done) < Len(Links(w))
  BY DEF TypeInv, TypeOK, Existing, Calling, JobsExist, StoreFile
<1>2. WorkType' /\ JobsExist'
  BY <1>1, LinkDoneTypes DEF TypeInv, TypeOK, Existing, Outcome, backend, StoreFile
<1>3. OtherType'
  BY <1>1, LinkTypes DEF TypeInv, TypeOK, Existing, OtherType, StoreFile
<1> QED
  BY <1>1, <1>2, <1>3, UnchangedTypes
     DEF TypeInv, TypeOK, Existing, StoreFile, client, backend, init, rpc, work, files

LEMMA StoreFailsTypes ==
    ASSUME TypeInv, NEW w \in Worker, StoreFails(w)
    PROVE TypeInv'
<1>1. jobs[w] # None /\ Len(jobs[w].done) < Len(Links(w))
  BY DEF TypeInv, TypeOK, Existing, Calling, JobsExist, StoreFails
<1>2. WorkType' /\ JobsExist'
  BY <1>1, LinkDoneTypes DEF TypeInv, TypeOK, Existing, Outcome, backend, StoreFails
<1>3. OtherType'
  BY <1>1, LinkTypes DEF TypeInv, TypeOK, Existing, OtherType, StoreFails
<1> QED
  BY <1>1, <1>2, <1>3, UnchangedTypes
     DEF TypeInv, TypeOK, Existing, StoreFails, client, backend, init, rpc, work, files

LEMMA NoCodeTypes ==
    ASSUME TypeInv, NEW w \in Worker, NoCode(w)
    PROVE TypeInv'
<1>1. jobs[w] # None /\ Len(jobs[w].done) < Len(Links(w))
  BY DEF TypeInv, TypeOK, Existing, Calling, JobsExist, NoCode
<1>2. WorkType' /\ JobsExist'
  BY <1>1, LinkDoneTypes DEF TypeInv, TypeOK, Existing, Outcome, backend, NoCode
<1> QED
  BY <1>1, <1>2, UnchangedTypes
     DEF TypeInv, TypeOK, Existing, NoCode, client, backend, init, rpc, work, files

LEMMA FinishJobTypes ==
    ASSUME TypeInv, NEW w \in Worker, FinishJob(w)
    PROVE TypeInv'
<1>1. jobs[w].id \in ClientId \cup ProxyId /\ jobs[w].done \in Seq(Outcome)
  BY LinkTypes DEF TypeInv, TypeOK, Existing, ClientId, FinishJob
<1>2. ClientType'
  BY <1>1, DeliverTypes DEF TypeInv, TypeOK, Existing, ClientType, FinishJob
<1>3. WorkType'
  BY DEF TypeInv, TypeOK, Existing, WorkType, FinishJob
<1>4. JobsExist'
  BY DEF TypeInv, TypeOK, Existing, JobsExist, Links, WorkType, backend, FinishJob
<1> QED
  BY <1>1, <1>2, <1>3, <1>4, UnchangedTypes
     DEF TypeInv, TypeOK, Existing, FinishJob, client, backend, init, rpc, work, files

LEMMA ControlReloadTypes ==
    ASSUME TypeInv, NEW m \in Manual, ControlReload(m)
    PROVE TypeInv'
<1>1. spawned' \subseteq Thread
  BY SpawnTypes DEF TypeInv, TypeOK, Existing, Method, Cause, ControlReload
<1>2. OtherType'
  BY <1>1 DEF TypeInv, TypeOK, Existing, OtherType, files, ControlReload
<1> QED
  BY <1>1, <1>2, UnchangedTypes
     DEF TypeInv, TypeOK, Existing, ControlReload, client, backend, init, rpc, work, files

\* Every step of the proxy, of its client and of the backend keeps the types.
LEMMA NextTypes == TypeInv /\ [Next]_vars => TypeInv'
<1> SUFFICES ASSUME TypeInv, [Next]_vars PROVE TypeInv'
  OBVIOUS
<1>1. CASE UNCHANGED vars
  <2>1. /\ UNCHANGED client /\ UNCHANGED backend /\ UNCHANGED init /\ UNCHANGED rpc
        /\ UNCHANGED work
        /\ UNCHANGED <<files, navRequests, pendingClient, hand, spawned, manual>>
    BY <1>1 DEF vars
  <2>2. UNCHANGED <<stdout, answers, replies, workQueue, jobs>>
    BY <2>1 DEF backend, work
  <2> QED
    BY <2>1, <2>2, UnchangedTypes DEF TypeInv, TypeOK, Existing
<1>2. CASE Client
  BY <1>2, ClientInitializeTypes, ClientRequestTypes, ClientPicksTypes DEF Client
<1>3. CASE Backend
  BY <1>3, AnswerClientTypes, AnswerCallTypes, ServerChooseTypes DEF Backend
<1>4. CASE MainThread
  BY <1>4, TakeRequestTypes, ForwardRequestTypes, TakeSaveTypes, TakeReplyTypes DEF MainThread
<1>5. CASE PumpThread
  BY <1>5, PumpFastPathTypes, PumpCallReplyTypes, PumpClientAnswerTypes,
     PumpChooseActionTypes, PumpNoSessionTypes DEF PumpThread
<1>6. CASE Calls
  BY <1>6, StartCallTypes, SendCallTypes, TimeoutCallTypes DEF Calls
<1>7. ASSUME NEW w \in Worker, WorkerStep(w) PROVE TypeInv'
  BY <1>7, TakeJobTypes, PanicTypes, CacheHitTypes, CacheMissTypes, StoreFileTypes, StoreFailsTypes,
     NoCodeTypes, FinishJobTypes DEF WorkerStep
<1>8. ASSUME NEW m \in Manual, ControlReload(m) PROVE TypeInv'
  BY <1>8, ControlReloadTypes
<1> QED
  BY <1>1, <1>2, <1>3, <1>4, <1>5, <1>6, <1>7, <1>8 DEF Next

\* Type correctness, with what the types rest on.
THEOREM TypeInvariant == Spec => []TypeInv
  BY InitTypes, NextTypes, PTL DEF Spec

\* Type correctness: the tables of Shared, the queues and the threads hold what
\* main.rs declares them to hold.
THEOREM TypeCorrect == Spec => []TypeOK
<1>1. TypeInv => TypeOK
  BY DEF TypeInv
<1> QED
  BY <1>1, TypeInvariant, PTL

-----------------------------------------------------------------------------
Has(s, x) == \E i \in DOMAIN s : s[i] = x

\* No member of S occurs twice in s.
Distinct(s, S) == \A i, j \in DOMAIN s : s[i] \in S /\ s[i] = s[j] => i = j

\* What Append and Tail do to the members of a sequence without repetition.
LEMMA AppendDistinct ==
    ASSUME NEW T, NEW S, NEW s \in Seq(T), NEW e \in T,
           Distinct(s, S), e \in S => ~Has(s, e)
    PROVE /\ Distinct(Append(s, e), S)
          /\ \A x : Has(Append(s, e), x) <=> Has(s, x) \/ x = e
<1>1. DOMAIN s \subseteq Nat /\ Len(s) + 1 \notin DOMAIN s
  OBVIOUS
<1> QED
  BY <1>1, AppendElements DEF Distinct, Has

LEMMA TailDistinct ==
    ASSUME NEW T, NEW S, NEW s \in Seq(T), s # <<>>, Distinct(s, S)
    PROVE /\ Distinct(Tail(s), S)
          /\ \A x : Has(s, x) <=> x = Head(s) \/ Has(Tail(s), x)
          /\ Head(s) \in S => ~Has(Tail(s), Head(s))
          /\ Head(s) \in T
<1>1. DOMAIN s \subseteq Nat /\ DOMAIN Tail(s) \subseteq Nat \ {0}
  OBVIOUS
<1>2. /\ 1 \in DOMAIN s /\ s[1] = Head(s) /\ Head(s) \in T
      /\ \A i \in DOMAIN Tail(s) : i + 1 \in DOMAIN s /\ Tail(s)[i] = s[i + 1]
      /\ \A i \in DOMAIN s : i = 1 \/ (i - 1 \in DOMAIN Tail(s) /\ Tail(s)[i - 1] = s[i])
  BY TailElements
<1>3. Distinct(Tail(s), S)
  <2> SUFFICES ASSUME NEW i \in DOMAIN Tail(s), NEW j \in DOMAIN Tail(s),
                      Tail(s)[i] \in S, Tail(s)[i] = Tail(s)[j]
               PROVE i = j
    BY DEF Distinct
  <2>1. i + 1 \in DOMAIN s /\ j + 1 \in DOMAIN s /\ s[i + 1] \in S /\ s[i + 1] = s[j + 1]
    BY <1>2
  <2>2. i + 1 = j + 1
    BY <2>1 DEF Distinct
  <2>3. i \in Nat /\ j \in Nat
    BY <1>1
  <2> QED
    BY <2>2, <2>3
<1>4. \A x : Has(s, x) <=> x = Head(s) \/ Has(Tail(s), x)
  BY <1>2 DEF Has
<1>5. ASSUME Head(s) \in S, NEW i \in DOMAIN Tail(s), Tail(s)[i] = Head(s) PROVE FALSE
  <2>1. i + 1 \in DOMAIN s /\ s[i + 1] = s[1]
    BY <1>2, <1>5
  <2>2. i + 1 = 1
    BY <1>2, <1>5, <2>1 DEF Distinct
  <2> QED
    BY <1>1, <2>2
<1> QED
  BY <1>2, <1>3, <1>4, <1>5 DEF Has

-----------------------------------------------------------------------------
(* The inductive invariant: the stages of an answer (the pipe from the      *)
(* backend, the queue of the workers, a worker, the client) exclude each    *)
(* other, and no stage holds it twice.                                      *)

WithWorker(c) == \E w \in Worker : jobs[w] # None /\ jobs[w].id = c

OneWorker ==
    \A v, w \in Worker :
        jobs[v] # None /\ jobs[w] # None /\ jobs[v].id = jobs[w].id => v = w

InOneStage(c) ==
    /\ Has(stdout, c) => ~Has(workQueue, c) /\ ~WithWorker(c) /\ received[c] = <<>>
    /\ Has(workQueue, c) => ~WithWorker(c) /\ received[c] = <<>>
    /\ WithWorker(c) => received[c] = <<>>
    /\ Len(received[c]) <= 1

InSomeStage(c) ==
    Has(stdout, c) \/ Has(workQueue, c) \/ WithWorker(c) \/ received[c] # <<>>

Stages == \A c \in ClientId : InOneStage(c) /\ (answers[c] # None <=> InSomeStage(c))

NoRepetition == Distinct(stdout, ClientId) /\ Distinct(workQueue, ClientId) /\ OneWorker

Held == NoRepetition /\ Stages

LEMMA HeldInit == Init => Held
<1> SUFFICES ASSUME Init PROVE Held
  OBVIOUS
<1>1. NoRepetition
  BY DEF Init, NoRepetition, Distinct, OneWorker
<1>2. \A c \in ClientId : received[c] = <<>> /\ answers[c] = None /\ ~WithWorker(c)
  BY DEF Init, WithWorker
<1>3. \A c \in ClientId : ~Has(stdout, c) /\ ~Has(workQueue, c)
  BY DEF Init, Has
<1>4. Len(<<>>) <= 1
  OBVIOUS
<1> QED
  BY <1>1, <1>2, <1>3, <1>4 DEF Held, Stages, InOneStage, InSomeStage

\* Types in the form the proofs below use.
LEMMA SeqTypes ==
    ASSUME TypeInv
    PROVE /\ stdout \in Seq(ClientId \cup ProxyId \cup Session)
          /\ workQueue \in Seq(NavId) /\ workQueue \in Seq(ClientId)
          /\ stdin \in Seq(ClientId \cup SaveId \cup ProxyId)
          /\ \A c \in ClientId : received[c] \in Seq(Seq(Outcome)) /\ Len(received[c]) \in Nat
          /\ NavId \subseteq ClientId
<1>1. received \in [ClientId \cup ProxyId -> Seq(Seq(Outcome))]
  BY DEF TypeInv, TypeOK, ClientType
<1>2. workQueue \in Seq(NavId) /\ NavId \subseteq ClientId
  BY DEF TypeInv, TypeOK, WorkType, ClientId
<1>3. workQueue \in Seq(ClientId)
  BY <1>2
<1> QED
  BY <1>1, <1>2, <1>3 DEF TypeInv, TypeOK, ClientType, BackendType

\* A step that touches no stage of an answer to the client.
LEMMA HeldElsewhere ==
    ASSUME Held, UNCHANGED <<received, answers, workQueue>>,
           Distinct(stdout', ClientId),
           \A c \in ClientId : Has(stdout', c) <=> Has(stdout, c),
           \A w \in Worker : /\ jobs'[w] # None <=> jobs[w] # None
                             /\ jobs[w] # None => jobs'[w].id = jobs[w].id
    PROVE Held'
<1>1. \A c \in ClientId : WithWorker(c)' <=> WithWorker(c)
  BY DEF WithWorker
<1>2. OneWorker'
  BY DEF Held, NoRepetition, OneWorker
<1>3. \A c \in ClientId : Has(workQueue', c) <=> Has(workQueue, c)
  OBVIOUS
<1>4. Stages'
  BY <1>1, <1>3 DEF Held, Stages, InOneStage, InSomeStage
<1>5. Distinct(workQueue', ClientId)
  BY DEF Held, NoRepetition
<1> QED
  BY <1>2, <1>4, <1>5 DEF Held, NoRepetition

\* A step of the threads that leaves the stages as they are.
LEMMA HeldUnchanged ==
    ASSUME Held, UNCHANGED <<received, answers, workQueue, stdout, jobs>>
    PROVE Held'
<1>1. Distinct(stdout', ClientId) /\ \A c \in ClientId : Has(stdout', c) <=> Has(stdout, c)
  BY DEF Held, NoRepetition
<1> QED
  BY <1>1, HeldElsewhere

\* A message that is no answer to the client enters or leaves the pipe.
LEMMA HeldOtherAppended ==
    ASSUME TypeInv, Held, NEW e \in ProxyId \cup Session, stdout' = Append(stdout, e),
           UNCHANGED <<received, answers, workQueue, jobs>>
    PROVE Held'
<1>1. e \notin ClientId
  BY IdsDisjoint DEF ClientId
<1>2. Distinct(stdout', ClientId) /\ \A x : Has(stdout', x) <=> Has(stdout, x) \/ x = e
  BY <1>1, SeqTypes, AppendDistinct DEF Held, NoRepetition
<1> QED
  BY <1>1, <1>2, HeldElsewhere

LEMMA HeldOtherTaken ==
    ASSUME TypeInv, Held, stdout # <<>>, Head(stdout) \in ProxyId \cup Session,
           stdout' = Tail(stdout), UNCHANGED <<received, answers, workQueue, jobs>>
    PROVE Held'
<1>1. Head(stdout) \notin ClientId
  BY IdsDisjoint DEF ClientId
<1>2. /\ Distinct(stdout', ClientId)
      /\ \A x : Has(stdout, x) <=> x = Head(stdout) \/ Has(stdout', x)
  BY SeqTypes, TailDistinct DEF Held, NoRepetition
<1> QED
  BY <1>1, <1>2, HeldElsewhere

\* The backend answers c: the answer enters the pipe.
LEMMA HeldAnswerClient ==
    ASSUME TypeInv, Held, NEW c \in ClientId, NEW a \in AnswersTo[c], AnswerClient(c, a)
    PROVE Held'
<1>1. /\ stdout' = Append(stdout, c)
      /\ UNCHANGED <<received, workQueue, jobs>>
      /\ answers[c] = None /\ answers' = [answers EXCEPT ![c] = a]
  BY DEF AnswerClient, client, work
<1>2. a # None
  BY AnswersAssumption, NoneAssumption
<1>3. \A x \in ClientId : answers'[x] = IF x = c THEN a ELSE answers[x]
  BY <1>1 DEF TypeInv, TypeOK, BackendType
<1>4. ~InSomeStage(c)
  BY <1>1 DEF Held, Stages
<1>5. Distinct(stdout', ClientId) /\ \A x : Has(stdout', x) <=> Has(stdout, x) \/ x = c
  BY <1>1, <1>4, SeqTypes, AppendDistinct DEF Held, NoRepetition, InSomeStage
<1>6. NoRepetition'
  BY <1>1, <1>5 DEF Held, NoRepetition, OneWorker
<1>7. /\ \A x : Has(workQueue, x)' <=> Has(workQueue, x)
      /\ \A x : WithWorker(x)' <=> WithWorker(x)
  BY <1>1 DEF WithWorker, Has
<1>8. Stages'
  BY <1>1, <1>2, <1>3, <1>4, <1>5, <1>7 DEF Held, Stages, InOneStage, InSomeStage
<1> QED
  BY <1>6, <1>8 DEF Held

\* The pump takes the answer to c from the pipe and delivers it.
LEMMA HeldRelayed ==
    ASSUME TypeInv, Held, NEW c \in ClientId, stdout # <<>>, c = Head(stdout),
           stdout' = Tail(stdout), answers[c] # None, Deliver(c, Untouched(c)),
           UNCHANGED <<answers, workQueue, jobs>>
    PROVE Held'
<1>1. /\ Distinct(stdout', ClientId)
      /\ \A x : Has(stdout, x) <=> x = c \/ Has(stdout', x)
      /\ ~Has(stdout', c)
  BY SeqTypes, TailDistinct DEF Held, NoRepetition
<1>2. received[c] = <<>> /\ ~Has(workQueue, c) /\ ~WithWorker(c)
  BY <1>1 DEF Held, Stages, InOneStage
<1>3. Untouched(c) \in Seq(Outcome)
  BY UntouchedTypes DEF TypeInv, TypeOK
<1>4. received'[c] = <<Untouched(c)>> /\ \A x \in ClientId : x # c => received'[x] = received[x]
  <2>1. /\ received'[c] = Append(received[c], Untouched(c))
        /\ \A x \in ClientId : x # c => received'[x] = received[x]
    BY <1>3, DeliverTypes DEF TypeInv, TypeOK
  <2> QED
    BY <1>2, <2>1
<1>5. NoRepetition'
  BY <1>1 DEF Held, NoRepetition, OneWorker
<1>6. /\ \A x : Has(workQueue, x)' <=> Has(workQueue, x)
      /\ \A x : WithWorker(x)' <=> WithWorker(x)
  BY DEF WithWorker, Has
<1>7. Len(received'[c]) = 1 /\ received'[c] # <<>>
  BY <1>4
<1>8. InOneStage(c)' /\ InSomeStage(c)' /\ answers'[c] # None
  BY <1>1, <1>2, <1>6, <1>7 DEF InOneStage, InSomeStage
<1>9. ASSUME NEW x \in ClientId, x # c
      PROVE InOneStage(x)' /\ (answers'[x] # None <=> InSomeStage(x)')
  BY <1>1, <1>4, <1>6, <1>9 DEF Held, Stages, InOneStage, InSomeStage
<1>10. Stages'
  BY <1>8, <1>9 DEF Stages
<1> QED
  BY <1>5, <1>10 DEF Held

\* The pump hands the answer to c to the workers.
LEMMA HeldQueued ==
    ASSUME TypeInv, Held, NEW c \in NavId, stdout # <<>>, c = Head(stdout),
           stdout' = Tail(stdout), workQueue' = Append(workQueue, c),
           UNCHANGED <<answers, received, jobs>>
    PROVE Held'
<1>1. c \in ClientId
  BY DEF ClientId
<1>2. /\ Distinct(stdout', ClientId)
      /\ \A x : Has(stdout, x) <=> x = c \/ Has(stdout', x)
      /\ ~Has(stdout', c)
  BY <1>1, SeqTypes, TailDistinct DEF Held, NoRepetition
<1>3. received[c] = <<>> /\ ~Has(workQueue, c) /\ ~WithWorker(c)
  BY <1>1, <1>2 DEF Held, Stages, InOneStage
<1>4. Distinct(workQueue', ClientId) /\ \A x : Has(workQueue', x) <=> Has(workQueue, x) \/ x = c
  BY <1>3, SeqTypes, AppendDistinct DEF Held, NoRepetition
<1>5. NoRepetition'
  BY <1>2, <1>4 DEF Held, NoRepetition, OneWorker
<1>6. \A x : WithWorker(x)' <=> WithWorker(x)
  BY DEF WithWorker
<1>7. Stages'
  BY <1>2, <1>3, <1>4, <1>6 DEF Held, Stages, InOneStage, InSomeStage
<1> QED
  BY <1>5, <1>7 DEF Held

\* A worker takes a job, and gives the answer to the client.
LEMMA HeldTakeJob ==
    ASSUME TypeInv, Held, NEW w \in Worker, TakeJob(w)
    PROVE Held'
<1> DEFINE c == Head(workQueue)
           j == [id |-> c, done |-> <<>>, call |-> 0]
<1>1. /\ workQueue # <<>> /\ workQueue' = Tail(workQueue) /\ jobs[w] = None
      /\ jobs' = [jobs EXCEPT ![w] = j]
      /\ UNCHANGED <<stdout, answers, received>>
  BY DEF TakeJob, client, backend
<1>2. /\ Distinct(workQueue', ClientId)
      /\ \A x : Has(workQueue, x) <=> x = c \/ Has(workQueue', x)
      /\ ~Has(workQueue', c)
      /\ c \in NavId /\ c \in ClientId
  BY <1>1, SeqTypes, TailDistinct, TailElements DEF Held, NoRepetition
<1>3. received[c] = <<>> /\ ~Has(stdout, c) /\ ~WithWorker(c)
  BY <1>2 DEF Held, Stages, InOneStage
<1>4. j # None /\ j.id = c
  <2>1. <<>> \in Seq(Outcome)
    OBVIOUS
  <2>2. j \in Job
    BY <1>2, <2>1 DEF Job
  <2> QED
    BY <2>2, NoneAssumption
<1>5. jobs'[w] = j /\ \A v \in Worker : v # w => jobs'[v] = jobs[v]
  BY <1>1 DEF TypeInv, TypeOK, WorkType
<1> HIDE DEF c, j
<1>6. \A x : WithWorker(x)' <=> WithWorker(x) \/ x = c
  BY <1>1, <1>4, <1>5 DEF WithWorker
<1>7. OneWorker'
  BY <1>3, <1>4, <1>5 DEF Held, NoRepetition, OneWorker, WithWorker
<1>8. \A x : Has(stdout, x)' <=> Has(stdout, x)
  BY <1>1 DEF Has
<1>9. NoRepetition'
  BY <1>1, <1>2, <1>7 DEF Held, NoRepetition
<1>10. Stages'
  BY <1>1, <1>2, <1>3, <1>6, <1>8 DEF Held, Stages, InOneStage, InSomeStage
<1> QED
  BY <1>9, <1>10 DEF Held

LEMMA HeldFinishJob ==
    ASSUME TypeInv, Held, NEW w \in Worker, FinishJob(w)
    PROVE Held'
<1> PICK c : c = jobs[w].id
  OBVIOUS
<1> PICK o : o = jobs[w].done
  OBVIOUS
<1>1. /\ jobs[w] # None /\ jobs' = [jobs EXCEPT ![w] = None]
      /\ Deliver(c, o)
      /\ UNCHANGED <<stdout, answers, workQueue>>
  BY DEF FinishJob, backend
<1>2. c \in ClientId /\ o \in Seq(Outcome) /\ WithWorker(c)
  BY <1>1, LinkTypes, SeqTypes DEF WithWorker
<1>3. received[c] = <<>> /\ ~Has(stdout, c) /\ ~Has(workQueue, c) /\ answers[c] # None
  BY <1>2 DEF Held, Stages, InOneStage, InSomeStage
<1>4. /\ received'[c] = Append(received[c], o)
      /\ \A x \in ClientId : x # c => received'[x] = received[x]
  BY <1>1, <1>2, DeliverTypes DEF TypeInv, TypeOK
<1>5. received'[c] # <<>> /\ Len(received'[c]) = 1
  BY <1>3, <1>4
<1>6. jobs'[w] = None /\ \A v \in Worker : v # w => jobs'[v] = jobs[v]
  BY <1>1 DEF TypeInv, TypeOK, WorkType
<1>7. \A v \in Worker : jobs[v] # None /\ jobs[v].id = c => v = w
  BY <1>1 DEF Held, NoRepetition, OneWorker
<1>8. OneWorker'
  BY <1>6 DEF Held, NoRepetition, OneWorker
<1>9. \A x : WithWorker(x)' <=> WithWorker(x) /\ x # c
  BY <1>1, <1>6, <1>7 DEF WithWorker
<1>10. \A x : /\ Has(stdout, x)' <=> Has(stdout, x)
              /\ Has(workQueue, x)' <=> Has(workQueue, x)
  BY <1>1 DEF Has
<1>11. NoRepetition'
  BY <1>1, <1>8 DEF Held, NoRepetition
<1>12. InOneStage(c)' /\ InSomeStage(c)' /\ answers'[c] # None
  BY <1>1, <1>3, <1>5, <1>9, <1>10 DEF InOneStage, InSomeStage
<1>13. ASSUME NEW x \in ClientId, x # c
       PROVE InOneStage(x)' /\ (answers'[x] # None <=> InSomeStage(x)')
  BY <1>1, <1>4, <1>9, <1>10, <1>13 DEF Held, Stages, InOneStage, InSomeStage
<1>14. Stages'
  BY <1>12, <1>13 DEF Stages
<1> QED
  BY <1>11, <1>14 DEF Held

\* A worker gets one link further: it keeps its answer.
LEMMA HeldSameJob ==
    ASSUME TypeInv, Held, NEW w \in Worker, jobs[w] # None, NEW j \in Job,
           j.id = jobs[w].id, jobs' = [jobs EXCEPT ![w] = j],
           UNCHANGED <<stdout, answers, received, workQueue>>
    PROVE Held'
<1>1. jobs'[w] = j /\ \A v \in Worker : v # w => jobs'[v] = jobs[v]
  BY DEF TypeInv, TypeOK, WorkType
<1>2. j # None
  BY NoneAssumption
<1>3. Distinct(stdout', ClientId) /\ \A c \in ClientId : Has(stdout', c) <=> Has(stdout, c)
  BY DEF Held, NoRepetition
<1> QED
  BY <1>1, <1>2, <1>3, HeldElsewhere

LEMMA HeldLinkDone ==
    ASSUME TypeInv, Held, NEW w \in Worker, jobs[w] # None, NEW o \in Outcome,
           LinkDone(w, o), UNCHANGED <<stdout, answers, received, workQueue>>
    PROVE Held'
<1> DEFINE j == [id |-> jobs[w].id, call |-> 0, done |-> Append(jobs[w].done, o)]
<1>1. j \in Job /\ j.id = jobs[w].id
  BY LinkTypes DEF Job
<1>2. jobs' = [jobs EXCEPT ![w] = j]
  BY DEF LinkDone
<1> HIDE DEF j
<1> QED
  BY <1>1, <1>2, HeldSameJob

LEMMA HeldWorker ==
    ASSUME TypeInv, Held, NEW w \in Worker, WorkerStep(w)
    PROVE Held'
<1>1. CASE TakeJob(w)
  BY <1>1, HeldTakeJob
<1>2. CASE FinishJob(w)
  BY <1>2, HeldFinishJob
<1>3. CASE CacheHit(w)
  BY <1>3, HeldLinkDone DEF CacheHit, AtLink, Outcome, client, backend
<1>4. CASE StoreFile(w)
  BY <1>4, HeldLinkDone DEF StoreFile, Calling, Outcome, client, backend
<1>5. CASE StoreFails(w)
  BY <1>5, HeldLinkDone DEF StoreFails, Calling, Outcome, client, backend
<1>6. CASE NoCode(w)
  BY <1>6, HeldLinkDone DEF NoCode, Calling, Outcome, client, backend
<1>7. CASE CacheMiss(w)
  <2> DEFINE j == [jobs[w] EXCEPT !.call = nextProxyId]
  <2>1. jobs[w] # None /\ nextProxyId \in ProxyId /\ jobs' = [jobs EXCEPT ![w] = j]
    BY <1>7 DEF CacheMiss, AtLink, Register
  <2>2. j \in Job /\ j.id = jobs[w].id
    BY <2>1, LinkTypes DEF Job
  <2> HIDE DEF j
  <2> QED
    BY <1>7, <2>1, <2>2, HeldSameJob DEF CacheMiss, client, backend
<1>8. CASE Panic(w)
  BY <1>8, HeldUnchanged DEF Panic, client, backend
<1> QED
  BY <1>1, <1>2, <1>3, <1>4, <1>5, <1>6, <1>7, <1>8 DEF WorkerStep

\* Every step keeps the answers in their stages.
LEMMA HeldNext == TypeInv /\ Held /\ [Next]_vars => Held'
<1> SUFFICES ASSUME TypeInv, Held, [Next]_vars PROVE Held'
  OBVIOUS
<1>1. CASE UNCHANGED vars
  BY <1>1, HeldUnchanged DEF vars, client, backend, work
<1>2. CASE Client
  BY <1>2, HeldUnchanged
     DEF Client, ClientInitialize, ClientRequest, ClientPicks, backend, work
<1>3. CASE Backend
  <2>1. ASSUME NEW c \in ClientId, NEW a \in AnswersTo[c], AnswerClient(c, a) PROVE Held'
    BY <2>1, HeldAnswerClient
  <2>2. ASSUME NEW p \in ProxyId, NEW r \in {"ok", "empty", "error"}, AnswerCall(p, r)
        PROVE Held'
    BY <2>2, HeldOtherAppended DEF AnswerCall, client, work
  <2>3. ASSUME NEW s \in Session, ServerChoose(s) PROVE Held'
    BY <2>3, HeldOtherAppended DEF ServerChoose, client, work
  <2> QED
    BY <1>3, <2>1, <2>2, <2>3 DEF Backend
<1>4. CASE MainThread
  BY <1>4, HeldUnchanged
     DEF MainThread, TakeRequest, ForwardRequest, TakeSave, TakeReply, client, backend, work
<1>5. CASE PumpThread
  <2>1. ASSUME stdout # <<>>, Head(stdout) \in ClientId
        PROVE answers[Head(stdout)] # None
    BY <2>1, TailElements, SeqTypes DEF TypeInv, Existing, StdoutExists
  <2>2. CASE PumpFastPath
    BY <2>1, <2>2, HeldRelayed DEF PumpFastPath, work
  <2>3. CASE PumpCallReply
    BY <2>3, HeldOtherTaken DEF PumpCallReply, Swallow, work
  <2>4. CASE PumpChooseAction
    BY <2>4, HeldOtherTaken DEF PumpChooseAction, work
  <2>5. CASE PumpClientAnswer
    <3>1. CASE Head(stdout) \in navRequests
      BY <2>5, <3>1, HeldQueued DEF PumpClientAnswer, Route, TypeInv, TypeOK, OtherType
    <3>2. CASE Head(stdout) \notin navRequests
      BY <2>1, <2>5, <3>2, HeldRelayed DEF PumpClientAnswer, Route
    <3> QED
      BY <3>1, <3>2
  <2>6. CASE PumpNoSession
    BY <2>6, HeldOtherTaken DEF PumpNoSession, client, work
  <2> QED
    BY <1>5, <2>2, <2>3, <2>4, <2>5, <2>6 DEF PumpThread
<1>6. CASE Calls
  BY <1>6, HeldUnchanged
     DEF Calls, StartCall, SendCall, TimeoutCall, Register, client, backend, work
<1>7. ASSUME NEW w \in Worker, WorkerStep(w) PROVE Held'
  BY <1>7, HeldWorker
<1>8. ASSUME NEW m \in Manual, ControlReload(m) PROVE Held'
  BY <1>8, HeldUnchanged DEF ControlReload, client, backend, work
<1> QED
  BY <1>1, <1>2, <1>3, <1>4, <1>5, <1>6, <1>7, <1>8 DEF Next

\* The stages of an answer exclude each other: not given, on the way from the
\* backend, queued, with a worker, delivered.
THEOREM HeldInvariant == Spec => [](TypeInv /\ Held)
<1>1. Init => TypeInv /\ Held
  BY InitTypes, HeldInit
<1>2. TypeInv /\ Held /\ [Next]_vars => (TypeInv /\ Held)'
  BY NextTypes, HeldNext
<1> QED
  BY <1>1, <1>2, PTL DEF Spec

\* The backend gives an answer once.
LEMMA AnswersKept ==
    ASSUME TypeInv, [Next]_vars, NEW c \in ClientId
    PROVE answers'[c] = answers[c] \/ (answers[c] = None /\ answers'[c] \in AnswersTo[c])
<1> DEFINE Goal == answers'[c] = answers[c] \/ (answers[c] = None /\ answers'[c] \in AnswersTo[c])
<1>1. ASSUME NEW d \in ClientId, NEW a \in AnswersTo[d], AnswerClient(d, a) PROVE Goal
  BY <1>1 DEF AnswerClient, TypeInv, TypeOK, BackendType
<1>2. ASSUME UNCHANGED answers PROVE Goal
  BY <1>2
<1>3. ASSUME Backend PROVE Goal
  BY <1>1, <1>2, <1>3 DEF Backend, AnswerCall, ServerChoose
<1>4. ASSUME Client \/ MainThread PROVE Goal
  BY <1>2, <1>4 DEF Client, ClientInitialize, ClientRequest, ClientPicks, MainThread,
     TakeRequest, ForwardRequest, TakeSave, TakeReply, backend
<1>5. ASSUME PumpThread \/ Calls \/ UNCHANGED vars PROVE Goal
  BY <1>2, <1>5 DEF PumpThread, PumpFastPath, PumpCallReply, PumpClientAnswer,
     PumpChooseAction, PumpNoSession, Calls, StartCall, SendCall, TimeoutCall, vars, backend
<1>6. ASSUME NEW w \in Worker, WorkerStep(w) PROVE Goal
  BY <1>2, <1>6 DEF WorkerStep, TakeJob, Panic, CacheHit, CacheMiss, StoreFile, StoreFails, NoCode,
     FinishJob, backend
<1>7. ASSUME NEW m \in Manual, ControlReload(m) PROVE Goal
  BY <1>2, <1>7 DEF ControlReload, backend
<1> HIDE DEF Goal
<1>8. Goal
  BY <1>3, <1>4, <1>5, <1>6, <1>7 DEF Next
<1> QED
  BY <1>8 DEF Goal

-----------------------------------------------------------------------------
(* A worker that has panicked takes no step any more: it stays at the link  *)
(* it died of, and its answer with it.                                      *)

Stuck == \A w \in dead : AtLink(w) /\ ThisUri(w) \in PanicUri

LEMMA StuckInit == Init => Stuck
  BY DEF Init, Stuck

LEMMA LiveWorker ==
    ASSUME TypeInv, Stuck, NEW w \in Worker, WorkerStep(w)
    PROVE w \notin dead
<1> SUFFICES ASSUME w \in dead PROVE FALSE
  OBVIOUS
<1>1. AtLink(w) /\ ThisUri(w) \in PanicUri
  BY DEF Stuck
<1>2. Len(jobs[w].done) \in Nat /\ Len(Links(w)) \in Nat
  BY <1>1, LinkTypes DEF AtLink
<1> QED
  BY <1>1, <1>2 DEF WorkerStep, TakeJob, Panic, CacheHit, CacheMiss, StoreFile, StoreFails,
     NoCode, FinishJob, AtLink, Calling

\* What the step of a worker does to the others.
LEMMA OtherJobs ==
    ASSUME TypeInv, NEW w \in Worker, WorkerStep(w), NEW v \in Worker, v # w
    PROVE jobs'[v] = jobs[v] /\ (v \in dead' => v \in dead)
  BY DEF TypeInv, TypeOK, WorkType, WorkerStep, TakeJob, Panic, CacheHit, CacheMiss, StoreFile,
     StoreFails, NoCode, FinishJob, LinkDone

\* The dead stay where they are, and only a worker at such a link joins them.
LEMMA DeadStay ==
    ASSUME TypeInv, Stuck, [Next]_vars, NEW w \in dead'
    PROVE /\ jobs'[w] = jobs[w] /\ w \in Worker
          /\ w \in dead \/ (AtLink(w) /\ ThisUri(w) \in PanicUri /\ UNCHANGED answers)
<1> DEFINE Goal == /\ jobs'[w] = jobs[w] /\ w \in Worker
                   /\ \/ w \in dead
                      \/ AtLink(w) /\ ThisUri(w) \in PanicUri /\ UNCHANGED answers
<1>1. dead \subseteq Worker
  BY DEF TypeInv, TypeOK, WorkType
<1>2. ASSUME UNCHANGED <<jobs, dead>> PROVE Goal
  BY <1>1, <1>2
<1>3. ASSUME NEW v \in Worker, WorkerStep(v) PROVE Goal
  <2>1. v \notin dead
    BY <1>3, LiveWorker
  <2>2. CASE Panic(v)
    BY <1>1, <2>2 DEF Panic, backend
  <2>3. CASE ~Panic(v)
    <3>1. dead' = dead
      BY <1>3, <2>3 DEF WorkerStep, TakeJob, CacheHit, CacheMiss, StoreFile, StoreFails,
         NoCode, FinishJob
    <3> QED
      BY <1>1, <1>3, <2>1, <3>1, OtherJobs
  <2> QED
    BY <2>2, <2>3
<1>4. ASSUME Client \/ Backend \/ MainThread PROVE Goal
  BY <1>2, <1>4 DEF Client, ClientInitialize, ClientRequest, ClientPicks, Backend,
     AnswerClient, AnswerCall, ServerChoose, MainThread, TakeRequest, ForwardRequest, TakeSave,
     TakeReply, work
<1>5. ASSUME PumpThread \/ Calls \/ UNCHANGED vars PROVE Goal
  BY <1>2, <1>5 DEF PumpThread, PumpFastPath, PumpCallReply, PumpClientAnswer,
     PumpChooseAction, PumpNoSession, Calls, StartCall, SendCall, TimeoutCall, vars, work
<1>6. ASSUME NEW m \in Manual, ControlReload(m) PROVE Goal
  BY <1>2, <1>6 DEF ControlReload, work
<1> HIDE DEF Goal
<1>7. Goal
  BY <1>3, <1>4, <1>5, <1>6 DEF Next
<1> QED
  BY <1>7 DEF Goal

LEMMA StuckNext == TypeInv /\ Stuck /\ [Next]_vars => Stuck'
<1> SUFFICES ASSUME TypeInv, Stuck, [Next]_vars, NEW w \in dead'
             PROVE AtLink(w)' /\ ThisUri(w)' \in PanicUri
  BY DEF Stuck
<1>1. jobs'[w] = jobs[w] /\ w \in Worker
  BY DeadStay
<1>2. AtLink(w) /\ ThisUri(w) \in PanicUri
  BY DeadStay DEF Stuck
<1>3. jobs[w].id \in ClientId /\ answers[jobs[w].id] # None
  BY <1>1, <1>2, LinkTypes, NoneAssumption DEF AtLink, ClientId
<1>4. answers'[jobs[w].id] = answers[jobs[w].id]
  BY <1>3, AnswersKept
<1>5. Links(w)' = Links(w)
  BY <1>1, <1>4 DEF Links
<1> QED
  BY <1>1, <1>2, <1>5 DEF AtLink, ThisUri

\* A worker that has panicked stays at the archive URI it died of.
THEOREM StuckInvariant == Spec => []Stuck
<1>1. TypeInv /\ Stuck /\ [Next]_vars => Stuck'
  BY StuckNext
<1> QED
  BY <1>1, StuckInit, TypeInvariant, PTL DEF Spec

LEMMA HeldOnePlace ==
    ASSUME TypeInv, Held, NEW c \in ClientId
    PROVE IF answers[c] = None THEN Places(c) = {}
          ELSE \E place \in Places(c) : Places(c) = {place}
<1> DEFINE InPipe == {<<"stdout", i>> : i \in {j \in DOMAIN stdout : stdout[j] = c}}
           InQueue == {<<"queue", i>> : i \in {j \in DOMAIN workQueue : workQueue[j] = c}}
           InJob == {<<IF w \in dead THEN "lost" ELSE "job", w>> :
                       w \in {v \in Worker : jobs[v] # None /\ jobs[v].id = c}}
           AtClient == {<<"client", k>> : k \in DOMAIN received[c]}
<1>1. Places(c) = InPipe \cup InQueue \cup InJob \cup AtClient
  BY DEF Places
<1>2. /\ ~Has(stdout, c) => InPipe = {}
      /\ ~Has(workQueue, c) => InQueue = {}
      /\ ~WithWorker(c) => InJob = {}
  BY DEF Has, WithWorker
<1>3. received[c] \in Seq(Seq(Outcome)) /\ Len(received[c]) <= 1
  BY SeqTypes DEF Held, Stages, InOneStage
<1>4. received[c] = <<>> => AtClient = {}
  OBVIOUS
<1>5. received[c] # <<>> => AtClient = {<<"client", 1>>}
  <2> SUFFICES ASSUME received[c] # <<>> PROVE DOMAIN received[c] = {1}
    OBVIOUS
  <2> PICK r : r = received[c]
    OBVIOUS
  <2>1. r \in Seq(Seq(Outcome)) /\ Len(r) <= 1 /\ r # <<>>
    BY <1>3
  <2>2. Len(r) \in Nat /\ Len(r) # 0 /\ DOMAIN r = 1..Len(r)
    BY <2>1, EmptySeq, LenProperties
  <2> QED
    BY <2>1, <2>2
<1>6. Has(stdout, c) => \E i : InPipe = {<<"stdout", i>>}
  BY DEF Has, Held, NoRepetition, Distinct
<1>7. Has(workQueue, c) => \E i : InQueue = {<<"queue", i>>}
  BY DEF Has, Held, NoRepetition, Distinct
<1>8. WithWorker(c) => \E place : InJob = {place}
  <2> SUFFICES ASSUME NEW w \in Worker, jobs[w] # None, jobs[w].id = c
               PROVE InJob = {<<IF w \in dead THEN "lost" ELSE "job", w>>}
    BY DEF WithWorker
  <2>1. {v \in Worker : jobs[v] # None /\ jobs[v].id = c} = {w}
    BY DEF Held, NoRepetition, OneWorker
  <2> QED
    BY <2>1
<1> HIDE DEF InPipe, InQueue, InJob, AtClient
<1>9. InOneStage(c) /\ (answers[c] # None <=> InSomeStage(c))
  BY DEF Held, Stages
<1> QED
  BY <1>1, <1>2, <1>4, <1>5, <1>6, <1>7, <1>8, <1>9 DEF InOneStage, InSomeStage

LEMMA LostForCause ==
    ASSUME TypeInv, Stuck, NEW c \in ClientId, NEW w \in Worker, <<"lost", w>> \in Places(c)
    PROVE \E i \in DOMAIN answers[c].links : answers[c].links[i] \in PanicUri
<1>1. w \in dead /\ jobs[w].id = c
  BY DEF Places
<1>2. AtLink(w) /\ ThisUri(w) \in PanicUri
  BY <1>1 DEF Stuck
<1> DEFINE i == Len(jobs[w].done) + 1
<1>3. /\ Links(w) \in Seq(Uri) /\ Len(Links(w)) \in Nat
      /\ Len(jobs[w].done) \in Nat /\ Len(jobs[w].done) < Len(Links(w))
  BY <1>2, LinkTypes DEF AtLink
<1>4. i \in DOMAIN Links(w)
  BY <1>3, LenProperties
<1> QED
  BY <1>1, <1>2, <1>4 DEF Links, ThisUri

LEMMA HeldOnce == TypeInv /\ Held /\ Stuck => AnswerHeldOnce
  BY HeldOnePlace, LostForCause DEF AnswerHeldOnce

\* From the moment the backend answers a client request, the answer is in one
\* place: the pump and the workers do not send it twice, and lose it only with the
\* worker that has died of an archive URI in it.
THEOREM AnswersHeldOnce == Spec => []AnswerHeldOnce
  BY HeldInvariant, StuckInvariant, HeldOnce, PTL

-----------------------------------------------------------------------------
(* A request is asked, then taken by the main thread, then written, then    *)
(* answered; no step is skipped and none is repeated.                       *)

Sent ==
    /\ Distinct(stdin, ClientId)
    /\ hand # None => hand \in asked /\ hand \notin written /\ ~Has(stdin, hand)
    /\ \A c \in ClientId :
          /\ Has(stdin, c) => c \in asked /\ c \notin written
          /\ c \in written => c \in asked
          /\ answers[c] # None => c \in written

LEMMA SentInit == Init => Sent
  BY DEF Init, Sent, Distinct, Has

LEMMA SentUnchanged ==
    ASSUME Sent, UNCHANGED <<asked, stdin, hand, answers>>,
           written' \cap ClientId = written \cap ClientId, hand \in ClientId \cup {None}
    PROVE Sent'
  BY DEF Sent, Has, Distinct

\* The client sends a new request or a save, or answers a prompt.
LEMMA SentMore ==
    ASSUME TypeInv, Sent, NEW id \in ClientId \cup SaveId \cup ProxyId,
           id \in ClientId => id \notin asked,
           asked \subseteq asked', id \in ClientId => id \in asked',
           stdin' = Append(stdin, id), UNCHANGED <<hand, written, answers>>
    PROVE Sent'
<1>1. id \in ClientId => ~Has(stdin, id)
  BY DEF Sent
<1>2. /\ Distinct(stdin', ClientId)
      /\ \A x : Has(stdin', x) <=> Has(stdin, x) \/ x = id
  BY <1>1, SeqTypes, AppendDistinct DEF Sent
<1>3. hand \in ClientId \cup {None}
  BY DEF TypeInv, TypeOK, OtherType
<1> QED
  BY <1>2, <1>3 DEF Sent

LEMMA SentClient == TypeInv /\ Sent /\ Client => Sent'
<1> SUFFICES ASSUME TypeInv, Sent, Client PROVE Sent'
  OBVIOUS
<1>1. CASE ClientInitialize
  BY <1>1, SentMore DEF ClientInitialize, ClientSends, ClientId, backend, work
<1>2. ASSUME NEW id \in NavId \cup PlainId \cup SaveId, ClientRequest(id) PROVE Sent'
  BY <1>2, SentMore DEF ClientRequest, ClientSends, ClientId, backend, work
<1>3. ASSUME NEW p \in ProxyId, NEW t \in Title \cup {"dismissed"}, ClientPicks(p, t)
      PROVE Sent'
  <2>1. p \notin ClientId
    BY IdsDisjoint DEF ClientId
  <2> QED
    BY <1>3, <2>1, SentMore DEF ClientPicks, backend
<1> QED
  BY <1>1, <1>2, <1>3 DEF Client

\* The main thread takes the next frame of the client.
LEMMA SentMainThread == TypeInv /\ Sent /\ MainThread => Sent'
<1> SUFFICES ASSUME TypeInv, Sent, MainThread PROVE Sent'
  OBVIOUS
<1>1. hand \in ClientId \cup {None} /\ None \notin ClientId
  BY NoneAssumption DEF TypeInv, TypeOK, OtherType
<1>2. ASSUME stdin # <<>>
      PROVE /\ Distinct(Tail(stdin), ClientId)
            /\ \A x : Has(stdin, x) <=> x = Head(stdin) \/ Has(Tail(stdin), x)
            /\ Head(stdin) \in ClientId => ~Has(Tail(stdin), Head(stdin))
  BY <1>2, SeqTypes, TailDistinct DEF Sent
<1>3. CASE TakeRequest
  <2>1. /\ stdin # <<>> /\ Head(stdin) \in ClientId
        /\ hand' = Head(stdin) /\ stdin' = Tail(stdin)
        /\ UNCHANGED <<asked, written, answers>>
    BY <1>3 DEF TakeRequest, backend
  <2> QED
    BY <1>2, <2>1 DEF Sent
<1>4. CASE ForwardRequest
  <2>1. /\ hand # None /\ hand' = None /\ written' = written \cup {hand}
        /\ UNCHANGED <<asked, stdin, answers>>
    BY <1>4 DEF ForwardRequest, client
  <2> QED
    BY <1>1, <2>1 DEF Sent, Has, Distinct
<1>5. CASE TakeSave
  <2>1. /\ stdin # <<>> /\ Head(stdin) \in SaveId /\ hand = None
        /\ stdin' = Tail(stdin) /\ written' = written \cup {Head(stdin)}
        /\ UNCHANGED <<asked, hand, answers>>
    BY <1>5 DEF TakeSave
  <2>2. Head(stdin) \notin ClientId
    BY <2>1, IdsDisjoint DEF ClientId
  <2> QED
    BY <1>2, <2>1, <2>2 DEF Sent
<1>6. CASE TakeReply
  <2>1. /\ stdin # <<>> /\ hand = None /\ stdin' = Tail(stdin)
        /\ UNCHANGED <<asked, hand, written, answers>>
    BY <1>6 DEF TakeReply, backend
  <2> QED
    BY <1>2, <2>1 DEF Sent
<1> QED
  BY <1>3, <1>4, <1>5, <1>6 DEF MainThread

LEMMA SentNext == TypeInv /\ Sent /\ [Next]_vars => Sent'
<1> SUFFICES ASSUME TypeInv, Sent, [Next]_vars PROVE Sent'
  OBVIOUS
<1>1. hand \in ClientId \cup {None}
  BY DEF TypeInv, TypeOK, OtherType
<1>2. CASE UNCHANGED vars
  BY <1>1, <1>2, SentUnchanged DEF vars, client, backend
<1>3. CASE Client
  BY <1>3, SentClient
<1>4. CASE Backend
  <2>1. ASSUME NEW c \in ClientId, NEW a \in AnswersTo[c], AnswerClient(c, a) PROVE Sent'
    <3>1. /\ c \in written /\ UNCHANGED <<asked, stdin, hand, written>>
          /\ \A x \in ClientId : x # c => answers'[x] = answers[x]
      BY <2>1 DEF AnswerClient, client, TypeInv, TypeOK, BackendType
    <3> QED
      BY <3>1, <1>1 DEF Sent, Has, Distinct
  <2>2. ASSUME NEW p \in ProxyId, NEW r \in {"ok", "empty", "error"}, AnswerCall(p, r)
        PROVE Sent'
    BY <1>1, <2>2, SentUnchanged DEF AnswerCall, client
  <2>3. ASSUME NEW s \in Session, ServerChoose(s) PROVE Sent'
    BY <1>1, <2>3, SentUnchanged DEF ServerChoose, client
  <2> QED
    BY <1>4, <2>1, <2>2, <2>3 DEF Backend
<1>5. CASE MainThread
  BY <1>5, SentMainThread
<1>6. CASE PumpThread
  BY <1>1, <1>6, SentUnchanged
     DEF PumpThread, PumpFastPath, PumpCallReply, PumpClientAnswer, PumpChooseAction, PumpNoSession, client
<1>7. CASE Calls
  <2>1. ASSUME NEW t \in spawned, StartCall(t) PROVE Sent'
    BY <1>1, <2>1, SentUnchanged DEF StartCall, client, backend
  <2>2. ASSUME NEW p \in ProxyId, SendCall(p) PROVE Sent'
    <3>1. p \notin ClientId
      BY IdsDisjoint DEF ClientId
    <3> QED
      BY <1>1, <2>2, <3>1, SentUnchanged DEF SendCall, client
  <2>3. ASSUME NEW p \in ProxyId, TimeoutCall(p) PROVE Sent'
    BY <1>1, <2>3, SentUnchanged DEF TimeoutCall, client, backend
  <2> QED
    BY <1>7, <2>1, <2>2, <2>3 DEF Calls
<1>8. ASSUME NEW w \in Worker, WorkerStep(w) PROVE Sent'
  BY <1>1, <1>8, SentUnchanged
     DEF WorkerStep, TakeJob, Panic, CacheHit, CacheMiss, StoreFile, StoreFails, NoCode, FinishJob,
         client, backend
<1>9. ASSUME NEW m \in Manual, ControlReload(m) PROVE Sent'
  BY <1>1, <1>9, SentUnchanged DEF ControlReload, client, backend
<1> QED
  BY <1>2, <1>3, <1>4, <1>5, <1>6, <1>7, <1>8, <1>9 DEF Next

-----------------------------------------------------------------------------
(* The relay implements Relay: each step of the proxy is one step of the    *)
(* abstract relay or leaves it where it is.                                 *)

LEMMA RelayInit == Init => Relaying!Init
<1> SUFFICES ASSUME Init PROVE Relaying!Init
  OBVIOUS
<1>1. Asked = {} /\ Forwarded = {} /\ Answered = {}
  BY DEF Init, Asked, Forwarded, Answered
<1>2. Deliveries = [c \in ClientId |-> 0]
  BY DEF Init, Deliveries, ClientId
<1>3. Fatal = [w \in Worker |-> None]
  BY DEF Init, Fatal
<1> QED
  BY <1>1, <1>2, <1>3 DEF Relaying!Init

\* The abstract state depends on six variables only.
LEMMA RelayStutter ==
    ASSUME asked' \cap ClientId = asked \cap ClientId,
           written' \cap ClientId = written \cap ClientId,
           UNCHANGED <<answers, received, jobs, dead>>
    PROVE UNCHANGED Relaying!vars
  BY DEF Relaying!vars, Asked, Forwarded, Answered, Deliveries, Fatal

\* What has killed a worker is with that worker.
LEMMA FatalAnswers ==
    ASSUME TypeInv, Stuck, NEW c \in ClientId
    PROVE /\ Relaying!Lost(c) <=> \E w \in dead : jobs[w].id = c
          /\ Relaying!Lost(c) => WithWorker(c)
<1>1. dead \subseteq Worker /\ c # None
  BY NoneAssumption DEF TypeInv, TypeOK, WorkType
<1>2. Relaying!Lost(c) <=> \E w \in dead : jobs[w].id = c
  BY <1>1 DEF Relaying!Lost, Fatal
<1> QED
  BY <1>1, <1>2 DEF Stuck, AtLink, WithWorker

\* An answer reaches the client: the abstract Deliver.
LEMMA RelayDeliver ==
    ASSUME TypeInv, NEW c \in ClientId, NEW o \in Seq(Outcome), Deliver(c, o),
           received[c] = <<>>, answers[c] # None, ~Relaying!Lost(c),
           UNCHANGED <<asked, written, answers, Fatal>>
    PROVE Relaying!Next
<1>1. /\ received'[c] = Append(received[c], o)
      /\ \A x \in ClientId : x # c => received'[x] = received[x]
  BY DeliverTypes DEF TypeInv, TypeOK
<1>2. Len(received'[c]) = 1
  BY <1>1
<1>3. Deliveries' = [Deliveries EXCEPT ![c] = 1] /\ Deliveries[c] = 0
  BY <1>1, <1>2 DEF Deliveries
<1>4. c \in Answered /\ UNCHANGED <<Asked, Forwarded, Answered>>
  BY DEF Answered, Asked, Forwarded
<1> QED
  BY <1>3, <1>4 DEF Relaying!Next, Relaying!Deliver

LEMMA RelayClient == Client => [Relaying!Next]_(Relaying!vars)
<1> SUFFICES ASSUME Client PROVE [Relaying!Next]_(Relaying!vars)
  OBVIOUS
<1>1. ASSUME NEW id \in ClientId \cup SaveId, id \notin asked, asked' = asked \cup {id},
             UNCHANGED <<received, written, answers, jobs, dead>>
      PROVE [Relaying!Next]_(Relaying!vars)
  <2>1. CASE id \in ClientId
    <3>1. id \notin Asked /\ Asked' = Asked \cup {id}
      BY <1>1, <2>1 DEF Asked
    <3>2. UNCHANGED <<Forwarded, Answered, Deliveries, Fatal>>
      BY <1>1 DEF Forwarded, Answered, Deliveries, Fatal
    <3> QED
      BY <2>1, <3>1, <3>2 DEF Relaying!Next, Relaying!Ask
  <2>2. CASE id \notin ClientId
    BY <1>1, <2>2, RelayStutter
  <2> QED
    BY <2>1, <2>2
<1>2. CASE ClientInitialize
  BY <1>1, <1>2 DEF ClientInitialize, ClientSends, ClientId, backend, work
<1>3. ASSUME NEW id \in NavId \cup PlainId \cup SaveId, ClientRequest(id)
      PROVE [Relaying!Next]_(Relaying!vars)
  BY <1>1, <1>3 DEF ClientRequest, ClientSends, ClientId, backend, work
<1>4. ASSUME NEW p \in ProxyId, NEW t \in Title \cup {"dismissed"}, ClientPicks(p, t)
      PROVE [Relaying!Next]_(Relaying!vars)
  BY <1>4, RelayStutter DEF ClientPicks, backend, work
<1> QED
  BY <1>2, <1>3, <1>4 DEF Client

LEMMA RelayBackend == TypeInv /\ Backend => [Relaying!Next]_(Relaying!vars)
<1> SUFFICES ASSUME TypeInv, Backend PROVE [Relaying!Next]_(Relaying!vars)
  OBVIOUS
<1>1. ASSUME NEW c \in ClientId, NEW a \in AnswersTo[c], AnswerClient(c, a)
      PROVE [Relaying!Next]_(Relaying!vars)
  <2>1. a # None /\ answers[c] = None /\ c \in written
    BY <1>1, AnswersAssumption, NoneAssumption DEF AnswerClient
  <2>2. \A x \in ClientId : answers'[x] = IF x = c THEN a ELSE answers[x]
    BY <1>1 DEF AnswerClient, TypeInv, TypeOK, BackendType
  <2>3. Answered' = Answered \cup {c} /\ c \in Forwarded \ Answered
    BY <2>1, <2>2 DEF Answered, Forwarded
  <2>4. UNCHANGED <<Asked, Forwarded, Deliveries, Fatal>>
    BY <1>1 DEF AnswerClient, client, work, Asked, Forwarded, Deliveries, Fatal
  <2> QED
    BY <2>3, <2>4 DEF Relaying!Next, Relaying!Give
<1>2. ASSUME NEW p \in ProxyId, NEW r \in {"ok", "empty", "error"}, AnswerCall(p, r)
      PROVE [Relaying!Next]_(Relaying!vars)
  BY <1>2, RelayStutter DEF AnswerCall, client, work
<1>3. ASSUME NEW s \in Session, ServerChoose(s) PROVE [Relaying!Next]_(Relaying!vars)
  BY <1>3, RelayStutter DEF ServerChoose, client, work
<1> QED
  BY <1>1, <1>2, <1>3 DEF Backend

LEMMA RelayMainThread == TypeInv /\ Sent /\ MainThread => [Relaying!Next]_(Relaying!vars)
<1> SUFFICES ASSUME TypeInv, Sent, MainThread PROVE [Relaying!Next]_(Relaying!vars)
  OBVIOUS
<1>1. CASE TakeRequest
  BY <1>1, RelayStutter DEF TakeRequest, backend, work
<1>2. CASE ForwardRequest
  <2>1. hand \in ClientId /\ hand \in asked /\ hand \notin written
    BY <1>2 DEF ForwardRequest, Sent, TypeInv, TypeOK, OtherType
  <2>2. hand \in Asked \ Forwarded /\ Forwarded' = Forwarded \cup {hand}
    BY <1>2, <2>1 DEF ForwardRequest, Asked, Forwarded
  <2>3. UNCHANGED <<Asked, Answered, Deliveries, Fatal>>
    BY <1>2 DEF ForwardRequest, client, work, Asked, Answered, Deliveries, Fatal
  <2> QED
    BY <2>1, <2>2, <2>3 DEF Relaying!Next, Relaying!Forward
<1>3. CASE TakeSave
  <2>1. Head(stdin) \notin ClientId
    BY <1>3, IdsDisjoint DEF TakeSave, ClientId
  <2> QED
    BY <1>3, <2>1, RelayStutter DEF TakeSave, work
<1>4. CASE TakeReply
  BY <1>4, RelayStutter DEF TakeReply, backend, work
<1> QED
  BY <1>1, <1>2, <1>3, <1>4 DEF MainThread

LEMMA RelayPumpThread ==
    TypeInv /\ Held /\ Stuck /\ PumpThread => [Relaying!Next]_(Relaying!vars)
<1> SUFFICES ASSUME TypeInv, Held, Stuck, PumpThread PROVE [Relaying!Next]_(Relaying!vars)
  OBVIOUS
<1> PICK c : c = Head(stdout)
  OBVIOUS
<1>1. ASSUME stdout # <<>>, c \in ClientId
      PROVE /\ received[c] = <<>> /\ answers[c] # None /\ ~Relaying!Lost(c)
            /\ Untouched(c) \in Seq(Outcome)
  <2>1. Has(stdout, c)
    BY <1>1, SeqTypes, TailDistinct DEF Held, NoRepetition
  <2>2. received[c] = <<>> /\ answers[c] # None /\ ~WithWorker(c)
    BY <1>1, <2>1 DEF Held, Stages, InOneStage, InSomeStage
  <2> QED
    BY <1>1, <2>2, UntouchedTypes, FatalAnswers DEF TypeInv, TypeOK
<1>2. CASE PumpFastPath
  BY <1>1, <1>2, RelayDeliver DEF PumpFastPath, work, Fatal
<1>3. CASE PumpCallReply
  BY <1>3, RelayStutter DEF PumpCallReply, Swallow, work
<1>4. CASE PumpClientAnswer
  <2>1. CASE c \in navRequests
    BY <1>4, <2>1, RelayStutter DEF PumpClientAnswer, Route
  <2>2. CASE c \notin navRequests
    BY <1>1, <1>4, <2>2, RelayDeliver DEF PumpClientAnswer, Route, Fatal
  <2> QED
    BY <2>1, <2>2
<1>5. CASE PumpChooseAction
  BY <1>5, RelayStutter DEF PumpChooseAction, work
<1>6. CASE PumpNoSession
  BY <1>6, RelayStutter DEF PumpNoSession, client, work
<1> QED
  BY <1>2, <1>3, <1>4, <1>5, <1>6 DEF PumpThread

LEMMA RelayWorker ==
    ASSUME TypeInv, Held, Stuck, NEW w \in Worker, WorkerStep(w)
    PROVE [Relaying!Next]_(Relaying!vars)
<1>1. w \notin dead
  BY LiveWorker
<1>2. ASSUME jobs[w] # None, NEW c \in ClientId, c = jobs[w].id
      PROVE received[c] = <<>> /\ answers[c] # None /\ ~Relaying!Lost(c)
  <2>1. WithWorker(c)
    BY <1>2 DEF WithWorker
  <2>2. received[c] = <<>> /\ answers[c] # None
    BY <2>1 DEF Held, Stages, InOneStage, InSomeStage
  <2>3. \A v \in dead : v \in Worker /\ jobs[v] # None
    BY DEF Stuck, AtLink, TypeInv, TypeOK, WorkType
  <2>4. \A v \in dead : jobs[v].id # c
    BY <1>1, <1>2, <2>3 DEF Held, NoRepetition, OneWorker
  <2> QED
    BY <2>2, <2>4, FatalAnswers
<1>3. ASSUME dead' = dead PROVE UNCHANGED Fatal
  <2>1. \A v \in Worker : v \in dead => jobs'[v] = jobs[v]
    BY <1>1, OtherJobs
  <2> QED
    BY <1>3, <2>1 DEF Fatal
<1>4. CASE FinishJob(w)
  <2> PICK c : c = jobs[w].id
    OBVIOUS
  <2>1. jobs[w] # None /\ c \in ClientId /\ jobs[w].done \in Seq(Outcome)
    BY <1>4, LinkTypes, SeqTypes DEF FinishJob
  <2>2. UNCHANGED Fatal
    BY <1>3, <1>4 DEF FinishJob
  <2>3. received[c] = <<>> /\ answers[c] # None /\ ~Relaying!Lost(c)
    BY <1>2, <2>1
  <2>4. Deliver(c, jobs[w].done) /\ UNCHANGED <<asked, written, answers>>
    BY <1>4 DEF FinishJob, backend
  <2> QED
    BY <2>1, <2>2, <2>3, <2>4, RelayDeliver
<1>5. CASE Panic(w)
  <2> PICK c : c = jobs[w].id
    OBVIOUS
  <2>1. jobs[w] # None /\ c \in ClientId /\ c \in NavId
    BY <1>5, LinkTypes, SeqTypes DEF Panic, AtLink
  <2>2. received[c] = <<>> /\ answers[c] # None /\ ~Relaying!Lost(c)
    BY <1>2, <2>1
  <2>3. /\ UNCHANGED <<asked, written, answers, received, jobs>> /\ dead' = dead \cup {w}
    BY <1>5 DEF Panic, client, backend
  <2>4. Fatal[w] = None /\ Fatal' = [Fatal EXCEPT ![w] = c]
    BY <1>1, <2>3 DEF Fatal
  <2>5. c \in Answered /\ Deliveries[c] = 0
    BY <2>1, <2>2 DEF Answered, Deliveries
  <2>6. UNCHANGED <<Asked, Forwarded, Answered, Deliveries>>
    BY <2>3 DEF Asked, Forwarded, Answered, Deliveries
  <2>7. Relaying!Die(w, c)
    BY <2>1, <2>2, <2>4, <2>5, <2>6 DEF Relaying!Die
  <2> QED
    BY <2>1, <2>7 DEF Relaying!Next
<1>6. CASE ~FinishJob(w) /\ ~Panic(w)
  <2>1. UNCHANGED <<asked, written, answers, received, dead>>
    BY <1>6 DEF WorkerStep, TakeJob, CacheHit, CacheMiss, StoreFile, StoreFails, NoCode,
       client, backend
  <2>2. UNCHANGED Fatal
    BY <1>3, <2>1
  <2> QED
    BY <2>1, <2>2 DEF Relaying!vars, Asked, Forwarded, Answered, Deliveries
<1> QED
  BY <1>4, <1>5, <1>6

LEMMA RelayStep ==
    TypeInv /\ Held /\ Stuck /\ Sent /\ [Next]_vars => [Relaying!Next]_(Relaying!vars)
<1> SUFFICES ASSUME TypeInv, Held, Stuck, Sent, [Next]_vars
             PROVE [Relaying!Next]_(Relaying!vars)
  OBVIOUS
<1>1. CASE UNCHANGED vars
  BY <1>1, RelayStutter DEF vars, client, backend, work
<1>2. CASE Client
  BY <1>2, RelayClient
<1>3. CASE Backend
  BY <1>3, RelayBackend
<1>4. CASE MainThread
  BY <1>4, RelayMainThread
<1>5. CASE PumpThread
  BY <1>5, RelayPumpThread
<1>6. CASE Calls
  <2>1. ASSUME NEW t \in spawned, StartCall(t) PROVE [Relaying!Next]_(Relaying!vars)
    BY <2>1, RelayStutter DEF StartCall, client, backend, work
  <2>2. ASSUME NEW p \in ProxyId, SendCall(p) PROVE [Relaying!Next]_(Relaying!vars)
    <3>1. p \notin ClientId
      BY IdsDisjoint DEF ClientId
    <3> QED
      BY <2>2, <3>1, RelayStutter DEF SendCall, client, work
  <2>3. ASSUME NEW p \in ProxyId, TimeoutCall(p) PROVE [Relaying!Next]_(Relaying!vars)
    BY <2>3, RelayStutter DEF TimeoutCall, client, backend, work
  <2> QED
    BY <1>6, <2>1, <2>2, <2>3 DEF Calls
<1>7. ASSUME NEW w \in Worker, WorkerStep(w) PROVE [Relaying!Next]_(Relaying!vars)
  BY <1>7, RelayWorker
<1>8. ASSUME NEW m \in Manual, ControlReload(m) PROVE [Relaying!Next]_(Relaying!vars)
  BY <1>8, RelayStutter DEF ControlReload, client, backend, work
<1> QED
  BY <1>1, <1>2, <1>3, <1>4, <1>5, <1>6, <1>7, <1>8 DEF Next

\* A request is forwarded once, in the order of the client's pipe, and answered
\* only after that.
THEOREM SentInvariant == Spec => []Sent
  BY SentInit, SentNext, TypeInvariant, PTL DEF Spec

\* The pumps, the queue and the workers together are a relay: every request is
\* forwarded once, and its answer delivered at most once and not before it is given;
\* each worker takes at most one answer with it, and no other is lost.
THEOREM RelayImplemented == Spec => RelaySafety
<1>1. Init => Relaying!Init
  BY RelayInit
<1>2. TypeInv /\ Held /\ Stuck /\ Sent /\ [Next]_vars => [Relaying!Next]_(Relaying!vars)
  BY RelayStep
<1> QED
  BY <1>1, <1>2, HeldInvariant, StuckInvariant, SentInvariant, PTL DEF Spec, RelaySafety, Relaying!Spec

-----------------------------------------------------------------------------
(* A navigation request is in nav_requests from before it is written until  *)
(* the pump takes its answer.                                               *)

Awaited(c) == c \in written /\ (answers[c] = None \/ Has(stdout, c))

Tracking == \A c \in NavId : c = hand \/ Awaited(c) => c \in navRequests

LEMMA TrackingInit == Init => Tracking
  BY NoneAssumption DEF Init, Tracking, Awaited, ClientId

\* A step that makes nothing awaited and forgets nothing.
LEMMA TrackingKept ==
    ASSUME Tracking, UNCHANGED <<hand, navRequests>>,
           \A c \in NavId : Awaited(c)' => Awaited(c)
    PROVE Tracking'
  BY DEF Tracking

LEMMA TrackingBackend == TypeInv /\ Held /\ Sent /\ Tracking /\ Backend => Tracking'
<1> SUFFICES ASSUME TypeInv, Held, Sent, Tracking, Backend PROVE Tracking'
  OBVIOUS
<1>1. ASSUME NEW e \in ClientId \cup ProxyId \cup Session,
             stdout' = Append(stdout, e), UNCHANGED <<written, hand, navRequests>>,
             \A c \in ClientId : c # e => answers'[c] = answers[c],
             e \in ClientId => answers[e] = None
      PROVE Tracking'
  <2>1. e \in ClientId => ~Has(stdout, e)
    BY <1>1 DEF Held, Stages, InSomeStage
  <2>2. \A x : Has(stdout', x) <=> Has(stdout, x) \/ x = e
    BY <1>1, <2>1, SeqTypes, AppendDistinct DEF Held, NoRepetition
  <2>3. \A c \in NavId : Awaited(c)' => Awaited(c)
    BY <1>1, <2>2, SeqTypes DEF Awaited
  <2> QED
    BY <1>1, <2>3, TrackingKept
<1>2. ASSUME NEW c \in ClientId, NEW a \in AnswersTo[c], AnswerClient(c, a) PROVE Tracking'
  <2>1. \A x \in ClientId : x # c => answers'[x] = answers[x]
    BY <1>2 DEF AnswerClient, TypeInv, TypeOK, BackendType
  <2> QED
    BY <1>1, <1>2, <2>1 DEF AnswerClient
<1>3. ASSUME NEW p \in ProxyId, NEW r \in {"ok", "empty", "error"}, AnswerCall(p, r)
      PROVE Tracking'
  <2>1. p \notin ClientId
    BY IdsDisjoint DEF ClientId
  <2> QED
    BY <1>1, <1>3, <2>1 DEF AnswerCall
<1>4. ASSUME NEW s \in Session, ServerChoose(s) PROVE Tracking'
  <2>1. s \notin ClientId
    BY <1>4, IdsDisjoint DEF ClientId
  <2> QED
    BY <1>1, <1>4, <2>1 DEF ServerChoose
<1> QED
  BY <1>2, <1>3, <1>4 DEF Backend

LEMMA TrackingMainThread == TypeInv /\ Tracking /\ MainThread => Tracking'
<1> SUFFICES ASSUME TypeInv, Tracking, MainThread PROVE Tracking'
  OBVIOUS
<1>1. CASE TakeRequest
  <2>1. /\ hand' = Head(stdin) /\ navRequests' = navRequests \cup Tracked(Head(stdin))
        /\ UNCHANGED <<written, answers, stdout>>
    BY <1>1 DEF TakeRequest, backend
  <2> QED
    BY <2>1 DEF Tracking, Awaited, Tracked, Has
<1>2. CASE ForwardRequest
  <2>1. /\ hand # None /\ hand' = None /\ written' = written \cup {hand}
        /\ UNCHANGED <<navRequests, answers, stdout>>
    BY <1>2 DEF ForwardRequest
  <2>2. None \notin NavId
    BY NoneAssumption DEF ClientId
  <2> QED
    BY <2>1, <2>2 DEF Tracking, Awaited, Has
<1>3. CASE TakeSave
  <2>1. /\ Head(stdin) \in SaveId /\ written' = written \cup {Head(stdin)}
        /\ UNCHANGED <<hand, navRequests, answers, stdout>>
    BY <1>3 DEF TakeSave
  <2>2. Head(stdin) \notin NavId
    BY <2>1, IdsDisjoint
  <2>3. \A c \in NavId : Awaited(c)' => Awaited(c)
    BY <2>1, <2>2 DEF Awaited, Has
  <2> QED
    BY <2>1, <2>3, TrackingKept
<1>4. CASE TakeReply
  BY <1>4, TrackingKept DEF TakeReply, backend, Awaited, Has
<1> QED
  BY <1>1, <1>2, <1>3, <1>4 DEF MainThread

\* The pump forgets a request only with the answer in its hands.
LEMMA TrackingPumpThread == TypeInv /\ Held /\ Sent /\ Tracking /\ PumpThread => Tracking'
<1> SUFFICES ASSUME TypeInv, Held, Sent, Tracking, PumpThread PROVE Tracking'
  OBVIOUS
<1> PICK h : h = Head(stdout)
  OBVIOUS
<1>1. stdout # <<>> /\ stdout' = Tail(stdout) /\ UNCHANGED <<written, answers, hand>>
  BY DEF PumpThread, PumpFastPath, PumpCallReply, PumpClientAnswer, PumpChooseAction,
     PumpNoSession, client
<1>2. /\ \A x : Has(stdout, x) <=> x = h \/ Has(stdout', x)
      /\ h \in ClientId => ~Has(stdout', h)
  BY <1>1, SeqTypes, TailDistinct DEF Held, NoRepetition
<1>3. \A c \in NavId : Awaited(c)' => Awaited(c)
  BY <1>1, <1>2 DEF Awaited
<1>4. CASE PumpClientAnswer
  <2>1. navRequests' = navRequests \ {h} /\ h \in ClientId
    BY <1>4 DEF PumpClientAnswer
  <2>2. answers[h] # None
    BY <1>2, <2>1 DEF Held, Stages, InSomeStage
  <2>3. ~Awaited(h)'
    BY <1>1, <1>2, <2>1, <2>2 DEF Awaited
  <2>4. h # hand
    BY <2>1, <2>2, NoneAssumption DEF Sent
  <2> QED
    BY <1>1, <1>3, <2>1, <2>3, <2>4 DEF Tracking
<1>5. CASE ~PumpClientAnswer
  <2>1. navRequests' = navRequests
    BY <1>5 DEF PumpThread, PumpFastPath, PumpCallReply, PumpChooseAction, PumpNoSession, client
  <2> QED
    BY <1>1, <1>3, <2>1, TrackingKept
<1> QED
  BY <1>4, <1>5

LEMMA TrackingNext ==
    TypeInv /\ Held /\ Sent /\ Tracking /\ [Next]_vars => Tracking'
<1> SUFFICES ASSUME TypeInv, Held, Sent, Tracking, [Next]_vars PROVE Tracking'
  OBVIOUS
<1>1. ASSUME UNCHANGED <<hand, navRequests, written, answers, stdout>> PROVE Tracking'
  BY <1>1, TrackingKept DEF Awaited, Has
<1>2. CASE UNCHANGED vars
  BY <1>1, <1>2 DEF vars, backend
<1>3. CASE Client
  BY <1>1, <1>3 DEF Client, ClientInitialize, ClientRequest, ClientPicks, backend
<1>4. CASE Backend
  BY <1>4, TrackingBackend
<1>5. CASE MainThread
  BY <1>5, TrackingMainThread
<1>6. CASE PumpThread
  BY <1>6, TrackingPumpThread
<1>7. CASE Calls
  <2>1. ASSUME NEW t \in spawned, StartCall(t) PROVE Tracking'
    BY <1>1, <2>1 DEF StartCall, backend
  <2>2. ASSUME NEW p \in ProxyId, SendCall(p) PROVE Tracking'
    <3>1. p \notin NavId
      BY IdsDisjoint
    <3>2. UNCHANGED <<hand, navRequests>> /\ \A c \in NavId : Awaited(c)' => Awaited(c)
      BY <2>2, <3>1 DEF SendCall, Awaited, Has
    <3> QED
      BY <3>2, TrackingKept
  <2>3. ASSUME NEW p \in ProxyId, TimeoutCall(p) PROVE Tracking'
    BY <1>1, <2>3 DEF TimeoutCall, backend
  <2> QED
    BY <1>7, <2>1, <2>2, <2>3 DEF Calls
<1>8. ASSUME NEW w \in Worker, WorkerStep(w) PROVE Tracking'
  BY <1>1, <1>8
     DEF WorkerStep, TakeJob, Panic, CacheHit, CacheMiss, StoreFile, StoreFails, NoCode, FinishJob,
         backend
<1>9. ASSUME NEW m \in Manual, ControlReload(m) PROVE Tracking'
  BY <1>1, <1>9 DEF ControlReload, backend
<1> QED
  BY <1>2, <1>3, <1>4, <1>5, <1>6, <1>7, <1>8, <1>9 DEF Next

\* Whenever the answer to a navigation request arrives, the pump knows that it
\* is one: the request was registered before it was forwarded.
THEOREM NavAlwaysRecognised == Spec => []NavRecognised
<1>1. TypeInv /\ Held /\ Sent /\ Tracking /\ [Next]_vars => Tracking'
  BY TrackingNext
<1>2. Tracking => NavRecognised
  BY DEF Tracking, NavRecognised, Awaited, Has
<1> QED
  BY <1>1, <1>2, TrackingInit, HeldInvariant, SentInvariant, PTL DEF Spec

-----------------------------------------------------------------------------
(* The calls. An id not taken yet is unknown to everybody; a  *)
(* call is registered before it is written, and written before it is        *)
(* answered.                                                                *)

Fresh == \A p \in ProxyId : p >= nextProxyId => calls[p] = None /\ prompts[p] = None

OnePurpose == \A p \in ProxyId : calls[p] = None \/ prompts[p] = None

WrittenCalls ==
    \A p \in ProxyId \cap written : calls[p] # None /\ calls[p].status # "registered"

RepliedCalls ==
    \A p \in ProxyId :
        /\ replies[p] # None => p \in written
        /\ calls[p] # None /\ calls[p].status \in {"ok", "empty", "error"}
              => replies[p] # None

Unseen == \A p \in ProxyId : received[p] = <<>>

CallInv ==
    /\ Fresh /\ OnePurpose /\ CallerReachable
    /\ WrittenCalls /\ RepliedCalls /\ Unseen

LEMMA CallInit == Init => CallInv
  BY NoneAssumption
     DEF Init, CallInv, Fresh, OnePurpose, CallerReachable, CallIs, WrittenCalls,
         RepliedCalls, Unseen, ClientId

\* A step that concerns no call.
LEMMA CallElsewhere ==
    ASSUME CallInv, UNCHANGED <<calls, prompts, replies, nextProxyId, pendingServer>>,
           written' \cap ProxyId = written \cap ProxyId,
           \A p \in ProxyId : received'[p] = received[p]
    PROVE CallInv' /\ UNCHANGED Rpcs!vars
<1>1. UNCHANGED RpcState
  BY DEF RpcState, CallState
<1> QED
  BY <1>1 DEF CallInv, Fresh, OnePurpose, CallerReachable, CallIs, WrittenCalls,
     RepliedCalls, Unseen, Rpcs!vars

\* The client gets an answer of its own, and no answer to a call.
LEMMA DeliverElsewhere ==
    ASSUME TypeInv, NEW c \in ClientId, NEW o \in Seq(Outcome), Deliver(c, o)
    PROVE \A p \in ProxyId : received'[p] = received[p]
<1>1. c \notin ProxyId
  BY IdsDisjoint DEF ClientId
<1> QED
  BY <1>1, DeliverTypes DEF TypeInv, TypeOK

\* The abstract step, from what happens to one id.
LEMMA StateStep ==
    ASSUME NEW p \in ProxyId, \A q \in ProxyId : q # p => CallState(q)' = CallState(q)
    PROVE RpcState' = [RpcState EXCEPT ![p] = CallState(p)'] /\ RpcState[p] = CallState(p)
  BY DEF RpcState

-----------------------------------------------------------------------------
(* The steps of a call.                                                     *)

LEMMA RegisterCalls ==
    ASSUME TypeInv, CallInv, NEW m \in Method, NEW a \in Cause, Register(m, a),
           UNCHANGED <<prompts, replies, written, received>>
    PROVE CallInv' /\ Rpcs!Next
<1> PICK n : n = nextProxyId
  OBVIOUS
<1> DEFINE call == [method |-> m, arg |-> a, status |-> "registered"]
<1>1. /\ n \in ProxyId /\ nextProxyId' = n + 1 /\ pendingServer' = pendingServer \cup {n}
      /\ calls' = [calls EXCEPT ![n] = call]
  BY DEF Register, Remember
<1>2. call \in Call /\ call # None /\ call.status = "registered"
  BY NoneAssumption DEF Call, CallStatus
<1>3. calls'[n] = call /\ \A p \in ProxyId : p # n => calls'[p] = calls[p]
  BY <1>1 DEF TypeInv, TypeOK, RpcType
<1>4. calls[n] = None /\ prompts[n] = None /\ n \notin written /\ replies[n] = None
  <2>1. n >= n
    BY <1>1 DEF ProxyId
  <2> QED
    BY <1>1, <2>1 DEF CallInv, Fresh, WrittenCalls, RepliedCalls
<1> HIDE DEF call
<1>5. Fresh'
  BY <1>1, <1>3 DEF CallInv, Fresh, ProxyId
<1>6. OnePurpose' /\ WrittenCalls' /\ RepliedCalls' /\ Unseen'
  BY <1>2, <1>3, <1>4 DEF CallInv, OnePurpose, WrittenCalls, RepliedCalls, Unseen
<1>7. CallerReachable'
  BY <1>1, <1>3 DEF CallInv, CallerReachable, CallIs
<1>8. CallState(n) = "free" /\ CallState(n)' = "open"
  BY <1>2, <1>3, <1>4 DEF CallState
<1>9. \A p \in ProxyId : p # n => CallState(p)' = CallState(p)
  BY <1>3 DEF CallState
<1>10. Rpcs!Take(n)
  BY <1>1, <1>8, <1>9, StateStep DEF Rpcs!Take
<1> QED
  BY <1>1, <1>5, <1>6, <1>7, <1>10 DEF CallInv, Rpcs!Next

LEMMA SendCalls ==
    ASSUME TypeInv, CallInv, NEW p \in ProxyId, SendCall(p)
    PROVE CallInv' /\ UNCHANGED Rpcs!vars
<1>1. /\ calls[p] # None /\ calls[p].status = "registered"
      /\ calls' = [calls EXCEPT ![p].status = "waiting"] /\ written' = written \cup {p}
      /\ UNCHANGED <<prompts, replies, received, nextProxyId, pendingServer>>
  BY DEF SendCall, CallIs, client
<1>2. calls[p] \in Call
  BY <1>1 DEF TypeInv, TypeOK, RpcType
<1>3. /\ calls'[p] \in Call /\ calls'[p] # None /\ calls'[p].status = "waiting"
      /\ \A q \in ProxyId : q # p => calls'[q] = calls[q]
  BY <1>1, <1>2, NoneAssumption DEF TypeInv, TypeOK, RpcType, Call, CallStatus
<1>4. Fresh' /\ OnePurpose' /\ WrittenCalls' /\ RepliedCalls' /\ Unseen'
  BY <1>1, <1>3 DEF CallInv, Fresh, OnePurpose, WrittenCalls, RepliedCalls, Unseen
<1>5. CallerReachable'
  BY <1>1, <1>3 DEF CallInv, CallerReachable, CallIs
<1>6. \A q \in ProxyId : CallState(q)' = CallState(q)
  BY <1>1, <1>3 DEF CallState
<1>7. UNCHANGED RpcState
  BY <1>6 DEF RpcState
<1> QED
  BY <1>1, <1>4, <1>5, <1>7 DEF CallInv, Rpcs!vars

\* A wait ends, with a reply or without.
LEMMA WaitEnds ==
    ASSUME TypeInv, CallInv, NEW p \in ProxyId, CallIs(p, "waiting"),
           NEW r \in {"ok", "empty", "error", "timeout"},
           r # "timeout" => replies[p] = r,
           calls' = [calls EXCEPT ![p].status = r],
           pendingServer \ {p} \subseteq pendingServer',
           UNCHANGED <<prompts, replies, received, nextProxyId, written>>
    PROVE CallInv' /\ Rpcs!Next
<1>1. calls[p] \in Call /\ calls[p] # None /\ calls[p].status = "waiting"
  BY DEF TypeInv, TypeOK, RpcType, CallIs
<1>2. /\ calls'[p] \in Call /\ calls'[p] # None /\ calls'[p].status = r
      /\ \A q \in ProxyId : q # p => calls'[q] = calls[q]
  BY <1>1, NoneAssumption DEF TypeInv, TypeOK, RpcType, Call, CallStatus
<1>3. Fresh' /\ OnePurpose' /\ WrittenCalls' /\ Unseen'
  BY <1>1, <1>2 DEF CallInv, Fresh, OnePurpose, WrittenCalls, Unseen
<1>4. r # "timeout" => replies[p] # None
  BY NoneAssumption
<1>5. RepliedCalls'
  BY <1>2, <1>4 DEF CallInv, RepliedCalls
<1>6. CallerReachable'
  BY <1>2 DEF CallInv, CallerReachable, CallIs
<1>7. CallState(p) = "open" /\ CallState(p)' = r
  BY <1>1, <1>2 DEF CallInv, OnePurpose, CallState
<1>8. \A q \in ProxyId : q # p => CallState(q)' = CallState(q)
  BY <1>2 DEF CallState
<1>9. RpcState[p] = "open" /\ RpcState' = [RpcState EXCEPT ![p] = r]
  BY <1>7, <1>8, StateStep
<1>10. Rpcs!Conclude(p)
  BY <1>4, <1>9 DEF Rpcs!Conclude
<1> QED
  BY <1>3, <1>5, <1>6, <1>10 DEF CallInv, Rpcs!Next

\* The answer to a call leaves the pipe.
LEMMA ReplyCalls ==
    ASSUME TypeInv, CallInv, PumpCallReply
    PROVE CallInv' /\ [Rpcs!Next]_(Rpcs!vars)
<1> PICK p : p = Head(stdout)
  OBVIOUS
<1>1. /\ p \in ProxyId /\ pendingServer' = pendingServer \ {p}
      /\ calls' = IF Wakes(p) THEN [calls EXCEPT ![p].status = replies[p]] ELSE calls
      /\ UNCHANGED <<prompts, replies, received, nextProxyId, written>>
  BY DEF PumpCallReply, Swallow
<1>2. replies[p] # None /\ replies[p] \in {"ok", "empty", "error"}
  <2>1. stdout # <<>>
    BY DEF PumpCallReply
  <2>2. replies[p] # None
    BY <1>1, <2>1, TailElements DEF TypeInv, TypeOK, BackendType, Existing, StdoutExists
  <2> QED
    BY <1>1, <2>2 DEF TypeInv, TypeOK, BackendType
<1>3. CASE Wakes(p)
  <2>1. CallIs(p, "waiting") /\ calls' = [calls EXCEPT ![p].status = replies[p]]
    BY <1>1, <1>3 DEF Wakes
  <2> QED
    BY <1>1, <1>2, <2>1, WaitEnds
<1>4. CASE ~Wakes(p)
  <2>1. UNCHANGED <<calls, prompts, replies, received, nextProxyId, written>>
    BY <1>1, <1>4
  <2>2. p \in written
    BY <1>1, <1>2 DEF CallInv, RepliedCalls
  <2>3. ~CallIs(p, "waiting") /\ ~CallIs(p, "registered")
    BY <1>1, <1>4, <2>2 DEF CallInv, CallerReachable, WrittenCalls, CallIs, Wakes
  <2>4. CallerReachable'
    BY <1>1, <2>1, <2>3 DEF CallInv, CallerReachable, CallIs
  <2>5. UNCHANGED RpcState
    BY <2>1 DEF RpcState, CallState
  <2> QED
    BY <2>1, <2>4, <2>5
       DEF CallInv, Fresh, OnePurpose, WrittenCalls, RepliedCalls, Unseen, Rpcs!vars
<1> QED
  BY <1>3, <1>4

\* The backend replies to a call, be it in time or not.
LEMMA BackendCalls ==
    ASSUME TypeInv, CallInv, NEW p \in ProxyId, NEW r \in {"ok", "empty", "error"},
           AnswerCall(p, r)
    PROVE CallInv' /\ Rpcs!Next
<1>1. /\ p \in written /\ replies[p] = None /\ replies' = [replies EXCEPT ![p] = r]
      /\ UNCHANGED <<calls, prompts, received, nextProxyId, written, pendingServer>>
  BY DEF AnswerCall, client, rpc
<1>2. r # None
  BY NoneAssumption
<1>3. \A q \in ProxyId : replies'[q] = IF q = p THEN r ELSE replies[q]
  BY <1>1 DEF TypeInv, TypeOK, BackendType
<1>4. CallInv'
  BY <1>1, <1>2, <1>3
     DEF CallInv, Fresh, OnePurpose, CallerReachable, CallIs, WrittenCalls, RepliedCalls, Unseen
<1>5. calls[p] # None /\ calls[p].status \in {"waiting", "timeout"} /\ prompts[p] = None
  <2>1. calls[p] # None /\ calls[p].status # "registered"
    BY <1>1 DEF CallInv, WrittenCalls
  <2>2. calls[p].status \in CallStatus
    BY <2>1 DEF TypeInv, TypeOK, RpcType, Call
  <2>3. calls[p].status \notin {"ok", "empty", "error"}
    BY <1>1, <2>1 DEF CallInv, RepliedCalls
  <2> QED
    BY <2>1, <2>2, <2>3 DEF CallStatus, CallInv, OnePurpose
<1>6. RpcState[p] \in {"open", "timeout"}
  BY <1>5 DEF RpcState, CallState
<1>7. UNCHANGED RpcState
  BY <1>1 DEF RpcState, CallState
<1>8. Rpcs!Reply(p, r)
  BY <1>1, <1>6, <1>7 DEF Rpcs!Reply
<1> QED
  BY <1>4, <1>8 DEF Rpcs!Next

\* A prompt takes the next id.
LEMMA PromptCalls ==
    ASSUME TypeInv, CallInv, PumpChooseAction
    PROVE CallInv' /\ Rpcs!Next
<1> PICK n : n = nextProxyId
  OBVIOUS
<1> PICK s : s = Head(stdout)
  OBVIOUS
<1>1. /\ n \in ProxyId /\ nextProxyId' = n + 1 /\ s \in Session
      /\ prompts' = [prompts EXCEPT ![n] = s]
      /\ UNCHANGED <<calls, replies, received, written, pendingServer>>
  BY DEF PumpChooseAction
<1>2. prompts'[n] = s /\ \A p \in ProxyId : p # n => prompts'[p] = prompts[p]
  BY <1>1 DEF TypeInv, TypeOK, ClientType
<1>3. calls[n] = None /\ prompts[n] = None
  <2>1. n >= n
    BY <1>1 DEF ProxyId
  <2> QED
    BY <1>1, <2>1 DEF CallInv, Fresh
<1>4. s # None
  BY <1>1, NoneAssumption
<1>5. Fresh'
  BY <1>1, <1>2 DEF CallInv, Fresh, ProxyId
<1>6. CallInv'
  BY <1>1, <1>2, <1>3, <1>5
     DEF CallInv, OnePurpose, CallerReachable, CallIs, WrittenCalls, RepliedCalls, Unseen
<1>7. CallState(n) = "free" /\ CallState(n)' = "prompt"
  BY <1>2, <1>3, <1>4 DEF CallState
<1>8. \A p \in ProxyId : p # n => CallState(p)' = CallState(p)
  BY <1>1, <1>2 DEF CallState
<1>9. Rpcs!Take(n)
  BY <1>1, <1>7, <1>8, StateStep DEF Rpcs!Take
<1> QED
  BY <1>1, <1>6, <1>9 DEF Rpcs!Next

LEMMA CallNext == TypeInv /\ CallInv /\ [Next]_vars => CallInv' /\ [Rpcs!Next]_(Rpcs!vars)
<1> SUFFICES ASSUME TypeInv, CallInv, [Next]_vars
             PROVE CallInv' /\ [Rpcs!Next]_(Rpcs!vars)
  OBVIOUS
<1>1. CASE UNCHANGED vars
  BY <1>1, CallElsewhere DEF vars, client, backend, rpc
<1>2. CASE Client
  BY <1>2, CallElsewhere
     DEF Client, ClientInitialize, ClientRequest, ClientPicks, backend, rpc
<1>3. CASE Backend
  <2>1. ASSUME NEW c \in ClientId, NEW a \in AnswersTo[c], AnswerClient(c, a)
        PROVE CallInv' /\ [Rpcs!Next]_(Rpcs!vars)
    BY <2>1, CallElsewhere DEF AnswerClient, client, rpc
  <2>2. ASSUME NEW s \in Session, ServerChoose(s)
        PROVE CallInv' /\ [Rpcs!Next]_(Rpcs!vars)
    BY <2>2, CallElsewhere DEF ServerChoose, client, rpc
  <2> QED
    BY <1>3, <2>1, <2>2, BackendCalls DEF Backend
<1>4. CASE MainThread
  <2>1. CASE TakeRequest
    BY <2>1, CallElsewhere DEF TakeRequest, backend, rpc
  <2>2. CASE ForwardRequest
    <3>1. hand \in ClientId /\ hand \notin ProxyId
      BY <2>2, IdsDisjoint DEF ForwardRequest, TypeInv, TypeOK, OtherType, ClientId
    <3> QED
      BY <2>2, <3>1, CallElsewhere DEF ForwardRequest, client, rpc
  <2>3. CASE TakeSave
    <3>1. Head(stdin) \notin ProxyId
      BY <2>3, IdsDisjoint DEF TakeSave
    <3> QED
      BY <2>3, <3>1, CallElsewhere DEF TakeSave, rpc
  <2>4. CASE TakeReply
    BY <2>4, CallElsewhere DEF TakeReply, backend, rpc
  <2> QED
    BY <1>4, <2>1, <2>2, <2>3, <2>4 DEF MainThread
<1>5. CASE PumpThread
  <2>1. ASSUME stdout # <<>>, Head(stdout) \in ClientId
        PROVE Untouched(Head(stdout)) \in Seq(Outcome)
    <3>1. answers[Head(stdout)] # None
      BY <2>1, TailElements DEF TypeInv, TypeOK, BackendType, Existing, StdoutExists
    <3> QED
      BY <2>1, <3>1, UntouchedTypes DEF TypeInv, TypeOK
  <2>2. CASE PumpFastPath
    BY <2>1, <2>2, DeliverElsewhere, CallElsewhere DEF PumpFastPath, rpc
  <2>3. CASE PumpClientAnswer
    <3>1. \A p \in ProxyId : received'[p] = received[p]
      BY <2>1, <2>3, DeliverElsewhere DEF PumpClientAnswer, Route
    <3> QED
      BY <2>3, <3>1, CallElsewhere DEF PumpClientAnswer, rpc
  <2>4. CASE PumpNoSession
    BY <2>4, CallElsewhere DEF PumpNoSession, client, rpc
  <2> QED
    BY <1>5, <2>2, <2>3, <2>4, ReplyCalls, PromptCalls DEF PumpThread
<1>6. CASE Calls
  <2>1. ASSUME NEW t \in spawned, StartCall(t) PROVE CallInv' /\ [Rpcs!Next]_(Rpcs!vars)
    <3>1. t.method \in Method /\ t.arg \in Cause
      BY DEF TypeInv, TypeOK, OtherType, Thread
    <3> QED
      BY <2>1, <3>1, RegisterCalls DEF StartCall, client, backend
  <2>2. ASSUME NEW p \in ProxyId, TimeoutCall(p) PROVE CallInv' /\ [Rpcs!Next]_(Rpcs!vars)
    BY <2>2, WaitEnds DEF TimeoutCall, client, backend
  <2> QED
    BY <1>6, <2>1, <2>2, SendCalls DEF Calls
<1>7. ASSUME NEW w \in Worker, WorkerStep(w)
      PROVE CallInv' /\ [Rpcs!Next]_(Rpcs!vars)
  <2>1. CASE FinishJob(w)
    <3>1. \A p \in ProxyId : received'[p] = received[p]
      BY <2>1, LinkTypes, DeliverElsewhere DEF FinishJob, ClientId
    <3> QED
      BY <2>1, <3>1, CallElsewhere DEF FinishJob, backend, rpc
  <2>2. CASE CacheMiss(w)
    <3>1. ThisUri(w) \in Cause
      BY <2>2, LinkTypes DEF CacheMiss, AtLink, Cause
    <3> QED
      BY <2>2, <3>1, RegisterCalls DEF CacheMiss, Method, client, backend
  <2>3. CASE ~FinishJob(w) /\ ~CacheMiss(w)
    <3>1. UNCHANGED <<calls, prompts, replies, nextProxyId, pendingServer, written, received>>
      BY <1>7, <2>3 DEF WorkerStep, TakeJob, Panic, CacheHit, StoreFile, StoreFails, NoCode,
         client, backend, rpc
    <3> QED
      BY <3>1, CallElsewhere
  <2> QED
    BY <2>1, <2>2, <2>3
<1>8. ASSUME NEW m \in Manual, ControlReload(m) PROVE CallInv' /\ [Rpcs!Next]_(Rpcs!vars)
  BY <1>8, CallElsewhere DEF ControlReload, client, backend, rpc
<1> QED
  BY <1>1, <1>2, <1>3, <1>4, <1>5, <1>6, <1>7, <1>8 DEF Next

-----------------------------------------------------------------------------
\* The invariant of the calls: an id not drawn yet is unknown, one that waits is
\* in pending_server, a call is registered before it is written and written
\* before it is answered, and the client has received nothing of it.
THEOREM CallInvariant == Spec => []CallInv
<1>1. TypeInv /\ CallInv /\ [Next]_vars => CallInv'
  BY CallNext
<1> QED
  BY <1>1, CallInit, TypeInvariant, PTL DEF Spec

\* As long as a caller waits, its entry is in pending_server, whatever the
\* other calls do.
THEOREM CallersReachable == Spec => []CallerReachable
<1>1. CallInv => CallerReachable
  BY DEF CallInv
<1> QED
  BY <1>1, CallInvariant, PTL

\* No answer to a call of the proxy is relayed to the client.
THEOREM TrafficSwallowed == Spec => []ProxyTrafficSwallowed
<1>1. CallInv => ProxyTrafficSwallowed
  BY DEF CallInv, Unseen, WrittenCalls, ProxyTrafficSwallowed
<1> QED
  BY <1>1, CallInvariant, PTL

\* An id of next_proxy_id names one call or one prompt; a call ends once, with
\* the reply to that id or with a timeout, and a late reply changes nothing.
THEOREM RpcImplemented == Spec => RpcSafety
<1>1. Init => Rpcs!Init
  BY DEF Init, Rpcs!Init, RpcState, CallState
<1>2. TypeInv /\ CallInv /\ [Next]_vars => [Rpcs!Next]_(Rpcs!vars)
  BY CallNext
<1> QED
  BY <1>1, <1>2, TypeInvariant, CallInvariant, PTL DEF Spec, RpcSafety, Rpcs!Spec


-----------------------------------------------------------------------------
(* What may become of a call in a step: nothing, the end of its wait, or    *)
(* that it begins, for a thread or for a worker.                            *)

LEMMA NewCall ==
    ASSUME TypeInv, CallInv, NEW m \in Method, NEW a \in Cause, Register(m, a)
    PROVE /\ nextProxyId \in ProxyId /\ calls[nextProxyId] = None
          /\ calls'[nextProxyId] # None
          /\ calls'[nextProxyId].method = m /\ calls'[nextProxyId].arg = a
          /\ \A q \in ProxyId : q # nextProxyId => calls'[q] = calls[q]
<1> PICK n : n = nextProxyId
  OBVIOUS
<1> DEFINE call == [method |-> m, arg |-> a, status |-> "registered"]
<1>1. n \in ProxyId /\ calls' = [calls EXCEPT ![n] = call]
  BY DEF Register
<1>2. call \in Call /\ call # None /\ call.method = m /\ call.arg = a
  BY NoneAssumption DEF Call, CallStatus
<1> HIDE DEF call
<1>3. calls'[n] = call /\ \A q \in ProxyId : q # n => calls'[q] = calls[q]
  BY <1>1 DEF TypeInv, TypeOK, RpcType
<1>4. calls[n] = None
  <2>1. n >= n
    BY <1>1 DEF ProxyId
  <2> QED
    BY <1>1, <2>1 DEF CallInv, Fresh
<1> QED
  BY <1>1, <1>2, <1>3, <1>4

Begins(p) ==
    /\ calls[p] = None /\ calls'[p] # None
    /\ \A q \in ProxyId : q # p => calls'[q] = calls[q]
    /\ \/ \E t \in spawned : /\ spawned' = spawned \ {t}
                             /\ calls'[p].method = t.method /\ calls'[p].arg = t.arg
       \/ spawned' = spawned /\ calls'[p].method = "decompile"

Proceeds(p) ==
    /\ calls[p] # None /\ calls[p].status \in {"registered", "waiting"}
    /\ calls'[p] # None
    /\ calls'[p].method = calls[p].method /\ calls'[p].arg = calls[p].arg

\* A new status for a call.
LEMMA NewStatus ==
    ASSUME TypeInv, NEW p \in ProxyId, calls[p] # None,
           calls[p].status \in {"registered", "waiting"},
           NEW s \in CallStatus, calls' = [calls EXCEPT ![p].status = s]
    PROVE Proceeds(p) /\ \A q \in ProxyId : q # p => calls'[q] = calls[q]
<1>1. calls[p] \in Call /\ calls \in [ProxyId -> Call \cup {None}]
  BY DEF TypeInv, TypeOK, RpcType
<1>2. /\ calls'[p] = [calls[p] EXCEPT !.status = s]
      /\ \A q \in ProxyId : q # p => calls'[q] = calls[q]
  BY <1>1
<1>3. /\ calls'[p] \in Call
      /\ calls'[p].method = calls[p].method /\ calls'[p].arg = calls[p].arg
  BY <1>1, <1>2 DEF Call
<1> QED
  BY <1>2, <1>3, NoneAssumption DEF Proceeds

LEMMA CallHistory ==
    ASSUME TypeInv, CallInv, [Next]_vars
    PROVE \A p \in ProxyId : calls'[p] = calls[p] \/ Proceeds(p) \/ Begins(p)
<1> DEFINE Goal == \A p \in ProxyId : calls'[p] = calls[p] \/ Proceeds(p) \/ Begins(p)
<1>1. ASSUME NEW t \in spawned, StartCall(t) PROVE Goal
  <2>1. t.method \in Method /\ t.arg \in Cause
    BY DEF TypeInv, TypeOK, OtherType, Thread
  <2>2. Register(t.method, t.arg) /\ spawned' = spawned \ {t}
    BY <1>1 DEF StartCall
  <2> QED
    BY <2>1, <2>2, NewCall DEF Begins
<1>2. ASSUME NEW w \in Worker, CacheMiss(w) PROVE Goal
  <2>1. ThisUri(w) \in Cause /\ "decompile" \in Method
    BY <1>2, LinkTypes DEF CacheMiss, AtLink, Cause, Method
  <2>2. Register("decompile", ThisUri(w)) /\ spawned' = spawned
    BY <1>2 DEF CacheMiss
  <2> QED
    BY <2>1, <2>2, NewCall DEF Begins
<1>3. ASSUME NEW p \in ProxyId, SendCall(p) \/ TimeoutCall(p) PROVE Goal
  <2>1. calls[p] # None /\ calls[p].status \in {"registered", "waiting"}
    BY <1>3 DEF SendCall, TimeoutCall, CallIs
  <2>2. PICK s \in CallStatus : calls' = [calls EXCEPT ![p].status = s]
    BY <1>3 DEF SendCall, TimeoutCall, CallStatus
  <2> QED
    BY <2>1, <2>2, NewStatus
<1>4. ASSUME PumpCallReply PROVE Goal
  <2> PICK p : p = Head(stdout)
    OBVIOUS
  <2>1. /\ p \in ProxyId /\ stdout # <<>>
        /\ calls' = IF Wakes(p) THEN [calls EXCEPT ![p].status = replies[p]] ELSE calls
    BY <1>4 DEF PumpCallReply
  <2>2. replies[p] \in CallStatus
    BY <2>1, TailElements, NoneAssumption
       DEF TypeInv, TypeOK, BackendType, Existing, StdoutExists, CallStatus
  <2>3. CASE Wakes(p)
    <3>1. calls[p] # None /\ calls[p].status = "waiting"
      BY <2>3 DEF Wakes, CallIs
    <3> QED
      BY <2>1, <2>2, <2>3, <3>1, NewStatus
  <2> QED
    BY <2>1, <2>3
<1>5. ASSUME UNCHANGED calls PROVE Goal
  BY <1>5
<1>6. ASSUME Client \/ MainThread PROVE Goal
  BY <1>5, <1>6
     DEF Client, ClientInitialize, ClientRequest, ClientPicks, MainThread, TakeRequest,
         ForwardRequest, TakeSave, TakeReply, rpc
<1>7. ASSUME Backend PROVE Goal
  BY <1>5, <1>7 DEF Backend, AnswerClient, AnswerCall, ServerChoose, rpc
<1>8. ASSUME PumpThread PROVE Goal
  BY <1>4, <1>5, <1>8 DEF PumpThread, PumpFastPath, PumpClientAnswer, PumpChooseAction, PumpNoSession, rpc
<1>9. ASSUME NEW w \in Worker, WorkerStep(w) PROVE Goal
  BY <1>2, <1>5, <1>9
     DEF WorkerStep, TakeJob, Panic, CacheHit, StoreFile, StoreFails, NoCode, FinishJob, rpc
<1>10. ASSUME NEW m \in Manual, ControlReload(m) PROVE Goal
  BY <1>5, <1>10 DEF ControlReload, rpc
<1>11. ASSUME Calls PROVE Goal
  BY <1>1, <1>3, <1>11 DEF Calls
<1>12. ASSUME UNCHANGED vars PROVE Goal
  BY <1>5, <1>12 DEF vars, rpc
<1> HIDE DEF Goal
<1>13. Goal
  BY <1>6, <1>7, <1>8, <1>9, <1>10, <1>11, <1>12 DEF Next
<1> QED
  BY <1>13 DEF Goal

-----------------------------------------------------------------------------
(* The options of the client. Before the initialize request is taken nothing *)
(* of the session has begun that could lead to a reload.                    *)

NotBegun ==
    /\ hand # InitId /\ InitId \notin written
    /\ \A s \in SaveId : ~Has(stdin, s)
    /\ \A t \in spawned : t.method # "reload"
    /\ \A p \in ProxyId : calls[p] # None => calls[p].method # "reload"

Begun == initOptions \/ bare

OptionsFirst ==
    /\ IF Begun THEN hand = InitId \/ InitId \in written ELSE NotBegun
    /\ ReloadCarriesOptions

LEMMA OptionsInit == Init => OptionsFirst
  BY NoneAssumption DEF Init, OptionsFirst, NotBegun, Begun, ReloadCarriesOptions, Has, ClientId

\* The calls of a step before the options have come.
LEMMA CallsBefore ==
    ASSUME TypeInv, CallInv, NotBegun, [Next]_vars
    PROVE \A p \in ProxyId : calls'[p] # None => calls'[p].method # "reload"
<1> SUFFICES ASSUME NEW p \in ProxyId, calls'[p] # None PROVE calls'[p].method # "reload"
  OBVIOUS
<1>1. calls'[p] = calls[p] \/ Proceeds(p) \/ Begins(p)
  BY CallHistory
<1> QED
  BY <1>1 DEF Proceeds, Begins, NotBegun

LEMMA TakesInitialize ==
    ASSUME TakeRequest, Head(stdin) = InitId
    PROVE Begun'
<1>1. PICK params \in BOOLEAN : initOptions' = params /\ bare' = ~params
  BY DEF TakeRequest
<1>2. CASE params = TRUE
  BY <1>1, <1>2 DEF Begun
<1>3. CASE params = FALSE
  BY <1>1, <1>3 DEF Begun
<1> QED
  BY <1>2, <1>3

LEMMA NotBegunNext ==
    ASSUME TypeInv, Held, Sent, CallInv, NotBegun, ~Begun, [Next]_vars, ~Begun'
    PROVE NotBegun'
<1>2. \A p \in ProxyId : calls'[p] # None => calls'[p].method # "reload"
  BY CallsBefore
<1>3. ASSUME UNCHANGED <<hand, written, stdin, spawned>> PROVE NotBegun'
  BY <1>2, <1>3 DEF NotBegun, Has
<1>4. CASE Client
  <2>1. ASSUME NEW id \in ClientId \cup ProxyId, stdin' = Append(stdin, id),
               UNCHANGED <<hand, written, spawned>>
        PROVE NotBegun'
    <3>1. id \notin SaveId
      BY IdsDisjoint DEF ClientId
    <3>2. \A s \in SaveId : Has(stdin', s) => Has(stdin, s)
      BY <2>1, <3>1, SeqTypes, AppendElements DEF Has
    <3> QED
      BY <1>2, <2>1, <3>2 DEF NotBegun
  <2>2. received[InitId] = <<>>
    BY DEF NotBegun, Held, Stages, InSomeStage, Sent, ClientId
  <2> QED
    BY <1>4, <2>1, <2>2
       DEF Client, ClientInitialize, ClientRequest, ClientPicks, ClientSends, ClientId, backend
<1>5. CASE Backend
  BY <1>3, <1>5 DEF Backend, AnswerClient, AnswerCall, ServerChoose, client
<1>6. CASE TakeRequest
  <2>1. /\ stdin # <<>> /\ stdin' = Tail(stdin) /\ hand' = Head(stdin)
        /\ UNCHANGED <<written, spawned>>
    BY <1>6 DEF TakeRequest, backend
  <2>2. Head(stdin) # InitId
    BY <1>6, TakesInitialize
  <2>3. \A x : Has(stdin', x) => Has(stdin, x)
    BY <2>1, SeqTypes, TailDistinct DEF Sent
  <2> QED
    BY <1>2, <2>1, <2>2, <2>3 DEF NotBegun
<1>7. CASE ForwardRequest
  BY <1>2, <1>7, NoneAssumption DEF ForwardRequest, NotBegun, client, Has, ClientId
<1>8. CASE TakeSave
  <2>1. Has(stdin, Head(stdin)) /\ Head(stdin) \in SaveId
    BY <1>8, SeqTypes, TailElements DEF TakeSave, Has
  <2> QED
    BY <2>1 DEF NotBegun
<1>9. CASE TakeReply
  <2>1. /\ stdin # <<>> /\ stdin' = Tail(stdin) /\ UNCHANGED <<hand, written>>
        /\ \A t \in spawned' : t \in spawned \/ t.method = "chooseMod"
    BY <1>9 DEF TakeReply, backend, Spawn
  <2>2. \A x : Has(stdin', x) => Has(stdin, x)
    BY <2>1, SeqTypes, TailDistinct DEF Sent
  <2> QED
    BY <1>2, <2>1, <2>2 DEF NotBegun
<1>10. CASE PumpThread
  <2>1. UNCHANGED <<hand, written, stdin>>
    BY <1>10 DEF PumpThread, PumpFastPath, PumpCallReply, PumpClientAnswer, PumpChooseAction,
       PumpNoSession, client
  <2>2. \A t \in spawned' : t \in spawned \/ t.method = "autoActivate"
    BY <1>10 DEF PumpThread, PumpFastPath, PumpCallReply, PumpClientAnswer, PumpChooseAction,
       PumpNoSession, Initialized, Discover, Spawn
  <2> QED
    BY <1>2, <2>1, <2>2 DEF NotBegun, Has
<1>11. CASE Calls
  <2>1. /\ UNCHANGED <<hand, stdin>> /\ spawned' \subseteq spawned
        /\ written' = written \/ \E p \in ProxyId : written' = written \cup {p}
    BY <1>11 DEF Calls, StartCall, SendCall, TimeoutCall, client, backend
  <2>2. InitId \notin ProxyId
    BY IdsDisjoint
  <2> QED
    BY <1>2, <2>1, <2>2 DEF NotBegun, Has
<1>12. ASSUME NEW w \in Worker, WorkerStep(w) PROVE NotBegun'
  BY <1>3, <1>12
     DEF WorkerStep, TakeJob, Panic, CacheHit, CacheMiss, StoreFile, StoreFails, NoCode, FinishJob,
         client, backend
<1>13. ASSUME NEW m \in Manual, ControlReload(m) PROVE NotBegun'
  BY <1>13 DEF ControlReload, ReloadAllowed, Begun
<1>14. CASE UNCHANGED vars
  BY <1>3, <1>14 DEF vars, client, backend
<1> QED
  BY <1>4, <1>5, <1>6, <1>7, <1>8, <1>9, <1>10, <1>11, <1>12, <1>13, <1>14 DEF Next, MainThread

\* Whether there are options is settled when the initialize request is taken.
LEMMA OptionsSettled ==
    ASSUME TypeInv, Sent, OptionsFirst, [Next]_vars
    PROVE \/ UNCHANGED <<initOptions, bare>>
          \/ NotBegun /\ Begun' /\ hand' = InitId /\ UNCHANGED <<spawned, calls>>
<1>1. CASE TakeRequest
  <2>1. CASE Head(stdin) = InitId
    <3>1. Has(stdin, InitId) /\ hand = None
      BY <1>1, <2>1, SeqTypes, TailElements DEF TakeRequest, Has
    <3>2. InitId \notin written /\ hand # InitId
      BY <3>1, NoneAssumption DEF Sent, ClientId
    <3>3. NotBegun
      BY <3>2 DEF OptionsFirst
    <3>4. Begun' /\ hand' = InitId /\ UNCHANGED <<spawned, calls>>
      BY <1>1, <2>1, TakesInitialize DEF TakeRequest, rpc
    <3> QED
      BY <3>3, <3>4
  <2>2. CASE Head(stdin) # InitId
    BY <1>1, <2>2 DEF TakeRequest
  <2> QED
    BY <2>1, <2>2
<1>2. CASE ~TakeRequest
  BY <1>2 DEF Next, Client, ClientInitialize, ClientRequest, ClientPicks, MainThread,
     ForwardRequest, TakeSave, TakeReply, Backend, AnswerClient, AnswerCall, ServerChoose,
     PumpThread, PumpFastPath, PumpCallReply, PumpClientAnswer, PumpChooseAction, PumpNoSession,
     Calls, StartCall, SendCall, TimeoutCall, WorkerStep, TakeJob, Panic, CacheHit, CacheMiss,
     StoreFile, StoreFails, NoCode, FinishJob, ControlReload, init, vars
<1> QED
  BY <1>1, <1>2

\* What becomes of the threads that are to reload.
LEMMA ReloadThreads ==
    ASSUME TypeInv, OptionsFirst, [Next]_vars, NEW t \in spawned', t.method = "reload"
    PROVE t \in spawned \/ initOptions \/ (bare /\ t.arg \in BuildSave)
<1> DEFINE Goal == t \in spawned \/ initOptions \/ (bare /\ t.arg \in BuildSave)
<1>1. ASSUME UNCHANGED spawned PROVE Goal
  BY <1>1
<1>2. ASSUME Client \/ Backend PROVE Goal
  BY <1>1, <1>2 DEF Client, ClientInitialize, ClientRequest, ClientPicks, Backend, AnswerClient,
     AnswerCall, ServerChoose
<1>3. ASSUME MainThread PROVE Goal
  <2>1. CASE TakeSave
    <3>1. Has(stdin, Head(stdin)) /\ Head(stdin) \in SaveId
      BY <2>1, SeqTypes, TailElements DEF TakeSave, Has
    <3>2. Begun
      BY <3>1 DEF OptionsFirst, NotBegun
    <3>3. t \in spawned \/ t.arg \in BuildSave
      BY <2>1 DEF TakeSave, ReloadAfter, Spawn
    <3> QED
      BY <3>2, <3>3 DEF Begun
  <2>2. CASE TakeRequest \/ ForwardRequest \/ TakeReply
    BY <2>2 DEF TakeRequest, ForwardRequest, TakeReply, Spawn
  <2> QED
    BY <1>3, <2>1, <2>2 DEF MainThread
<1>4. ASSUME PumpThread PROVE Goal
  BY <1>4 DEF PumpThread, PumpFastPath, PumpCallReply, PumpClientAnswer, PumpChooseAction,
     PumpNoSession, Initialized, Discover, Spawn
<1>5. ASSUME Calls PROVE Goal
  BY <1>5 DEF Calls, StartCall, SendCall, TimeoutCall
<1>6. ASSUME NEW w \in Worker, WorkerStep(w) PROVE Goal
  BY <1>1, <1>6 DEF WorkerStep, TakeJob, Panic, CacheHit, CacheMiss, StoreFile, StoreFails,
     NoCode, FinishJob
<1>7. ASSUME NEW m \in Manual, ControlReload(m) PROVE Goal
  BY <1>7 DEF ControlReload, ReloadAllowed
<1>8. ASSUME UNCHANGED vars PROVE Goal
  BY <1>1, <1>8 DEF vars
<1> HIDE DEF Goal
<1>9. Goal
  BY <1>2, <1>3, <1>4, <1>5, <1>6, <1>7, <1>8 DEF Next
<1> QED
  BY <1>9 DEF Goal

LEMMA OptionsNext ==
    TypeInv /\ Held /\ Sent /\ CallInv /\ OptionsFirst /\ [Next]_vars => OptionsFirst'
<1> SUFFICES ASSUME TypeInv, Held, Sent, CallInv, OptionsFirst, [Next]_vars
             PROVE OptionsFirst'
  OBVIOUS
<1>1. CASE NotBegun /\ Begun' /\ hand' = InitId /\ UNCHANGED <<spawned, calls>>
  <2>1. ReloadCarriesOptions'
    BY <1>1 DEF NotBegun, ReloadCarriesOptions
  <2> QED
    BY <1>1, <2>1 DEF OptionsFirst
<1>2. CASE UNCHANGED <<initOptions, bare>>
  <2>1. Begun' <=> Begun
    BY <1>2 DEF Begun
  <2>2. ASSUME ~Begun PROVE NotBegun'
    BY <2>1, <2>2, NotBegunNext DEF OptionsFirst
  <2>3. ASSUME Begun PROVE (hand = InitId \/ InitId \in written)'
    <3>1. hand = InitId \/ InitId \in written
      BY <2>3 DEF OptionsFirst
    <3>2. written \subseteq written' /\ (hand' = hand \/ hand = None \/ hand \in written')
      BY DEF Next, Client, ClientInitialize, ClientRequest, ClientPicks, MainThread, TakeRequest,
         ForwardRequest, TakeSave, TakeReply, Backend, AnswerClient, AnswerCall, ServerChoose,
         PumpThread, PumpFastPath, PumpCallReply, PumpClientAnswer, PumpChooseAction,
         PumpNoSession, Calls, StartCall, SendCall, TimeoutCall, WorkerStep, TakeJob, Panic,
         CacheHit, CacheMiss, StoreFile, StoreFails, NoCode, FinishJob, ControlReload, backend,
         vars
    <3>3. InitId # None
      BY NoneAssumption DEF ClientId
    <3> QED
      BY <3>1, <3>2, <3>3
  <2>4. \A t \in spawned' : t.method = "reload" => initOptions \/ (bare /\ t.arg \in BuildSave)
    BY ReloadThreads DEF OptionsFirst, ReloadCarriesOptions
  <2>5. ASSUME NEW p \in ProxyId, calls'[p] # None, calls'[p].method = "reload"
        PROVE initOptions \/ (bare /\ calls'[p].arg \in BuildSave)
    <3>1. calls'[p] = calls[p] \/ Proceeds(p) \/ Begins(p)
      BY CallHistory
    <3> QED
      BY <2>5, <3>1 DEF Proceeds, Begins, OptionsFirst, ReloadCarriesOptions
  <2>6. ReloadCarriesOptions'
    BY <1>2, <2>4, <2>5 DEF ReloadCarriesOptions
  <2> QED
    BY <2>1, <2>2, <2>3, <2>6 DEF OptionsFirst
<1> QED
  BY <1>1, <1>2, OptionsSettled

\* A reload, automatic or manual, is made only when the options of the client
\* are known: the client saves nothing before it has the answer to initialize.
\* The one exception is the automatic reload of a session whose initialize request
\* had no params.
THEOREM ReloadsHaveOptions == Spec => []ReloadCarriesOptions
<1>1. TypeInv /\ Held /\ Sent /\ CallInv /\ OptionsFirst /\ [Next]_vars => OptionsFirst'
  BY OptionsNext
<1>2. OptionsFirst => ReloadCarriesOptions
  BY DEF OptionsFirst
<1> QED
  BY <1>1, <1>2, OptionsInit, HeldInvariant, SentInvariant, CallInvariant, PTL DEF Spec

-----------------------------------------------------------------------------
(* The links of a navigation answer. Reason[o] is the set of URIs for which  *)
(* the outcome o is accounted for; it only grows.                           *)

Undecompiled ==
    {calls[p].arg : p \in {q \in ProxyId :
        /\ calls[q] # None /\ calls[q].method = "decompile"
        /\ calls[q].status \in WithoutCode}}

Reason == [o \in Outcome |-> IF o = "file" THEN cache ELSE writeFailed \cup Undecompiled]

LEMMA ReasonGrows ==
    ASSUME TypeInv, CallInv, [Next]_vars
    PROVE \A o \in Outcome : Reason[o] \subseteq Reason'[o]
<1>1. Undecompiled \subseteq Undecompiled'
  <2> SUFFICES ASSUME NEW p \in ProxyId, calls[p] # None, calls[p].method = "decompile",
                      calls[p].status \in WithoutCode
               PROVE calls[p].arg \in Undecompiled'
    BY DEF Undecompiled
  <2>1. calls'[p] = calls[p] \/ Proceeds(p) \/ Begins(p)
    BY CallHistory
  <2>2. calls'[p] = calls[p]
    BY <2>1 DEF Proceeds, Begins, WithoutCode
  <2> QED
    BY <2>2 DEF Undecompiled
<1>2. cache \subseteq cache' /\ writeFailed \subseteq writeFailed'
  <2>1. ASSUME NEW w \in Worker, WorkerStep(w)
        PROVE cache \subseteq cache' /\ writeFailed \subseteq writeFailed'
    BY <2>1 DEF WorkerStep, TakeJob, Panic, CacheHit, CacheMiss, StoreFile, StoreFails, NoCode,
       FinishJob, files
  <2>2. ASSUME NEW w \in Manual, ControlReload(w)
        PROVE cache \subseteq cache' /\ writeFailed \subseteq writeFailed'
    BY <2>2 DEF ControlReload, files
  <2>3. CASE Client \/ Backend \/ MainThread
    BY <2>3 DEF Client, ClientInitialize, ClientRequest, ClientPicks, Backend, AnswerClient,
       AnswerCall, ServerChoose, MainThread, TakeRequest, ForwardRequest, TakeSave, TakeReply,
       files
  <2>4. CASE PumpThread \/ Calls \/ UNCHANGED vars
    BY <2>4 DEF PumpThread, PumpFastPath, PumpCallReply, PumpClientAnswer, PumpChooseAction, PumpNoSession,
       Calls, StartCall, SendCall, TimeoutCall, vars, files
  <2> QED
    BY <2>1, <2>2, <2>3, <2>4 DEF Next
<1> QED
  BY <1>1, <1>2 DEF Reason

-----------------------------------------------------------------------------
(* The invariant: the calls of the workers ask for the link they are at,     *)
(* every link done has its reason, and so has every link delivered.         *)

AnswersGiven == \A c \in ClientId : answers[c] # None => answers[c] \in AnswersTo[c]

JobCalls ==
    \A w \in Worker : Calling(w) =>
        LET p == jobs[w].call
        IN  calls[p] # None /\ calls[p].method = "decompile" /\ calls[p].arg = ThisUri(w)

JobsReasoned ==
    \A w \in Worker : jobs[w] # None =>
        \A i \in DOMAIN jobs[w].done : Links(w)[i] \in Reason[jobs[w].done[i]]

Delivered ==
    \A c \in NavId : \A k \in DOMAIN received[c] :
        /\ DOMAIN received[c][k] = DOMAIN answers[c].links
        /\ \A i \in DOMAIN answers[c].links :
              answers[c].links[i] \in Reason[received[c][k][i]]

Resolving == AnswersGiven /\ JobCalls /\ JobsReasoned /\ Delivered

LEMMA ResolvingInit == Init => Resolving
  BY DEF Init, Resolving, AnswersGiven, JobCalls, Calling, JobsReasoned, Delivered, ClientId

-----------------------------------------------------------------------------
(* What may become of the job of a worker in a step.                        *)

Same(w) == jobs'[w] = jobs[w]
Idle(w) == jobs'[w] = None

Takes(w) ==
    jobs[w] = None /\ jobs'[w].id \in NavId /\ jobs'[w].done = <<>> /\ jobs'[w].call = 0

\* It keeps its answer and the links done.
Asks(w) ==
    /\ jobs[w] # None /\ Len(jobs[w].done) < Len(Links(w))
    /\ jobs'[w].id = jobs[w].id /\ jobs'[w].done = jobs[w].done
    /\ jobs'[w].call \in ProxyId
    /\ calls'[jobs'[w].call] # None
    /\ calls'[jobs'[w].call].method = "decompile"
    /\ calls'[jobs'[w].call].arg = ThisUri(w)

Settles(w) ==
    /\ jobs[w] # None /\ Len(jobs[w].done) < Len(Links(w))
    /\ jobs'[w].id = jobs[w].id /\ jobs'[w].call = 0
    /\ \E o \in Outcome : /\ jobs'[w].done = Append(jobs[w].done, o)
                          /\ ThisUri(w) \in Reason'[o]

JobStep(w) == Same(w) \/ Idle(w) \/ Takes(w) \/ Asks(w) \/ Settles(w)

LEMMA SettlesLink ==
    ASSUME TypeInv, NEW w \in Worker, jobs[w] # None, NEW o \in Outcome, LinkDone(w, o),
           Len(jobs[w].done) < Len(Links(w)), ThisUri(w) \in Reason'[o]
    PROVE Settles(w) /\ \A v \in Worker : v # w => Same(v)
<1> DEFINE j == [id |-> jobs[w].id, call |-> 0, done |-> Append(jobs[w].done, o)]
<1>1. jobs' = [jobs EXCEPT ![w] = j]
  BY DEF LinkDone
<1>2. j.id = jobs[w].id /\ j.call = 0 /\ j.done = Append(jobs[w].done, o)
  OBVIOUS
<1> HIDE DEF j
<1>3. jobs'[w] = j /\ \A v \in Worker : v # w => jobs'[v] = jobs[v]
  BY <1>1 DEF TypeInv, TypeOK, WorkType
<1> QED
  BY <1>2, <1>3 DEF Settles, Same

LEMMA JobHistory ==
    ASSUME TypeInv, CallInv, JobCalls, [Next]_vars
    PROVE \A w \in Worker : JobStep(w)
<1> DEFINE Goal == \A w \in Worker : JobStep(w)
<1>1. ASSUME NEW w \in Worker, WorkerStep(w) PROVE Goal
  <2>1. ASSUME NEW o \in Outcome, LinkDone(w, o), jobs[w] # None,
               Len(jobs[w].done) < Len(Links(w)), ThisUri(w) \in Reason'[o]
        PROVE Goal
    BY <2>1, SettlesLink DEF JobStep
  <2>2. CASE CacheHit(w)
    <3>1. "file" \in Outcome /\ ThisUri(w) \in Reason'["file"]
      BY <2>2 DEF CacheHit, files, Reason, Outcome
    <3> QED
      BY <2>1, <2>2, <3>1 DEF CacheHit, AtLink
  <2>3. ASSUME Calling(w) PROVE jobs[w] # None /\ Len(jobs[w].done) < Len(Links(w))
    BY <2>3 DEF Calling, TypeInv, Existing, JobsExist
  <2>4. CASE StoreFile(w)
    <3>1. "file" \in Outcome /\ ThisUri(w) \in Reason'["file"]
      BY <2>4 DEF StoreFile, Reason, Outcome
    <3> QED
      BY <2>1, <2>3, <2>4, <3>1 DEF StoreFile
  <2>5. CASE StoreFails(w)
    <3>1. "raw" \in Outcome /\ ThisUri(w) \in Reason'["raw"]
      BY <2>5 DEF StoreFails, Reason, Outcome
    <3> QED
      BY <2>1, <2>3, <2>5, <3>1 DEF StoreFails
  <2>6. CASE NoCode(w)
    <3>1. PICK p : p = jobs[w].call
      OBVIOUS
    <3>2. p \in ProxyId
      BY <2>6, <3>1, LinkTypes DEF NoCode, Calling
    <3>3. calls'[p] # None /\ calls'[p].method = "decompile" /\ calls'[p].arg = ThisUri(w)
      BY <2>6, <3>1 DEF NoCode, JobCalls, rpc
    <3>4. calls'[p].status \in WithoutCode
      BY <2>6, <3>1 DEF NoCode, rpc
    <3>5. "raw" \in Outcome /\ ThisUri(w) \in Reason'["raw"]
      BY <3>2, <3>3, <3>4 DEF Reason, Undecompiled, Outcome
    <3> QED
      BY <2>1, <2>3, <2>6, <3>5 DEF NoCode
  <2>7. CASE TakeJob(w)
    <3> DEFINE j == [id |-> Head(workQueue), done |-> <<>>, call |-> 0]
    <3>1. jobs[w] = None /\ workQueue # <<>> /\ jobs' = [jobs EXCEPT ![w] = j]
      BY <2>7 DEF TakeJob
    <3>2. j.id \in NavId /\ j.done = <<>> /\ j.call = 0
      BY <3>1, SeqTypes, TailElements
    <3> HIDE DEF j
    <3>3. jobs'[w] = j /\ \A v \in Worker : v # w => jobs'[v] = jobs[v]
      BY <3>1 DEF TypeInv, TypeOK, WorkType
    <3> QED
      BY <3>1, <3>2, <3>3 DEF JobStep, Takes, Same
  <2>8. CASE CacheMiss(w)
    <3> PICK n : n = nextProxyId
      OBVIOUS
    <3> DEFINE j == [jobs[w] EXCEPT !.call = n]
    <3>1. /\ jobs[w] # None /\ Len(jobs[w].done) < Len(Links(w))
          /\ Register("decompile", ThisUri(w)) /\ n \in ProxyId
          /\ jobs' = [jobs EXCEPT ![w] = j]
      BY <2>8 DEF CacheMiss, AtLink, Register
    <3>2. j.id = jobs[w].id /\ j.done = jobs[w].done /\ j.call = n
      BY <3>1, LinkTypes DEF Job
    <3> HIDE DEF j
    <3>3. jobs'[w] = j /\ \A v \in Worker : v # w => jobs'[v] = jobs[v]
      BY <3>1 DEF TypeInv, TypeOK, WorkType
    <3>4. ThisUri(w) \in Cause /\ "decompile" \in Method
      BY <3>1, LinkTypes DEF Cause, Method
    <3>5. /\ calls'[n] # None /\ calls'[n].method = "decompile"
          /\ calls'[n].arg = ThisUri(w)
      BY <3>1, <3>4, NewCall
    <3> QED
      BY <3>1, <3>2, <3>3, <3>5 DEF JobStep, Asks, Same
  <2>9. CASE FinishJob(w)
    BY <2>9 DEF FinishJob, TypeInv, TypeOK, WorkType, JobStep, Idle, Same
  <2>10. CASE Panic(w)
    BY <2>10 DEF Panic, JobStep, Same
  <2> HIDE DEF Goal
  <2> QED
    BY <1>1, <2>2, <2>4, <2>5, <2>6, <2>7, <2>8, <2>9, <2>10 DEF WorkerStep
<1>2. ASSUME UNCHANGED jobs PROVE Goal
  BY <1>2 DEF JobStep, Same
<1>3. ASSUME Client \/ Backend \/ MainThread PROVE Goal
  BY <1>2, <1>3 DEF Client, ClientInitialize, ClientRequest, ClientPicks, Backend,
     AnswerClient, AnswerCall, ServerChoose, MainThread, TakeRequest, ForwardRequest, TakeSave,
     TakeReply, work
<1>4. ASSUME PumpThread \/ Calls \/ UNCHANGED vars PROVE Goal
  BY <1>2, <1>4 DEF PumpThread, PumpFastPath, PumpCallReply, PumpClientAnswer,
     PumpChooseAction, PumpNoSession, Calls, StartCall, SendCall, TimeoutCall, vars, work
<1>5. ASSUME NEW m \in Manual, ControlReload(m) PROVE Goal
  BY <1>2, <1>5 DEF ControlReload, work
<1> HIDE DEF Goal
<1>6. Goal
  BY <1>1, <1>3, <1>4, <1>5 DEF Next
<1> QED
  BY <1>6 DEF Goal

-----------------------------------------------------------------------------
(* What the client gets for a navigation request in a step.                 *)

\* All of the job of a worker that is through, or an answer without links.
Complete(c, o) ==
    \/ o = <<>> /\ answers[c].links = <<>>
    \/ \E w \in Worker :
          /\ jobs[w] # None /\ jobs[w].id = c /\ o = jobs[w].done
          /\ Len(jobs[w].done) = Len(Links(w))

Arrives(c) ==
    \/ received'[c] = received[c]
    \/ /\ answers[c] # None /\ received[c] = <<>>
       /\ \E o \in Seq(Outcome) : received'[c] = Append(received[c], o) /\ Complete(c, o)

LEMMA Arrival ==
    ASSUME TypeInv, Held, Sent, Tracking, AnswersGiven, [Next]_vars
    PROVE \A c \in NavId : Arrives(c)
<1> DEFINE Goal == \A c \in NavId : Arrives(c)
<1>1. ASSUME UNCHANGED received PROVE Goal
  BY <1>1 DEF Arrives
<1>2. ASSUME NEW w \in Worker, WorkerStep(w) PROVE Goal
  <2>1. CASE FinishJob(w)
    <3> PICK d : d = jobs[w].id
      OBVIOUS
    <3>1. jobs[w] # None /\ d \in ClientId /\ jobs[w].done \in Seq(Outcome)
      BY <2>1, LinkTypes, SeqTypes DEF FinishJob
    <3>2. /\ received'[d] = Append(received[d], jobs[w].done)
          /\ \A x \in ClientId : x # d => received'[x] = received[x]
      BY <2>1, <3>1, DeliverTypes DEF FinishJob, TypeInv, TypeOK
    <3>3. WithWorker(d)
      BY <3>1 DEF WithWorker
    <3>4. answers[d] # None /\ received[d] = <<>>
      BY <3>1, <3>3 DEF Held, Stages, InOneStage, InSomeStage
    <3>5. Complete(d, jobs[w].done)
      BY <2>1, <3>1 DEF FinishJob, Complete
    <3> QED
      BY <3>1, <3>2, <3>4, <3>5, SeqTypes DEF Arrives
  <2>2. CASE ~FinishJob(w)
    BY <1>1, <1>2, <2>2 DEF WorkerStep, TakeJob, Panic, CacheHit, CacheMiss, StoreFile, StoreFails,
       NoCode, client
  <2> QED
    BY <2>1, <2>2
<1>3. ASSUME PumpThread PROVE Goal
  <2> PICK d : d = Head(stdout)
    OBVIOUS
  <2>1. CASE PumpCallReply \/ PumpChooseAction \/ PumpNoSession
    BY <1>1, <2>1 DEF PumpCallReply, Swallow, PumpChooseAction, PumpNoSession, client
  <2>2. ASSUME stdout # <<>>, d \in ClientId
        PROVE Has(stdout, d) /\ answers[d] # None /\ received[d] = <<>>
    <3>1. Has(stdout, d)
      BY <2>2, SeqTypes, TailDistinct DEF Held, NoRepetition
    <3> QED
      BY <2>2, <3>1 DEF Held, Stages, InOneStage, InSomeStage
  <2>3. CASE PumpFastPath
    <3>1. d \in ClientId /\ stdout # <<>> /\ ~answers[d].marked /\ Deliver(d, Untouched(d))
      BY <2>3 DEF PumpFastPath
    <3>2. answers[d] \in AnswersTo[d] /\ answers[d].links = <<>>
      BY <2>2, <3>1, AnswersAssumption DEF AnswersGiven
    <3>3. Untouched(d) = <<>> /\ Untouched(d) \in Seq(Outcome)
      BY <3>2 DEF Untouched
    <3>4. /\ received'[d] = Append(received[d], <<>>)
          /\ \A x \in ClientId : x # d => received'[x] = received[x]
      BY <3>1, <3>3, DeliverTypes DEF TypeInv, TypeOK
    <3> QED
      BY <2>2, <3>1, <3>2, <3>3, <3>4, SeqTypes DEF Arrives, Complete
  <2>4. CASE PumpClientAnswer
    <3>1. d \in ClientId /\ stdout # <<>> /\ Route(d)
      BY <2>4 DEF PumpClientAnswer
    <3>2. CASE d \in NavId
      <4>1. d \in written
        BY <2>2, <3>1 DEF Sent
      <4>2. d \in navRequests
        BY <2>2, <3>1, <3>2, <4>1 DEF Tracking, Awaited
      <4> QED
        BY <1>1, <3>1, <4>2 DEF Route
    <3>3. CASE d \notin NavId
      <4>1. Deliver(d, Untouched(d))
        BY <3>1, <3>3 DEF Route, TypeInv, TypeOK, OtherType
      <4>2. Untouched(d) \in Seq(Outcome)
        BY <2>2, <3>1, UntouchedTypes DEF TypeInv, TypeOK
      <4>3. \A x \in ClientId : x # d => received'[x] = received[x]
        BY <3>1, <4>1, <4>2, DeliverTypes DEF TypeInv, TypeOK
      <4> QED
        BY <3>3, <4>3, SeqTypes DEF Arrives
    <3> QED
      BY <3>2, <3>3
  <2> HIDE DEF Goal
  <2> QED
    BY <1>3, <2>1, <2>3, <2>4 DEF PumpThread
<1>4. ASSUME Client \/ Backend \/ MainThread PROVE Goal
  BY <1>1, <1>4 DEF Client, ClientInitialize, ClientRequest, ClientPicks, Backend,
     AnswerClient, AnswerCall, ServerChoose, MainThread, TakeRequest, ForwardRequest, TakeSave,
     TakeReply, client
<1>5. ASSUME Calls \/ UNCHANGED vars PROVE Goal
  BY <1>1, <1>5 DEF Calls, StartCall, SendCall, TimeoutCall, vars, client
<1>6. ASSUME NEW m \in Manual, ControlReload(m) PROVE Goal
  BY <1>1, <1>6 DEF ControlReload, client
<1> HIDE DEF Goal
<1>7. Goal
  BY <1>2, <1>3, <1>4, <1>5, <1>6 DEF Next
<1> QED
  BY <1>7 DEF Goal

-----------------------------------------------------------------------------
LEMMA JobCallsNext ==
    ASSUME TypeInv, CallInv, JobCalls, [Next]_vars
    PROVE JobCalls'
<1> SUFFICES ASSUME NEW w \in Worker, jobs'[w] # None, jobs'[w].call # 0
             PROVE /\ calls'[jobs'[w].call] # None
                   /\ calls'[jobs'[w].call].method = "decompile"
                   /\ calls'[jobs'[w].call].arg
                        = answers'[jobs'[w].id].links[Len(jobs'[w].done) + 1]
  BY DEF JobCalls, Calling, ThisUri, Links
<1>1. JobStep(w)
  BY JobHistory
<1>2. ASSUME jobs[w] # None PROVE answers'[jobs[w].id] = answers[jobs[w].id]
  BY <1>2, LinkTypes, SeqTypes, AnswersKept DEF TypeInv, Existing, JobsExist
<1>3. CASE Same(w)
  <2> PICK p : p = jobs[w].call
    OBVIOUS
  <2>1. jobs[w] # None /\ p # 0 /\ p \in ProxyId
    BY <1>3, LinkTypes DEF Same
  <2>2. calls[p] # None /\ calls[p].method = "decompile" /\ calls[p].arg = ThisUri(w)
    BY <2>1 DEF JobCalls, Calling
  <2>3. calls'[p] = calls[p] \/ Proceeds(p) \/ Begins(p)
    BY <2>1, CallHistory
  <2>4. calls'[p] # None /\ calls'[p].method = "decompile" /\ calls'[p].arg = ThisUri(w)
    BY <2>2, <2>3 DEF Proceeds, Begins
  <2> QED
    BY <1>2, <1>3, <2>1, <2>4 DEF Same, ThisUri, Links
<1>4. CASE Asks(w)
  BY <1>2, <1>4 DEF Asks, ThisUri, Links
<1> QED
  BY <1>1, <1>3, <1>4 DEF JobStep, Idle, Takes, Settles

LEMMA JobsReasonedNext ==
    ASSUME TypeInv, CallInv, JobCalls, JobsReasoned, [Next]_vars
    PROVE JobsReasoned'
<1> SUFFICES ASSUME NEW w \in Worker, jobs'[w] # None, NEW i \in DOMAIN jobs'[w].done
             PROVE answers'[jobs'[w].id].links[i] \in Reason'[jobs'[w].done[i]]
  BY DEF JobsReasoned, Links
<1>1. JobStep(w)
  BY JobHistory
<1>2. CASE jobs[w] # None
  <2>1. answers'[jobs[w].id] = answers[jobs[w].id]
    BY <1>2, LinkTypes, SeqTypes, AnswersKept DEF TypeInv, Existing, JobsExist
  <2>2. ASSUME jobs'[w].id = jobs[w].id, NEW k \in DOMAIN jobs[w].done
        PROVE Links(w)[k] \in Reason'[jobs[w].done[k]]
    <3>1. jobs[w].done[k] \in Outcome
      BY <1>2, <2>2, LinkTypes, ElementOfSeq, LenProperties
    <3>2. Links(w)[k] \in Reason[jobs[w].done[k]]
      BY <1>2, <2>2 DEF JobsReasoned
    <3> QED
      BY <3>1, <3>2, ReasonGrows
  <2>3. ASSUME jobs'[w].id = jobs[w].id, jobs'[w].done = jobs[w].done
        PROVE answers'[jobs'[w].id].links[i] \in Reason'[jobs'[w].done[i]]
    BY <2>1, <2>2, <2>3 DEF Links
  <2>4. CASE Settles(w)
    <3>1. PICK o \in Outcome : /\ jobs'[w].done = Append(jobs[w].done, o)
                               /\ ThisUri(w) \in Reason'[o]
      BY <2>4 DEF Settles
    <3>2. jobs'[w].id = jobs[w].id /\ answers'[jobs'[w].id].links = Links(w)
      BY <2>1, <2>4 DEF Settles, Links
    <3>3. \/ i \in DOMAIN jobs[w].done /\ jobs'[w].done[i] = jobs[w].done[i]
          \/ i = Len(jobs[w].done) + 1 /\ jobs'[w].done[i] = o
      BY <1>2, <3>1, LinkTypes, AppendElements
    <3> QED
      BY <2>2, <3>1, <3>2, <3>3 DEF ThisUri
  <2> QED
    BY <1>1, <1>2, <2>3, <2>4 DEF JobStep, Same, Idle, Takes, Asks
<1>3. CASE jobs[w] = None
  BY <1>1, <1>3 DEF JobStep, Same, Idle, Takes, Asks, Settles
<1> QED
  BY <1>2, <1>3

LEMMA DeliveredNext ==
    ASSUME TypeInv, Held, Sent, Tracking, CallInv, Resolving, [Next]_vars
    PROVE Delivered'
<1> SUFFICES ASSUME NEW c \in NavId, NEW k \in DOMAIN received'[c]
             PROVE /\ DOMAIN received'[c][k] = DOMAIN answers'[c].links
                   /\ \A i \in DOMAIN answers'[c].links :
                         answers'[c].links[i] \in Reason'[received'[c][k][i]]
  BY DEF Delivered
<1>1. Arrives(c)
  BY Arrival DEF Resolving
<1>2. received[c] \in Seq(Seq(Outcome)) /\ c \in ClientId
  BY SeqTypes
<1>3. \A o \in Outcome : Reason[o] \subseteq Reason'[o]
  BY ReasonGrows
<1>4. CASE received'[c] = received[c]
  <2>1. k \in DOMAIN received[c] /\ received[c] # <<>>
    BY <1>4
  <2>2. answers'[c] = answers[c]
    BY <1>2, <2>1, AnswersKept DEF Held, Stages, InSomeStage
  <2>3. /\ DOMAIN received[c][k] = DOMAIN answers[c].links
        /\ \A i \in DOMAIN answers[c].links :
              answers[c].links[i] \in Reason[received[c][k][i]]
    BY <2>1 DEF Resolving, Delivered
  <2>4. received[c][k] \in Seq(Outcome)
    BY <1>2, <2>1, ElementOfSeq, LenProperties
  <2>5. \A i \in DOMAIN received[c][k] : received[c][k][i] \in Outcome
    BY <2>4, ElementOfSeq, LenProperties
  <2> QED
    BY <1>3, <1>4, <2>2, <2>3, <2>5
<1>5. CASE received'[c] # received[c]
  <2>1. PICK o \in Seq(Outcome) : received'[c] = Append(received[c], o) /\ Complete(c, o)
    BY <1>1, <1>5 DEF Arrives
  <2>2. answers[c] # None /\ received[c] = <<>>
    BY <1>1, <1>5 DEF Arrives
  <2>3. received'[c][k] = o
    <3>1. received'[c] = <<o>>
      BY <2>1, <2>2
    <3> QED
      BY <3>1
  <2>4. answers'[c] = answers[c]
    BY <1>2, <2>2, AnswersKept
  <2>5. CASE o = <<>> /\ answers[c].links = <<>>
    BY <2>3, <2>4, <2>5
  <2>6. ASSUME NEW w \in Worker, jobs[w] # None, jobs[w].id = c, o = jobs[w].done,
               Len(jobs[w].done) = Len(Links(w))
        PROVE /\ DOMAIN o = DOMAIN answers[c].links
              /\ \A i \in DOMAIN answers[c].links : answers[c].links[i] \in Reason'[o[i]]
    <3>1. Links(w) = answers[c].links
      BY <2>6 DEF Links
    <3>2. DOMAIN o = DOMAIN answers[c].links
      BY <2>6, <3>1, LinkTypes, LenProperties
    <3>3. \A i \in DOMAIN o : o[i] \in Outcome
      BY ElementOfSeq, LenProperties
    <3>4. \A i \in DOMAIN o : answers[c].links[i] \in Reason[o[i]]
      BY <2>6, <3>1 DEF Resolving, JobsReasoned
    <3> QED
      BY <1>3, <3>2, <3>3, <3>4
  <2> QED
    BY <2>1, <2>3, <2>4, <2>5, <2>6 DEF Complete
<1> QED
  BY <1>4, <1>5

LEMMA ResolvingNext ==
    TypeInv /\ Held /\ Sent /\ Tracking /\ CallInv /\ Resolving /\ [Next]_vars => Resolving'
<1> SUFFICES ASSUME TypeInv, Held, Sent, Tracking, CallInv, Resolving, [Next]_vars
             PROVE Resolving'
  OBVIOUS
<1>1. AnswersGiven'
  BY AnswersKept DEF Resolving, AnswersGiven
<1>2. JobCalls' /\ JobsReasoned'
  BY JobCallsNext, JobsReasonedNext DEF Resolving
<1>3. Delivered'
  BY DeliveredNext
<1> QED
  BY <1>1, <1>2, <1>3 DEF Resolving

\* A navigation request stays in nav_requests until its answer is in the hands
\* of the pump.
THEOREM TrackingInvariant == Spec => []Tracking
<1>1. TypeInv /\ Held /\ Sent /\ Tracking /\ [Next]_vars => Tracking'
  BY TrackingNext
<1> QED
  BY <1>1, TrackingInit, HeldInvariant, SentInvariant, PTL DEF Spec

\* What a reason is in terms of the calls.
LEMMA DeliveredResolved == TypeInv /\ Delivered => LinksResolved
<1> SUFFICES ASSUME TypeInv, Delivered, NEW c \in NavId, NEW k \in DOMAIN received[c],
                    NEW i \in DOMAIN answers[c].links
             PROVE \/ received[c][k][i] = "file" /\ answers[c].links[i] \in cache
                   \/ /\ received[c][k][i] = "raw"
                      /\ \/ answers[c].links[i] \in writeFailed
                         \/ \E p \in ProxyId :
                               /\ calls[p] # None
                               /\ calls[p].method = "decompile"
                               /\ calls[p].arg = answers[c].links[i]
                               /\ calls[p].status \in {"empty", "error", "timeout"}
  BY DEF LinksResolved, Delivered
<1> PICK o, u : o = received[c][k][i] /\ u = answers[c].links[i]
  OBVIOUS
<1>1. DOMAIN received[c][k] = DOMAIN answers[c].links /\ u \in Reason[o]
  BY DEF Delivered
<1>2. received[c] \in Seq(Seq(Outcome))
  BY SeqTypes
<1>3. received[c][k] \in Seq(Outcome)
  BY <1>2, ElementOfSeq, LenProperties
<1>4. o \in Outcome
  BY <1>1, <1>3, ElementOfSeq, LenProperties
<1>5. CASE o = "file"
  BY <1>1, <1>4, <1>5 DEF Reason
<1>6. CASE o = "raw"
  BY <1>1, <1>4, <1>6 DEF Reason, Undecompiled, WithoutCode
<1> QED
  BY <1>4, <1>5, <1>6 DEF Outcome

\* A navigation answer reaches the client with each of its archive URIs
\* replaced by a file that is in the cache, except where the decompilation of
\* that URI gave no code in time or its file could not be stored.
THEOREM LinksAreResolved == Spec => []LinksResolved
<1>1. TypeInv /\ Held /\ Sent /\ Tracking /\ CallInv /\ Resolving /\ [Next]_vars
        => Resolving'
  BY ResolvingNext
<1>2. TypeInv /\ Resolving => LinksResolved
  BY DeliveredResolved DEF Resolving
<1> QED
  BY <1>1, <1>2, ResolvingInit, HeldInvariant, SentInvariant, TrackingInvariant, CallInvariant,
     PTL DEF Spec


-----------------------------------------------------------------------------
(* The menus of the backend. A session is announced once and has at most     *)
(* one prompt, which it gets when its announcement leaves the pipe.         *)

Menus ==
    /\ Distinct(stdout, Session)
    /\ \A s \in Session : Has(stdout, s) => s \in menus
    /\ \A p \in ProxyId :
          prompts[p] # None => prompts[p] \in menus /\ ~Has(stdout, prompts[p])
    /\ \A p, q \in ProxyId : prompts[p] # None /\ prompts[p] = prompts[q] => p = q

LEMMA MenusInit == Init => Menus
  BY DEF Init, Menus, Distinct, Has

LEMMA MenusNext == TypeInv /\ CallInv /\ Menus /\ [Next]_vars => Menus'
<1> SUFFICES ASSUME TypeInv, CallInv, Menus, [Next]_vars PROVE Menus'
  OBVIOUS
<1>1. ASSUME UNCHANGED <<stdout, menus, prompts>> PROVE Menus'
  BY <1>1 DEF Menus, Has, Distinct
<1>2. \A p \in ProxyId : prompts[p] \in Session \cup {None}
  BY DEF TypeInv, TypeOK, ClientType
<1>3. ASSUME Backend PROVE Menus'
  <2>1. ASSUME NEW e \in ClientId \cup ProxyId \cup Session, stdout' = Append(stdout, e),
               UNCHANGED prompts,
               \/ e \notin Session /\ menus' = menus
               \/ e \notin menus /\ menus' = menus \cup {e}
        PROVE Menus'
    <3>1. e \in Session => ~Has(stdout, e)
      BY <2>1 DEF Menus
    <3>2. /\ Distinct(stdout', Session)
          /\ \A x : Has(stdout', x) <=> Has(stdout, x) \/ x = e
      BY <3>1, <2>1, SeqTypes, AppendDistinct DEF Menus
    <3> QED
      BY <1>2, <2>1, <3>2, NoneAssumption DEF Menus
  <2>2. ASSUME NEW c \in ClientId, NEW a \in AnswersTo[c], AnswerClient(c, a) PROVE Menus'
    BY <2>1, <2>2, IdsDisjoint DEF AnswerClient, client, ClientId
  <2>3. ASSUME NEW p \in ProxyId, NEW r \in {"ok", "empty", "error"}, AnswerCall(p, r)
        PROVE Menus'
    BY <2>1, <2>3, IdsDisjoint DEF AnswerCall, client
  <2>4. ASSUME NEW s \in Session, ServerChoose(s) PROVE Menus'
    BY <2>1, <2>4 DEF ServerChoose, client
  <2> QED
    BY <1>3, <2>2, <2>3, <2>4 DEF Backend
<1>4. ASSUME PumpThread PROVE Menus'
  <2> PICK h : h = Head(stdout)
    OBVIOUS
  <2>1. stdout # <<>> /\ stdout' = Tail(stdout) /\ UNCHANGED menus
    BY <1>4 DEF PumpThread, PumpFastPath, PumpCallReply, PumpClientAnswer, PumpChooseAction, PumpNoSession, client
  <2>2. /\ Distinct(stdout', Session)
        /\ \A x : Has(stdout, x) <=> x = h \/ Has(stdout', x)
        /\ h \in Session => ~Has(stdout', h)
    BY <2>1, SeqTypes, TailDistinct DEF Menus
  <2>3. CASE PumpChooseAction
    <3> PICK n : n = nextProxyId
      OBVIOUS
    <3>1. n \in ProxyId /\ h \in Session /\ prompts' = [prompts EXCEPT ![n] = h]
      BY <2>3 DEF PumpChooseAction
    <3>2. prompts'[n] = h /\ \A p \in ProxyId : p # n => prompts'[p] = prompts[p]
      BY <3>1 DEF TypeInv, TypeOK, ClientType
    <3>3. h \in menus /\ \A p \in ProxyId : prompts[p] # None => prompts[p] # h
      BY <2>2, <3>1 DEF Menus
    <3> QED
      BY <2>1, <2>2, <3>1, <3>2, <3>3 DEF Menus
  <2>4. CASE ~PumpChooseAction
    <3>1. UNCHANGED prompts
      BY <1>4, <2>4 DEF PumpThread, PumpFastPath, PumpCallReply, PumpClientAnswer,
         PumpNoSession, client
    <3> QED
      BY <1>2, <2>1, <2>2, <3>1 DEF Menus
  <2> QED
    BY <2>3, <2>4
<1>5. ASSUME Client \/ MainThread PROVE Menus'
  BY <1>1, <1>5 DEF Client, ClientInitialize, ClientRequest, ClientPicks, MainThread,
     TakeRequest, ForwardRequest, TakeSave, TakeReply, client, backend
<1>6. ASSUME Calls \/ UNCHANGED vars PROVE Menus'
  BY <1>1, <1>6 DEF Calls, StartCall, SendCall, TimeoutCall, vars, client, backend
<1>7. ASSUME NEW w \in Worker, WorkerStep(w) PROVE Menus'
  BY <1>1, <1>7 DEF WorkerStep, TakeJob, Panic, CacheHit, CacheMiss, StoreFile, StoreFails, NoCode,
     FinishJob, client, backend
<1>8. ASSUME NEW m \in Manual, ControlReload(m) PROVE Menus'
  BY <1>1, <1>8 DEF ControlReload, client, backend
<1> QED
  BY <1>3, <1>4, <1>5, <1>6, <1>7, <1>8 DEF Next

-----------------------------------------------------------------------------
(* The commands. Each runs what was picked in the prompt of its session; a   *)
(* session has a prompt in pending_client or at most one command.           *)

RunsPick(arg) ==
    \E s \in Session, q \in ProxyId : \E i \in DOMAIN Menu[s] :
        /\ arg = <<s, Menu[s][i].index>>
        /\ prompts[q] = s /\ picked[q] = Menu[s][i].name
        /\ \A j \in 1..(i - 1) : Menu[s][j].name # Menu[s][i].name

ToSend == {t \in spawned : t.method = "chooseMod"}
Commands == {p \in ProxyId : calls[p] # None /\ calls[p].method = "chooseMod"}

Picks ==
    /\ \A t \in ToSend : RunsPick(t.arg)
    /\ \A p \in Commands : RunsPick(calls[p].arg)

OncePerSession ==
    /\ \A e \in pendingClient :
          /\ prompts[e.id] = e.session
          /\ \A t \in ToSend : t.arg[1] # e.session
          /\ \A p \in Commands : calls[p].arg[1] # e.session
    /\ \A t, u \in ToSend : t.arg[1] = u.arg[1] => t = u
    /\ \A t \in ToSend, p \in Commands : t.arg[1] # calls[p].arg[1]
    /\ \A p, q \in Commands : calls[p].arg[1] = calls[q].arg[1] => p = q

Choosing == Picks /\ OncePerSession

LEMMA ChoosingInit == Init => Choosing
  BY DEF Init, Choosing, Picks, OncePerSession, ToSend, Commands

\* What IndexOf finds is the first entry with the title.
LEMMA FirstEntry ==
    ASSUME NEW s \in Session, NEW t \in Titles(s)
    PROVE \E i \in DOMAIN Menu[s] :
             /\ Menu[s][i].name = t /\ IndexOf(s, t) = Menu[s][i].index
             /\ \A j \in 1..(i - 1) : Menu[s][j].name # Menu[s][i].name
<1> DEFINE T == {i \in DOMAIN Menu[s] : Menu[s][i].name = t}
<1>1. Menu[s] \in Seq([name: Title, index: Nat])
  BY MenuAssumption
<1>2. T \in SUBSET Nat /\ T # {}
  BY <1>1 DEF Titles
<1>3. PICK n \in T : \A m \in T : n <= m
  BY <1>2, LeastExists
<1>4. n \in DOMAIN Menu[s] /\ Menu[s][n].name = t
  OBVIOUS
<1>5. \A j \in 1..(n - 1) : Menu[s][j].name # t
  BY <1>1, <1>3
<1> DEFINE First(i) == Menu[s][i].name = t /\ \A j \in 1..(i - 1) : Menu[s][j].name # t
           k == CHOOSE i \in DOMAIN Menu[s] : First(i)
<1>6. k \in DOMAIN Menu[s] /\ First(k)
  BY <1>4, <1>5
<1>7. IndexOf(s, t) = Menu[s][k].index
  BY DEF IndexOf
<1> HIDE DEF k
<1> QED
  BY <1>6, <1>7

\* A command keeps the pick it was made for.
LEMMA PickKept ==
    ASSUME \A p \in ProxyId : /\ prompts[p] # None => prompts'[p] = prompts[p]
                              /\ picked[p] # None => picked'[p] = picked[p]
    PROVE \A arg : RunsPick(arg) => RunsPick(arg)'
<1> SUFFICES ASSUME NEW arg, RunsPick(arg) PROVE RunsPick(arg)'
  OBVIOUS
<1>1. PICK s \in Session, q \in ProxyId : \E i \in DOMAIN Menu[s] :
        /\ arg = <<s, Menu[s][i].index>>
        /\ prompts[q] = s /\ picked[q] = Menu[s][i].name
        /\ \A j \in 1..(i - 1) : Menu[s][j].name # Menu[s][i].name
  BY DEF RunsPick
<1>2. \A i \in DOMAIN Menu[s] : Menu[s][i].name # None
  <2>1. Menu[s] \in Seq([name: Title, index: Nat])
    BY MenuAssumption
  <2>2. \A i \in DOMAIN Menu[s] : Menu[s][i] \in [name: Title, index: Nat]
    BY <2>1, LenProperties, ElementOfSeq
  <2> QED
    BY <2>2, NoneAssumption
<1>3. s # None
  BY NoneAssumption
<1> QED
  BY <1>1, <1>2, <1>3 DEF RunsPick

\* A step that adds no prompt and no command of its own.
LEMMA ChoosingThreads ==
    ASSUME TypeInv, CallInv, Choosing, [Next]_vars,
           \A t \in spawned' : t \in spawned \/ t.method # "chooseMod",
           pendingClient' \subseteq pendingClient,
           \A p \in ProxyId : /\ prompts[p] # None => prompts'[p] = prompts[p]
                              /\ picked[p] # None => picked'[p] = picked[p]
    PROVE Choosing'
<1>1. \A arg : RunsPick(arg) => RunsPick(arg)'
  BY PickKept
<1>2. ToSend' \subseteq ToSend
  BY DEF ToSend
<1>3. \A e \in pendingClient : prompts'[e.id] = e.session
  <2> SUFFICES ASSUME NEW e \in pendingClient PROVE prompts'[e.id] = e.session
    OBVIOUS
  <2>1. e.id \in ProxyId /\ e.session # None
    BY NoneAssumption DEF TypeInv, TypeOK, OtherType
  <2> QED
    BY <2>1 DEF Choosing, OncePerSession
<1>4. \A p \in ProxyId : calls'[p] = calls[p] \/ Proceeds(p) \/ Begins(p)
  BY CallHistory
<1>5. ASSUME NEW p \in ProxyId, Begins(p), calls'[p].method = "chooseMod" PROVE Choosing'
  <2>1. PICK t \in spawned : /\ spawned' = spawned \ {t}
                             /\ calls'[p].method = t.method /\ calls'[p].arg = t.arg
    BY <1>5 DEF Begins
  <2>2. t \in ToSend /\ t \notin ToSend'
    BY <1>5, <2>1 DEF ToSend
  <2>3. /\ Commands' = Commands \cup {p} /\ p \notin Commands
        /\ \A q \in Commands : calls'[q] = calls[q]
    BY <1>5 DEF Commands, Begins
  <2>4. Picks'
    BY <1>1, <1>2, <2>1, <2>2, <2>3 DEF Choosing, Picks
  <2>5. OncePerSession'
    BY <1>2, <1>3, <2>1, <2>2, <2>3 DEF Choosing, OncePerSession
  <2> QED
    BY <2>4, <2>5 DEF Choosing
<1>6. ASSUME \A p \in ProxyId : Begins(p) => calls'[p].method # "chooseMod" PROVE Choosing'
  <2>1. Commands' \subseteq Commands /\ \A p \in Commands : calls'[p].arg = calls[p].arg
    BY <1>4, <1>6 DEF Commands, Proceeds, Begins
  <2>2. Picks'
    BY <1>1, <1>2, <2>1 DEF Choosing, Picks
  <2>3. OncePerSession'
    BY <1>2, <1>3, <2>1 DEF Choosing, OncePerSession
  <2> QED
    BY <2>2, <2>3 DEF Choosing
<1> QED
  BY <1>5, <1>6

\* The pump prompts for a session that has no command and no prompt yet.
LEMMA ChoosingPrompt ==
    ASSUME TypeInv, CallInv, Menus, Choosing, PumpChooseAction
    PROVE Choosing'
<1> PICK n, s : n = nextProxyId /\ s = Head(stdout)
  OBVIOUS
<1>1. /\ n \in ProxyId /\ s \in Session /\ stdout # <<>>
      /\ prompts' = [prompts EXCEPT ![n] = s]
      /\ pendingClient' = pendingClient \cup {[id |-> n, session |-> s]}
      /\ UNCHANGED <<picked, spawned, calls>>
  BY DEF PumpChooseAction
<1>2. prompts'[n] = s /\ \A p \in ProxyId : p # n => prompts'[p] = prompts[p]
  BY <1>1 DEF TypeInv, TypeOK, ClientType
<1>3. prompts[n] = None
  <2>1. n >= n
    BY <1>1 DEF ProxyId
  <2> QED
    BY <1>1, <2>1 DEF CallInv, Fresh
<1>4. \A arg : RunsPick(arg) => RunsPick(arg)'
  BY <1>1, <1>2, <1>3, PickKept
<1>5. ToSend' = ToSend /\ Commands' = Commands /\ UNCHANGED calls
  BY <1>1 DEF ToSend, Commands
<1>6. Picks'
  BY <1>4, <1>5 DEF Choosing, Picks
<1>7. Has(stdout, s)
  BY <1>1, SeqTypes, TailElements DEF Has
<1>8. ASSUME NEW arg, RunsPick(arg) PROVE arg[1] # s
  <2>1. PICK r \in Session, q \in ProxyId : \E i \in DOMAIN Menu[r] :
          arg = <<r, Menu[r][i].index>> /\ prompts[q] = r
    BY <1>8 DEF RunsPick
  <2>2. arg[1] = r /\ r # None
    BY <2>1, NoneAssumption
  <2> QED
    BY <1>7, <2>1, <2>2 DEF Menus
<1>9. \A e \in pendingClient : e.id \in ProxyId /\ e.id # n /\ prompts[e.id] = e.session
  <2> SUFFICES ASSUME NEW e \in pendingClient
               PROVE e.id \in ProxyId /\ e.id # n /\ prompts[e.id] = e.session
    OBVIOUS
  <2>1. e.id \in ProxyId /\ e.session \in Session /\ prompts[e.id] = e.session
    BY DEF Choosing, OncePerSession, TypeInv, TypeOK, OtherType
  <2> QED
    BY <1>3, <2>1, NoneAssumption
<1>10. OncePerSession'
  BY <1>1, <1>2, <1>5, <1>8, <1>9 DEF Choosing, Picks, OncePerSession
<1> QED
  BY <1>6, <1>10 DEF Choosing

\* The main thread takes the reply to a prompt and makes at most one command.
LEMMA ChoosingReply ==
    ASSUME TypeInv, CallInv, Menus, Choosing, TakeReply, [Next]_vars
    PROVE Choosing'
<1> PICK p, title : p = Head(stdin) /\ title = picked[p]
  OBVIOUS
<1> DEFINE found == {e \in pendingClient : Concerns(e, p)}
<1>1. /\ p \in ProxyId /\ pendingClient' = pendingClient \ found
      /\ UNCHANGED <<prompts, picked, calls>>
      /\ \/ \E e \in found : /\ title \in Titles(e.session)
                             /\ Spawn("chooseMod", <<e.session, IndexOf(e.session, title)>>)
         \/ UNCHANGED spawned
  BY DEF TakeReply, backend, rpc
<1>2. CASE UNCHANGED spawned
  BY <1>1, <1>2, ChoosingThreads
<1>3. ASSUME NEW e \in found, title \in Titles(e.session),
             Spawn("chooseMod", <<e.session, IndexOf(e.session, title)>>)
      PROVE Choosing'
  <2> PICK s : s = e.session
    OBVIOUS
  <2>1. /\ e \in pendingClient /\ s \in Session /\ e.id = p /\ prompts[p] = s
    BY <1>1, <1>3 DEF Concerns, Choosing, OncePerSession, TypeInv, TypeOK, OtherType
  <2>2. PICK i \in DOMAIN Menu[s] :
             /\ Menu[s][i].name = title /\ IndexOf(s, title) = Menu[s][i].index
             /\ \A j \in 1..(i - 1) : Menu[s][j].name # Menu[s][i].name
    BY <1>3, <2>1, FirstEntry
  <2> PICK arg : arg = <<s, IndexOf(s, title)>>
    OBVIOUS
  <2> PICK t : t = [method |-> "chooseMod", arg |-> arg]
    OBVIOUS
  <2>3. arg[1] = s /\ t.arg = arg /\ t.method = "chooseMod"
    OBVIOUS
  <2>4. RunsPick(arg)
    BY <1>1, <2>1, <2>2 DEF RunsPick
  <2>5. \A x : RunsPick(x) => RunsPick(x)'
    BY <1>1, PickKept
  <2>6. spawned' = spawned \cup {t}
    BY <1>3 DEF Spawn
  <2>7. ToSend' = ToSend \cup {t} /\ Commands' = Commands
    BY <1>1, <2>3, <2>6 DEF ToSend, Commands
  <2>8. Picks'
    BY <1>1, <2>3, <2>4, <2>5, <2>7 DEF Choosing, Picks
  <2>9. \A d \in pendingClient' : d \in pendingClient /\ d.session # s
    <3> SUFFICES ASSUME NEW d \in pendingClient, d.session = s PROVE d \in found
      BY <1>1
    <3>1. d.id \in ProxyId /\ prompts[d.id] = s /\ s # None
      BY <2>1, NoneAssumption DEF Choosing, OncePerSession, TypeInv, TypeOK, OtherType
    <3>2. d.id = p
      BY <1>1, <2>1, <3>1 DEF Menus
    <3> QED
      BY <3>2 DEF Concerns
  <2>10. \A u \in ToSend : u.arg[1] # s
    BY <2>1 DEF Choosing, OncePerSession
  <2>11. \A q \in Commands : calls[q].arg[1] # s
    BY <2>1 DEF Choosing, OncePerSession
  <2>12. OncePerSession'
    BY <1>1, <2>3, <2>7, <2>9, <2>10, <2>11 DEF Choosing, OncePerSession
  <2> QED
    BY <2>8, <2>12 DEF Choosing
<1> QED
  BY <1>1, <1>2, <1>3

LEMMA ChoosingNext == TypeInv /\ CallInv /\ Menus /\ Choosing /\ [Next]_vars => Choosing'
<1> SUFFICES ASSUME TypeInv, CallInv, Menus, Choosing, [Next]_vars PROVE Choosing'
  OBVIOUS
<1>1. ASSUME \A t \in spawned' : t \in spawned \/ t.method # "chooseMod",
             UNCHANGED <<pendingClient, prompts, picked>>
      PROVE Choosing'
  BY <1>1, ChoosingThreads
<1>2. ASSUME Client PROVE Choosing'
  <2>1. \A p \in ProxyId : picked[p] # None => picked'[p] = picked[p]
    BY <1>2 DEF Client, ClientInitialize, ClientRequest, ClientPicks, TypeInv, TypeOK,
       ClientType
  <2>2. UNCHANGED <<prompts, pendingClient, spawned>>
    BY <1>2 DEF Client, ClientInitialize, ClientRequest, ClientPicks
  <2> QED
    BY <2>1, <2>2, ChoosingThreads
<1>3. ASSUME Backend PROVE Choosing'
  BY <1>1, <1>3 DEF Backend, AnswerClient, AnswerCall, ServerChoose, client
<1>4. ASSUME MainThread PROVE Choosing'
  <2>1. ASSUME TakeRequest \/ ForwardRequest \/ TakeSave PROVE Choosing'
    <3>1. UNCHANGED <<pendingClient, prompts, picked>>
      BY <2>1 DEF TakeRequest, ForwardRequest, TakeSave, client
    <3>2. \A t \in spawned' : t \in spawned \/ t.method # "chooseMod"
      BY <2>1 DEF TakeRequest, ForwardRequest, TakeSave, ReloadAfter, Spawn
    <3> QED
      BY <1>1, <3>1, <3>2
  <2> QED
    BY <1>4, <2>1, ChoosingReply DEF MainThread
<1>5. ASSUME PumpThread PROVE Choosing'
  <2>1. ASSUME PumpFastPath \/ PumpCallReply \/ PumpClientAnswer \/ PumpNoSession
        PROVE Choosing'
    <3>1. UNCHANGED <<pendingClient, prompts, picked>>
      BY <2>1 DEF PumpFastPath, PumpCallReply, PumpClientAnswer, PumpNoSession, client
    <3>2. \A t \in spawned' : t \in spawned \/ t.method # "chooseMod"
      BY <2>1 DEF PumpFastPath, PumpCallReply, PumpClientAnswer, PumpNoSession, Initialized,
         Discover, Spawn
    <3> QED
      BY <1>1, <3>1, <3>2
  <2> QED
    BY <1>5, <2>1, ChoosingPrompt DEF PumpThread
<1>6. ASSUME Calls \/ UNCHANGED vars PROVE Choosing'
  BY <1>1, <1>6 DEF Calls, StartCall, SendCall, TimeoutCall, vars, client
<1>7. ASSUME NEW w \in Worker, WorkerStep(w) PROVE Choosing'
  BY <1>1, <1>7 DEF WorkerStep, TakeJob, Panic, CacheHit, CacheMiss, StoreFile, StoreFails, NoCode,
     FinishJob, client
<1>8. ASSUME NEW m \in Manual, ControlReload(m) PROVE Choosing'
  BY <1>1, <1>8 DEF ControlReload, client, Spawn
<1> QED
  BY <1>2, <1>3, <1>4, <1>5, <1>6, <1>7, <1>8 DEF Next

LEMMA ChoosingMatches == Choosing => ChoiceMatchesPick
<1> SUFFICES ASSUME Choosing PROVE ChoiceMatchesPick
  OBVIOUS
<1>1. ASSUME NEW p \in Commands
      PROVE \E s \in Session : \E i \in DOMAIN Menu[s] :
               /\ calls[p].arg = <<s, Menu[s][i].index>>
               /\ \E q \in ProxyId : prompts[q] = s /\ picked[q] = Menu[s][i].name
               /\ \A j \in 1..(i - 1) : Menu[s][j].name # Menu[s][i].name
  BY <1>1 DEF Choosing, Picks, RunsPick
<1>2. \A p, q \in Commands : calls[p].arg[1] = calls[q].arg[1] => p = q
  BY DEF Choosing, OncePerSession
<1> QED
  BY <1>1, <1>2 DEF ChoiceMatchesPick, Commands

\* Whatever menus are open at the same time, and in whatever order they are
\* answered, a session gets at most one command, and it runs the first entry
\* with the title picked in the prompt of that session.
THEOREM ChoicesMatch == Spec => []ChoiceMatchesPick
<1>1. TypeInv /\ CallInv /\ Menus /\ [Next]_vars => Menus'
  BY MenusNext
<1>2. TypeInv /\ CallInv /\ Menus /\ Choosing /\ [Next]_vars => Choosing'
  BY ChoosingNext
<1> QED
  BY <1>1, <1>2, MenusInit, ChoosingInit, ChoosingMatches, TypeInvariant, CallInvariant, PTL
     DEF Spec

-----------------------------------------------------------------------------
(* The refinement of Workers: where a navigation answer is, by its stage.   *)

Given(c) == answers[c] # None /\ answers[c].marked /\ received[c] # <<>>

HandedAs(c, stage, outcomes) ==
    /\ NavStages[c] = stage /\ NavLinks[c] = answers[c].links
    /\ NavSettled[c] = ReplacedBy(answers[c].links, outcomes)

NotHanded(c) == NavStages[c] = "new" /\ NavLinks[c] = <<>> /\ NavSettled[c] = <<>>

HeldBy(w) == IF w \in dead THEN "lost" ELSE "held"

StageValues ==
    \A c \in NavId :
        /\ Has(workQueue, c) => HandedAs(c, "queued", <<>>)
        /\ \A w \in Worker :
              jobs[w] # None /\ jobs[w].id = c => HandedAs(c, HeldBy(w), jobs[w].done)
        /\ Given(c) => HandedAs(c, "given", received[c][1])
        /\ ~Has(workQueue, c) /\ ~WithWorker(c) /\ ~Given(c) => NotHanded(c)

LEMMA StagesHave == TypeInv /\ Held => StageValues
<1> SUFFICES ASSUME TypeInv, Held, NEW c \in NavId
             PROVE /\ Has(workQueue, c) => HandedAs(c, "queued", <<>>)
                   /\ \A w \in Worker :
                        jobs[w] # None /\ jobs[w].id = c => HandedAs(c, HeldBy(w), jobs[w].done)
                   /\ Given(c) => HandedAs(c, "given", received[c][1])
                   /\ ~Has(workQueue, c) /\ ~WithWorker(c) /\ ~Given(c) => NotHanded(c)
  BY DEF StageValues
<1> DEFINE Lost == \E w \in dead : jobs[w] # None /\ jobs[w].id = c
<1>0. Lost => WithWorker(c)
  BY DEF WithWorker, TypeInv, TypeOK, WorkType
<1>1. /\ Stage(c) = IF Has(workQueue, c) THEN "queued"
                    ELSE IF Lost THEN "lost"
                    ELSE IF WithWorker(c) THEN "held"
                    ELSE IF Given(c) THEN "given" ELSE "new"
  BY DEF Stage, Has, WithWorker, Given
<1> HIDE DEF Lost
<1>2. InOneStage(c)
  BY SeqTypes DEF Held, Stages
<1>3. /\ NavStages[c] = Stage(c)
      /\ NavLinks[c] = IF Stage(c) = "new" THEN <<>> ELSE answers[c].links
      /\ NavSettled[c] = ReplacedBy(NavLinks[c], Outcomes(c))
  BY DEF NavStages, NavLinks, NavSettled
<1>4. CASE Has(workQueue, c)
  <2>1. ~WithWorker(c) /\ ~Given(c) /\ Stage(c) = "queued"
    BY <1>1, <1>2, <1>4 DEF InOneStage, Given
  <2>2. Outcomes(c) = <<>>
    BY <2>1 DEF Outcomes
  <2> QED
    BY <1>3, <1>4, <2>1, <2>2 DEF HandedAs, WithWorker
<1>5. ASSUME NEW w \in Worker, jobs[w] # None, jobs[w].id = c
      PROVE /\ ~Has(workQueue, c) /\ ~Given(c) /\ WithWorker(c)
            /\ HandedAs(c, HeldBy(w), jobs[w].done)
  <2>1. WithWorker(c)
    BY <1>5 DEF WithWorker
  <2>5. Lost <=> w \in dead
    BY <1>5 DEF Lost, Held, NoRepetition, OneWorker, TypeInv, TypeOK, WorkType
  <2>2. ~Has(workQueue, c) /\ ~Given(c) /\ Stage(c) = HeldBy(w)
    BY <1>1, <1>2, <2>1, <2>5 DEF InOneStage, Given, HeldBy
  <2>3. (CHOOSE v \in Worker : jobs[v] # None /\ jobs[v].id = c) = w
    BY <1>5 DEF Held, NoRepetition, OneWorker
  <2>4. Outcomes(c) = jobs[w].done
    BY <2>2, <2>3 DEF Outcomes, HeldBy
  <2> QED
    BY <1>3, <2>1, <2>2, <2>4 DEF HandedAs, HeldBy
<1>6. CASE WithWorker(c)
  BY <1>5, <1>6 DEF WithWorker
<1>7. CASE ~Has(workQueue, c) /\ ~WithWorker(c) /\ Given(c)
  <2>1. Stage(c) = "given"
    BY <1>0, <1>1, <1>7
  <2>2. Outcomes(c) = received[c][1]
    BY <2>1 DEF Outcomes
  <2> QED
    BY <1>3, <1>7, <2>1, <2>2 DEF HandedAs, WithWorker
<1>8. CASE ~Has(workQueue, c) /\ ~WithWorker(c) /\ ~Given(c)
  <2>1. Stage(c) = "new"
    BY <1>0, <1>1, <1>8
  <2>2. Outcomes(c) = <<>>
    BY <2>1 DEF Outcomes
  <2>3. NavSettled[c] = <<>>
    BY <1>3, <2>2 DEF ReplacedBy
  <2> QED
    BY <1>3, <1>8, <2>1, <2>3 DEF NotHanded, WithWorker
<1> QED
  BY <1>4, <1>6, <1>7, <1>8

\* What is put has no link replaced yet, and one outcome more is one entry more.
LEMMA ReplacedMore ==
    ASSUME NEW links, NEW o \in Seq(Outcome), NEW x \in Outcome
    PROVE /\ ReplacedBy(links, <<>>) = <<>>
          /\ Len(ReplacedBy(links, o)) = Len(o)
          /\ ReplacedBy(links, Append(o, x)) =
                Append(ReplacedBy(links, o), IF x = "file" THEN links[Len(o) + 1] ELSE None)
<1> DEFINE r(i) == IF o[i] = "file" THEN links[i] ELSE None
           last == IF x = "file" THEN links[Len(o) + 1] ELSE None
           T == {r(i) : i \in DOMAIN o} \cup {last}
<1>1. ReplacedBy(links, <<>>) = <<>>
  BY DEF ReplacedBy
<1>2. ReplacedBy(links, o) \in Seq(T) /\ Len(ReplacedBy(links, o)) = Len(o)
  <2>1. ReplacedBy(links, o) = [i \in 1..Len(o) |-> r(i)]
    BY DEF ReplacedBy
  <2>2. \A i \in 1..Len(o) : r(i) \in T
    OBVIOUS
  <2> HIDE DEF r, T
  <2> QED
    BY <2>1, <2>2
<1>3. PICK s : s = ReplacedBy(links, o)
  OBVIOUS
<1>4. PICK p : p = Append(o, x)
  OBVIOUS
<1>5. /\ Len(p) = Len(o) + 1 /\ DOMAIN p = 1..(Len(o) + 1)
      /\ \A i \in 1..Len(o) : p[i] = o[i]
      /\ p[Len(o) + 1] = x
  BY <1>4
<1>6. /\ Append(s, last) \in Seq(T) /\ DOMAIN Append(s, last) = 1..(Len(o) + 1)
      /\ \A i \in 1..Len(o) : Append(s, last)[i] = s[i]
      /\ Append(s, last)[Len(o) + 1] = last
  <2>1. last \in T
    OBVIOUS
  <2> HIDE DEF T, last
  <2> QED
    BY <1>2, <1>3, <2>1
<1>7. \A i \in 1..Len(o) : s[i] = r(i)
  BY <1>3 DEF ReplacedBy
<1>8. Append(s, last) = [i \in 1..(Len(o) + 1) |-> IF p[i] = "file" THEN links[i] ELSE None]
  <2> DEFINE q == [i \in 1..(Len(o) + 1) |-> IF p[i] = "file" THEN links[i] ELSE None]
  <2>1. ASSUME NEW i \in 1..(Len(o) + 1) PROVE Append(s, last)[i] = q[i]
    <3>1. CASE i \in 1..Len(o)
      BY <1>5, <1>6, <1>7, <3>1
    <3>2. CASE i = Len(o) + 1
      BY <1>5, <1>6, <3>2
    <3>3. i \in 1..Len(o) \/ i = Len(o) + 1
      OBVIOUS
    <3> QED
      BY <3>1, <3>2, <3>3
  <2>2. \A i \in 1..(Len(o) + 1) : q[i] \in T
    BY <1>6, <2>1, ElementOfSeq
  <2>3. q \in Seq(T) /\ Len(q) = Len(o) + 1
    <3>1. q = [i \in 1..(Len(o) + 1) |-> q[i]]
      OBVIOUS
    <3> HIDE DEF q, T
    <3> QED
      BY <2>2, <3>1
  <2>4. Len(Append(s, last)) = Len(o) + 1
    BY <1>6
  <2>5. Append(s, last) = q
    <3> HIDE DEF q, T, last
    <3> QED
      BY <1>6, <2>1, <2>3, <2>4, SeqEqual
  <2> QED
    BY <2>5
<1>9. ReplacedBy(links, p) = [i \in 1..(Len(o) + 1) |-> IF p[i] = "file" THEN links[i] ELSE None]
  BY <1>5 DEF ReplacedBy
<1> QED
  BY <1>1, <1>2, <1>3, <1>4, <1>8, <1>9

-----------------------------------------------------------------------------
(* Step by step. What a step leaves where it is keeps its values.           *)

KeepsValues(c) ==
    NavStages'[c] = NavStages[c] /\ NavLinks'[c] = NavLinks[c] /\ NavSettled'[c] = NavSettled[c]

\* The place of c and what is there are the same as before.
SamePlace(c) ==
    /\ Has(workQueue', c) <=> Has(workQueue, c)
    /\ \A w \in Worker : (jobs[w] # None /\ jobs[w].id = c)
            => /\ jobs'[w] # None /\ jobs'[w].id = c
               /\ jobs'[w].done = jobs[w].done /\ HeldBy(w)' = HeldBy(w)
    /\ WithWorker(c)' => WithWorker(c)
    /\ received'[c] = received[c]

LEMMA PlaceKeeps ==
    ASSUME TypeInv, Held, StageValues, StageValues', [Next]_vars, NEW c \in NavId, SamePlace(c)
    PROVE KeepsValues(c)
<1>1. c \in ClientId
  BY SeqTypes
<1>2. CASE answers[c] = None
  <2>1. ~Has(workQueue, c) /\ ~WithWorker(c) /\ received[c] = <<>>
    BY <1>1, <1>2 DEF Held, Stages, InSomeStage
  <2>2. NotHanded(c)
    BY <2>1 DEF StageValues, Given
  <2>3. ~Has(workQueue', c) /\ ~WithWorker(c)' /\ ~Given(c)'
    BY <2>1 DEF SamePlace, Given
  <2>4. NotHanded(c)'
    BY <2>3 DEF StageValues, Has
  <2> QED
    BY <2>2, <2>4 DEF NotHanded, KeepsValues
<1>3. CASE answers[c] # None
  <2>1. answers'[c] = answers[c]
    BY <1>1, <1>3, AnswersKept
  <2>2. CASE Has(workQueue, c)
    <3>1. HandedAs(c, "queued", <<>>) /\ HandedAs(c, "queued", <<>>)'
      BY <2>2 DEF SamePlace, StageValues, Has
    <3> QED
      BY <2>1, <3>1 DEF HandedAs, KeepsValues, ReplacedBy
  <2>3. ASSUME NEW w \in Worker, jobs[w] # None, jobs[w].id = c PROVE KeepsValues(c)
    <3>1. /\ jobs'[w] # None /\ jobs'[w].id = c /\ jobs'[w].done = jobs[w].done
          /\ HeldBy(w)' = HeldBy(w)
      BY <2>3 DEF SamePlace
    <3>2. HandedAs(c, HeldBy(w), jobs[w].done) /\ HandedAs(c, HeldBy(w), jobs[w].done)'
      BY <2>3, <3>1 DEF StageValues
    <3> QED
      BY <2>1, <3>1, <3>2 DEF HandedAs, KeepsValues, ReplacedBy
  <2>4. Given(c)' <=> Given(c)
    BY <2>1 DEF SamePlace, Given
  <2>5. CASE Given(c)
    <3>1. HandedAs(c, "given", received[c][1]) /\ HandedAs(c, "given", received[c][1])'
      BY <2>4, <2>5 DEF StageValues
    <3> QED
      BY <2>1, <3>1 DEF HandedAs, KeepsValues, ReplacedBy, SamePlace
  <2>6. CASE ~Has(workQueue, c) /\ ~WithWorker(c) /\ ~Given(c)
    <3>1. ~Has(workQueue', c) /\ ~WithWorker(c)' /\ ~Given(c)'
      BY <2>4, <2>6 DEF SamePlace
    <3>2. NotHanded(c) /\ NotHanded(c)'
      BY <2>6, <3>1 DEF StageValues, Has
    <3> QED
      BY <3>2 DEF NotHanded, KeepsValues
  <2> QED
    BY <2>2, <2>3, <2>5, <2>6 DEF WithWorker
<1> QED
  BY <1>2, <1>3

\* The values of all, or of all but one, as functions.
LEMMA AllKeep ==
    ASSUME \A c \in NavId : KeepsValues(c)
    PROVE UNCHANGED <<NavStages, NavLinks, NavSettled>>
  BY DEF KeepsValues, NavStages, NavLinks, NavSettled

LEMMA OneMoves ==
    ASSUME NEW d \in NavId, \A c \in NavId : c # d => KeepsValues(c)
    PROVE /\ NavStages' = [NavStages EXCEPT ![d] = NavStages'[d]]
          /\ NavLinks' = [NavLinks EXCEPT ![d] = NavLinks'[d]]
          /\ NavSettled' = [NavSettled EXCEPT ![d] = NavSettled'[d]]
          /\ NavStages'[d] = NavStages[d] => UNCHANGED NavStages
          /\ NavLinks'[d] = NavLinks[d] => UNCHANGED NavLinks
          /\ NavSettled'[d] = NavSettled[d] => UNCHANGED NavSettled
<1>1. /\ NavStages = [c \in NavId |-> NavStages[c]] /\ NavStages' = [c \in NavId |-> NavStages'[c]]
      /\ NavLinks = [c \in NavId |-> NavLinks[c]] /\ NavLinks' = [c \in NavId |-> NavLinks'[c]]
      /\ NavSettled = [c \in NavId |-> NavSettled[c]]
      /\ NavSettled' = [c \in NavId |-> NavSettled'[c]]
  BY DEF NavStages, NavLinks, NavSettled
<1> QED
  BY <1>1 DEF KeepsValues

LEMMA ElsewhereKeeps ==
    ASSUME TypeInv, Held, StageValues, StageValues', [Next]_vars, NEW d,
           \A c \in NavId : c # d => /\ Has(workQueue', c) <=> Has(workQueue, c)
                                     /\ received'[c] = received[c],
           \A w \in Worker : \/ jobs'[w] = jobs[w] /\ HeldBy(w)' = HeldBy(w)
                             \/ /\ jobs[w] # None => jobs[w].id = d
                                /\ jobs'[w] # None => jobs'[w].id = d
    PROVE \A c \in NavId : c # d => KeepsValues(c)
<1> SUFFICES ASSUME NEW c \in NavId, c # d PROVE SamePlace(c)
  BY PlaceKeeps
<1> QED
  BY DEF SamePlace, WithWorker

-----------------------------------------------------------------------------
\* Only answers the pump has looked into are put into the queue.
Noted == \A c \in NavId : Has(workQueue, c) \/ WithWorker(c) => answers[c].marked

LEMMA NotedInit == Init => Noted
  BY DEF Init, Noted, Has, WithWorker

LEMMA NotedNext ==
    ASSUME TypeInv, Held, Noted, [Next]_vars
    PROVE Noted'
<1> DEFINE Enters(c) == stdout # <<>> /\ c = Head(stdout) /\ answers[c].marked
           Goal == \A c \in NavId : Has(workQueue', c) \/ WithWorker(c)'
                        => Has(workQueue, c) \/ WithWorker(c)
                           \/ (Enters(c) /\ UNCHANGED answers)
<1>1. ASSUME UNCHANGED <<workQueue, jobs>> PROVE Goal
  BY <1>1 DEF WithWorker
<1>2. ASSUME PumpClientAnswer PROVE Goal
  <2>1. PICK d : d = Head(stdout)
    OBVIOUS
  <2>2. UNCHANGED <<jobs, answers>> /\ stdout # <<>> /\ answers[d].marked
    BY <1>2, <2>1 DEF PumpClientAnswer
  <2>3. CASE d \in navRequests
    <3>1. workQueue' = Append(workQueue, d) /\ d \in NavId
      BY <1>2, <2>1, <2>3 DEF PumpClientAnswer, Route, TypeInv, TypeOK, OtherType
    <3>2. \A x : Has(workQueue', x) => Has(workQueue, x) \/ x = d
      BY <3>1, SeqTypes, AppendElements DEF Has
    <3>3. \A c : WithWorker(c)' <=> WithWorker(c)
      BY <2>2 DEF WithWorker
    <3> QED
      BY <2>1, <2>2, <3>2, <3>3
  <2>4. CASE d \notin navRequests
    <3>1. UNCHANGED workQueue
      BY <1>2, <2>1, <2>4 DEF PumpClientAnswer, Route
    <3> QED
      BY <1>1, <2>2, <3>1
  <2> QED
    BY <2>3, <2>4
<1>3. ASSUME NEW w \in Worker, WorkerStep(w) PROVE Goal
  <2>1. CASE TakeJob(w)
    <3> DEFINE j == [id |-> Head(workQueue), done |-> <<>>, call |-> 0]
    <3>1. /\ workQueue # <<>> /\ workQueue' = Tail(workQueue)
          /\ jobs' = [jobs EXCEPT ![w] = j]
      BY <2>1 DEF TakeJob
    <3>2. j.id = Head(workQueue)
      OBVIOUS
    <3> HIDE DEF j
    <3>3. \A v \in Worker : jobs'[v] = jobs[v] \/ jobs'[v].id = Head(workQueue)
      BY <3>1, <3>2 DEF TypeInv, TypeOK, WorkType
    <3>4. \A x : Has(workQueue', x) \/ x = Head(workQueue) => Has(workQueue, x)
      BY <3>1, SeqTypes, TailElements DEF Has
    <3> QED
      BY <3>3, <3>4 DEF WithWorker
  <2>2. CASE ~TakeJob(w)
    <3>1. UNCHANGED workQueue
      BY <1>3, <2>2 DEF WorkerStep, Panic, CacheHit, CacheMiss, StoreFile, StoreFails, NoCode,
         FinishJob
    <3>2. \A v \in Worker : jobs'[v] # None => jobs[v] # None /\ jobs'[v].id = jobs[v].id
      <4>1. CASE CacheMiss(w)
        <5> PICK n : n = nextProxyId
          OBVIOUS
        <5> DEFINE j == [jobs[w] EXCEPT !.call = n]
        <5>1. jobs[w] # None /\ jobs' = [jobs EXCEPT ![w] = j]
          BY <4>1 DEF CacheMiss, AtLink
        <5>2. j.id = jobs[w].id
          BY <5>1, LinkTypes DEF Job
        <5> HIDE DEF j
        <5> QED
          BY <5>1, <5>2 DEF TypeInv, TypeOK, WorkType
      <4>2. ASSUME NEW o, LinkDone(w, o), jobs[w] # None
            PROVE \A v \in Worker : jobs'[v] # None => jobs[v] # None /\ jobs'[v].id = jobs[v].id
        BY <4>2 DEF LinkDone, TypeInv, TypeOK, WorkType
      <4>3. CASE FinishJob(w)
        BY <4>3 DEF FinishJob, TypeInv, TypeOK, WorkType
      <4>4. CASE Panic(w)
        BY <4>4 DEF Panic
      <4> QED
        BY <1>3, <2>2, <4>1, <4>2, <4>3, <4>4
           DEF WorkerStep, CacheHit, StoreFile, StoreFails, NoCode, AtLink, Calling
    <3> QED
      BY <3>1, <3>2 DEF WithWorker
  <2> QED
    BY <2>1, <2>2
<1>4. ASSUME Client \/ Backend \/ MainThread PROVE Goal
  BY <1>1, <1>4 DEF Client, ClientInitialize, ClientRequest, ClientPicks, Backend,
     AnswerClient, AnswerCall, ServerChoose, MainThread, TakeRequest, ForwardRequest, TakeSave,
     TakeReply, work
<1>5. ASSUME PumpFastPath \/ PumpCallReply \/ PumpChooseAction \/ PumpNoSession \/ Calls
             \/ UNCHANGED vars
      PROVE Goal
  BY <1>1, <1>5 DEF PumpFastPath, PumpCallReply, PumpChooseAction, PumpNoSession, Calls, StartCall, SendCall,
     TimeoutCall, vars, work
<1>6. ASSUME NEW m \in Manual, ControlReload(m) PROVE Goal
  BY <1>1, <1>6 DEF ControlReload, work
<1> HIDE DEF Goal
<1>7. Goal
  BY <1>2, <1>3, <1>4, <1>5, <1>6 DEF Next, PumpThread, Calls
<1>8. ASSUME NEW c \in NavId, Has(workQueue, c) \/ WithWorker(c) PROVE answers'[c] = answers[c]
  BY <1>8, SeqTypes, AnswersKept DEF Held, Stages, InSomeStage
<1> QED
  BY <1>7, <1>8 DEF Goal, Noted

-----------------------------------------------------------------------------
\* The steps of Workers.
LEMMA HandingStutters ==
    ASSUME TypeInv, Held, StageValues, StageValues', [Next]_vars,
           UNCHANGED <<workQueue, jobs, dead, received, cache>>
    PROVE UNCHANGED Handing!vars
<1>1. \A c \in NavId : SamePlace(c)
  BY DEF SamePlace, WithWorker, HeldBy
<1>2. UNCHANGED <<NavStages, NavLinks, NavSettled>>
  BY <1>1, PlaceKeeps, AllKeep
<1> QED
  BY <1>2 DEF Handing!vars

LEMMA HandingFastPath ==
    ASSUME TypeInv, Held, StageValues, StageValues', [Next]_vars, PumpFastPath
    PROVE UNCHANGED Handing!vars
<1>1. PICK d : d = Head(stdout)
  OBVIOUS
<1>2. /\ d \in ClientId /\ stdout # <<>> /\ ~answers[d].marked /\ Deliver(d, Untouched(d))
      /\ UNCHANGED <<answers, workQueue, jobs, dead, cache>>
  BY <1>1 DEF PumpFastPath, work, files
<1>3. Has(stdout, d)
  BY <1>1, <1>2, SeqTypes, TailDistinct DEF Held, NoRepetition
<1>4. /\ ~Has(workQueue, d) /\ ~WithWorker(d) /\ received[d] = <<>> /\ answers[d] # None
  BY <1>2, <1>3 DEF Held, Stages, InOneStage, InSomeStage
<1>5. \A x \in ClientId : x # d => received'[x] = received[x]
  BY <1>2, <1>4, UntouchedTypes, DeliverTypes DEF TypeInv, TypeOK
<1>6. \A c \in NavId : c # d => KeepsValues(c)
  BY <1>2, <1>5, SeqTypes, ElsewhereKeeps DEF HeldBy
<1>7. ASSUME d \in NavId PROVE KeepsValues(d)
  <2>1. ~Given(d) /\ ~Given(d)'
    BY <1>2, <1>4 DEF Given
  <2>2. ~Has(workQueue', d) /\ ~WithWorker(d)'
    BY <1>2, <1>4 DEF WithWorker
  <2>3. NotHanded(d) /\ NotHanded(d)'
    BY <1>4, <1>7, <2>1, <2>2 DEF StageValues, Has
  <2> QED
    BY <2>3 DEF NotHanded, KeepsValues
<1>8. UNCHANGED <<NavStages, NavLinks, NavSettled>>
  BY <1>6, <1>7, AllKeep
<1> QED
  BY <1>2, <1>8 DEF Handing!vars

LEMMA HandingPuts ==
    ASSUME TypeInv, Held, Sent, Tracking, StageValues, StageValues', [Next]_vars,
           PumpClientAnswer
    PROVE Handing!Next \/ UNCHANGED Handing!vars
<1>1. PICK d : d = Head(stdout)
  OBVIOUS
<1>2. /\ d \in ClientId /\ stdout # <<>> /\ Route(d)
      /\ UNCHANGED <<answers, jobs, dead, cache>>
  BY <1>1 DEF PumpClientAnswer, files
<1>3. Has(stdout, d)
  BY <1>1, <1>2, SeqTypes, TailDistinct DEF Held, NoRepetition
<1>4. /\ ~Has(workQueue, d) /\ ~WithWorker(d) /\ received[d] = <<>> /\ answers[d] # None
  BY <1>2, <1>3 DEF Held, Stages, InOneStage, InSomeStage
<1>5. CASE d \in NavId
  <2>1. workQueue' = Append(workQueue, d) /\ UNCHANGED received
    <3>1. d \in written
      BY <1>2, <1>4 DEF Sent
    <3>2. d \in navRequests
      BY <1>3, <1>5, <3>1 DEF Tracking, Awaited
    <3> QED
      BY <1>2, <3>2 DEF Route
  <2>2. \A x : Has(workQueue', x) <=> Has(workQueue, x) \/ x = d
    BY <1>5, <2>1, SeqTypes, AppendElements DEF Has
  <2>3. \A c \in NavId : c # d => KeepsValues(c)
    BY <1>2, <2>1, <2>2, ElsewhereKeeps DEF HeldBy
  <2>4. NotHanded(d)
    BY <1>4, <1>5 DEF StageValues, Given
  <2>5. HandedAs(d, "queued", <<>>)'
    BY <1>5, <2>2 DEF StageValues, Has
  <2>6. answers'[d].links \in Seq(Uri)
    <3>1. answers[d] \in Answer
      BY <1>2, <1>4 DEF TypeInv, TypeOK, BackendType
    <3> QED
      BY <1>2, <3>1 DEF Answer
  <2>7. NavSettled'[d] = NavSettled[d] /\ NavStages'[d] = "queued" /\ NavLinks'[d] \in Seq(Uri)
    BY <2>4, <2>5, <2>6 DEF NotHanded, HandedAs, ReplacedBy
  <2>8. Handing!Put(d)
    BY <1>2, <1>5, <2>3, <2>4, <2>7, OneMoves DEF Handing!Put, Handing!Move, NotHanded
  <2> QED
    BY <1>5, <2>8 DEF Handing!Next
<1>6. CASE d \notin NavId
  <2>1. Deliver(d, Untouched(d)) /\ UNCHANGED workQueue
    BY <1>2, <1>6 DEF Route, TypeInv, TypeOK, OtherType
  <2>2. \A x \in ClientId : x # d => received'[x] = received[x]
    BY <1>2, <1>4, <2>1, UntouchedTypes, DeliverTypes DEF TypeInv, TypeOK
  <2>3. \A c \in NavId : c # d => KeepsValues(c)
    BY <1>2, <2>1, <2>2, SeqTypes, ElsewhereKeeps DEF HeldBy
  <2>4. UNCHANGED <<NavStages, NavLinks, NavSettled>>
    BY <1>6, <2>3, AllKeep
  <2> QED
    BY <1>2, <2>4 DEF Handing!vars
<1> QED
  BY <1>5, <1>6

LEMMA HandingTakes ==
    ASSUME TypeInv, Held, StageValues, StageValues', [Next]_vars, NEW w \in Worker \ dead, TakeJob(w)
    PROVE Handing!Next
<1>1. PICK d : d = Head(workQueue)
  OBVIOUS
<1> DEFINE j == [id |-> d, done |-> <<>>, call |-> 0]
<1>2. /\ workQueue # <<>> /\ workQueue' = Tail(workQueue) /\ jobs[w] = None
      /\ jobs' = [jobs EXCEPT ![w] = j]
      /\ UNCHANGED <<answers, dead, received, cache>>
  BY <1>1 DEF TakeJob, client, backend, files
<1>3. /\ \A x : Has(workQueue, x) <=> x = d \/ Has(workQueue', x)
      /\ d \in NavId
  BY <1>1, <1>2, SeqTypes, TailDistinct, TailElements DEF Held, NoRepetition
<1>4. j # None /\ j.id = d /\ j.done = <<>>
  <2>1. <<>> \in Seq(Outcome)
    OBVIOUS
  <2>2. j \in Job
    BY <1>3, <2>1 DEF Job
  <2> QED
    BY <2>2, NoneAssumption
<1> HIDE DEF j
<1>5. jobs'[w] = j /\ \A v \in Worker : v # w => jobs'[v] = jobs[v]
  BY <1>2 DEF TypeInv, TypeOK, WorkType
<1>6. \A c \in NavId : c # d => KeepsValues(c)
  BY <1>2, <1>3, <1>4, <1>5, ElsewhereKeeps DEF HeldBy
<1>7. HandedAs(d, "queued", <<>>)
  BY <1>3 DEF StageValues
<1>8. HandedAs(d, "held", <<>>)'
  BY <1>2, <1>3, <1>4, <1>5 DEF StageValues, HeldBy
<1>9. /\ NavLinks'[d] = NavLinks[d] /\ NavSettled'[d] = NavSettled[d]
      /\ NavStages[d] = "queued" /\ NavStages'[d] = "held"
  BY <1>2, <1>7, <1>8 DEF HandedAs, ReplacedBy
<1>10. Handing!Take(d)
  BY <1>2, <1>3, <1>6, <1>9, OneMoves DEF Handing!Take, Handing!Move
<1> QED
  BY <1>3, <1>10 DEF Handing!Next

LEMMA HandingSettles ==
    ASSUME TypeInv, Held, StageValues, StageValues', [Next]_vars,
           NEW w \in Worker \ dead, NEW o \in Outcome, jobs[w] # None, LinkDone(w, o),
           Len(jobs[w].done) < Len(Links(w)),
           UNCHANGED <<workQueue, dead, answers, received>>,
           cache' = cache \/ (o = "file" /\ cache' = cache \cup {ThisUri(w)}),
           o = "file" => ThisUri(w) \in cache'
    PROVE Handing!Next
<1>1. PICK d, n, u : d = jobs[w].id /\ n = jobs[w].done /\ u = ThisUri(w)
  OBVIOUS
<1>2. /\ d \in NavId /\ n \in Seq(Outcome) /\ u \in Uri /\ u # None
      /\ Links(w) = answers[d].links /\ u = answers[d].links[Len(n) + 1]
  BY <1>1, LinkTypes, NoneAssumption DEF Links, ThisUri
<1> DEFINE j == [id |-> d, call |-> 0, done |-> Append(n, o)]
           r == IF o = "file" THEN u ELSE None
<1>3. jobs' = [jobs EXCEPT ![w] = j]
  BY <1>1 DEF LinkDone
<1>4. j # None /\ j.id = d /\ j.done = Append(n, o)
  <2>1. Append(n, o) \in Seq(Outcome)
    BY <1>2
  <2>2. j \in Job
    BY <1>2, <2>1 DEF Job
  <2> QED
    BY <2>2, NoneAssumption
<1> HIDE DEF j
<1>5. jobs'[w] = j /\ \A v \in Worker : v # w => jobs'[v] = jobs[v]
  BY <1>3 DEF TypeInv, TypeOK, WorkType
<1>6. \A c \in NavId : c # d => KeepsValues(c)
  BY <1>1, <1>4, <1>5, ElsewhereKeeps DEF HeldBy
<1>7. HandedAs(d, "held", n)
  BY <1>1, <1>2 DEF StageValues, HeldBy
<1>8. HandedAs(d, "held", Append(n, o))'
  BY <1>2, <1>4, <1>5 DEF StageValues, HeldBy
<1>9. /\ NavStages[d] = "held" /\ NavStages'[d] = NavStages[d]
      /\ NavLinks[d] = answers[d].links /\ NavLinks'[d] = NavLinks[d]
  BY <1>7, <1>8 DEF HandedAs
<1>10. Len(NavSettled[d]) = Len(n) /\ NavSettled'[d] = Append(NavSettled[d], r)
  <2>1. /\ NavSettled[d] = ReplacedBy(answers[d].links, n)
        /\ NavSettled'[d] = ReplacedBy(answers[d].links, Append(n, o))
    BY <1>7, <1>8 DEF HandedAs, ReplacedBy
  <2> QED
    BY <1>2, <2>1, ReplacedMore
<1>11. /\ UNCHANGED <<NavStages, NavLinks>>
       /\ NavSettled' = [NavSettled EXCEPT ![d] = Append(@, r)]
  BY <1>2, <1>6, <1>9, <1>10, OneMoves
<1>12. /\ r \in Uri \cup {None}
       /\ cache' = cache \/ (r # None /\ cache' = cache \cup {r})
       /\ r # None => r \in FilesOf(NavLinks[d][Len(NavSettled[d]) + 1]) \cap cache'
  BY <1>1, <1>2, <1>9, <1>10 DEF FilesOf
<1> HIDE DEF r
<1>13. Handing!Settle(d, r)
  BY <1>1, <1>2, <1>9, <1>10, <1>11, <1>12 DEF Handing!Settle
<1> QED
  BY <1>2, <1>12, <1>13 DEF Handing!Next

LEMMA HandingAsks ==
    ASSUME TypeInv, Held, StageValues, StageValues', [Next]_vars, NEW w \in Worker \ dead, CacheMiss(w)
    PROVE UNCHANGED Handing!vars
<1>1. PICK n : n = nextProxyId
  OBVIOUS
<1> DEFINE j == [jobs[w] EXCEPT !.call = n]
<1>2. /\ jobs[w] # None /\ jobs' = [jobs EXCEPT ![w] = j] /\ n \in ProxyId
      /\ UNCHANGED <<workQueue, dead, received, cache>>
  BY <1>1 DEF CacheMiss, AtLink, Register, client, files
<1>3. j # None /\ j.id = jobs[w].id /\ j.done = jobs[w].done
  <2>1. j \in Job
    BY <1>2, LinkTypes DEF Job
  <2> QED
    BY <1>2, <2>1, LinkTypes, NoneAssumption DEF Job
<1> HIDE DEF j
<1>4. jobs'[w] = j /\ \A v \in Worker : v # w => jobs'[v] = jobs[v]
  BY <1>2 DEF TypeInv, TypeOK, WorkType
<1>5. \A c \in NavId : SamePlace(c)
  BY <1>2, <1>3, <1>4 DEF SamePlace, WithWorker, HeldBy
<1>6. UNCHANGED <<NavStages, NavLinks, NavSettled>>
  BY <1>5, PlaceKeeps, AllKeep
<1> QED
  BY <1>2, <1>6 DEF Handing!vars

LEMMA HandingGives ==
    ASSUME TypeInv, Held, Held', Noted, StageValues, StageValues', [Next]_vars,
           NEW w \in Worker \ dead, FinishJob(w)
    PROVE Handing!Next
<1>1. PICK d, n : d = jobs[w].id /\ n = jobs[w].done
  OBVIOUS
<1>2. /\ jobs[w] # None /\ Len(n) = Len(Links(w))
      /\ Deliver(d, n) /\ jobs' = [jobs EXCEPT ![w] = None]
      /\ UNCHANGED <<answers, workQueue, dead, cache>>
  BY <1>1 DEF FinishJob, backend, files
<1>3. d \in NavId /\ d \in ClientId /\ n \in Seq(Outcome) /\ Links(w) = answers[d].links
  BY <1>1, <1>2, LinkTypes, SeqTypes DEF Links
<1>4. WithWorker(d) /\ received[d] = <<>> /\ answers[d] # None /\ answers[d].marked
  BY <1>1, <1>2, <1>3 DEF WithWorker, Held, Stages, InOneStage, InSomeStage, Noted
<1>5. /\ received'[d] = Append(received[d], n)
      /\ \A x \in ClientId : x # d => received'[x] = received[x]
  BY <1>2, <1>3, DeliverTypes DEF TypeInv, TypeOK
<1>6. received'[d] # <<>> /\ received'[d][1] = n
  BY <1>4, <1>5
<1>7. jobs'[w] = None /\ \A v \in Worker : v # w => jobs'[v] = jobs[v]
  BY <1>2 DEF TypeInv, TypeOK, WorkType
<1>8. \A c \in NavId : c # d => KeepsValues(c)
  BY <1>1, <1>2, <1>5, <1>7, SeqTypes, ElsewhereKeeps DEF HeldBy
<1>9. HandedAs(d, "held", n)
  BY <1>1, <1>2, <1>3 DEF StageValues, HeldBy
<1>10. HandedAs(d, "given", n)'
  <2>1. Given(d)'
    BY <1>2, <1>4, <1>6 DEF Given
  <2> QED
    BY <1>3, <1>6, <2>1 DEF StageValues
<1>11. /\ NavStages[d] = "held" /\ NavStages'[d] = "given"
       /\ NavLinks[d] = answers[d].links /\ NavLinks'[d] = NavLinks[d]
       /\ NavSettled[d] = ReplacedBy(answers[d].links, n) /\ NavSettled'[d] = NavSettled[d]
  BY <1>2, <1>9, <1>10 DEF HandedAs, ReplacedBy
<1>12. Len(NavSettled[d]) = Len(NavLinks[d])
  <2>1. Len(ReplacedBy(answers[d].links, n)) = Len(n)
    BY <1>3, ReplacedMore DEF Outcome
  <2> QED
    BY <1>2, <1>3, <1>11, <2>1
<1>13. Handing!Give(d)
  BY <1>2, <1>3, <1>8, <1>11, <1>12, OneMoves DEF Handing!Give, Handing!Move
<1> QED
  BY <1>3, <1>13 DEF Handing!Next

\* A worker that panics loses the answer it has; the other answers stay.
LEMMA HandingLoses ==
    ASSUME TypeInv, Held, StageValues, StageValues', [Next]_vars,
           NEW w \in Worker \ dead, Panic(w)
    PROVE Handing!Next
<1>1. PICK d, n : d = jobs[w].id /\ n = jobs[w].done
  OBVIOUS
<1>2. /\ jobs[w] # None /\ dead' = dead \cup {w}
      /\ UNCHANGED <<answers, workQueue, jobs, received, cache>>
  BY DEF Panic, AtLink, client, backend, files
<1>3. d \in NavId
  BY <1>1, <1>2, LinkTypes
<1>4. \A v \in Worker : v = w \/ (jobs'[v] = jobs[v] /\ HeldBy(v)' = HeldBy(v))
  BY <1>2 DEF HeldBy
<1>5. \A c \in NavId : c # d => KeepsValues(c)
  BY <1>1, <1>2, <1>4, ElsewhereKeeps
<1>6. HandedAs(d, "held", n)
  BY <1>1, <1>2, <1>3 DEF StageValues, HeldBy
<1>7. HandedAs(d, "lost", n)'
  BY <1>1, <1>2, <1>3 DEF StageValues, HeldBy
<1>8. /\ NavStages[d] = "held" /\ NavStages'[d] = "lost"
      /\ NavLinks'[d] = NavLinks[d] /\ NavSettled'[d] = NavSettled[d]
  BY <1>2, <1>6, <1>7 DEF HandedAs, ReplacedBy
<1>9. Handing!Lose(d)
  BY <1>2, <1>3, <1>5, <1>8, OneMoves DEF Handing!Lose, Handing!Move
<1> QED
  BY <1>3, <1>9 DEF Handing!Next

LEMMA HandingWorker ==
    ASSUME TypeInv, Held, Held', Stuck, Noted, StageValues, StageValues', [Next]_vars,
           NEW w \in Worker, WorkerStep(w)
    PROVE Handing!Next \/ UNCHANGED Handing!vars
<1>1. ASSUME Calling(w) PROVE jobs[w] # None /\ Len(jobs[w].done) < Len(Links(w))
  BY <1>1 DEF Calling, TypeInv, Existing, JobsExist
<1>2. "file" \in Outcome /\ "raw" \in Outcome /\ "raw" # "file"
  BY DEF Outcome
<1>0. w \in Worker \ dead
  BY LiveWorker
<1>3. CASE TakeJob(w)
  BY <1>0, <1>3, HandingTakes
<1>4. CASE CacheHit(w)
  BY <1>0, <1>2, <1>4, HandingSettles DEF CacheHit, AtLink, client, backend, files
<1>5. CASE CacheMiss(w)
  BY <1>0, <1>5, HandingAsks
<1>6. CASE StoreFile(w)
  BY <1>0, <1>1, <1>2, <1>6, HandingSettles DEF StoreFile, client, backend
<1>7. CASE StoreFails(w)
  BY <1>0, <1>1, <1>2, <1>7, HandingSettles DEF StoreFails, client, backend
<1>8. CASE NoCode(w)
  BY <1>0, <1>1, <1>2, <1>8, HandingSettles DEF NoCode, client, backend, files
<1>9. CASE FinishJob(w)
  BY <1>0, <1>9, HandingGives
<1>10. CASE Panic(w)
  BY <1>0, <1>10, HandingLoses
<1> QED
  BY <1>3, <1>4, <1>5, <1>6, <1>7, <1>8, <1>9, <1>10 DEF WorkerStep

LEMMA HandingStep ==
    ASSUME TypeInv, Held, Held', Stuck, Sent, Tracking, Noted, StageValues, StageValues',
           [Next]_vars
    PROVE [Handing!Next]_(Handing!vars)
<1>1. ASSUME UNCHANGED <<workQueue, jobs, dead, received, cache>>
      PROVE UNCHANGED Handing!vars
  BY <1>1, HandingStutters
<1>2. CASE Client \/ Backend \/ MainThread
  BY <1>1, <1>2 DEF Client, ClientInitialize, ClientRequest, ClientPicks, Backend,
     AnswerClient, AnswerCall, ServerChoose, MainThread, TakeRequest, ForwardRequest, TakeSave,
     TakeReply, work, client, files
<1>3. CASE PumpCallReply \/ PumpChooseAction \/ PumpNoSession \/ Calls \/ UNCHANGED vars
  BY <1>1, <1>3 DEF PumpCallReply, Swallow, PumpChooseAction, PumpNoSession, Calls, StartCall,
     SendCall, TimeoutCall, vars, work, client, files
<1>4. CASE PumpFastPath
  BY <1>4, HandingFastPath
<1>5. CASE PumpClientAnswer
  BY <1>5, HandingPuts
<1>6. ASSUME NEW w \in Worker, WorkerStep(w) PROVE Handing!Next \/ UNCHANGED Handing!vars
  BY <1>6, HandingWorker
<1>7. ASSUME NEW m \in Manual, ControlReload(m) PROVE UNCHANGED Handing!vars
  BY <1>1, <1>7 DEF ControlReload, work, client, files
<1> QED
  BY <1>2, <1>3, <1>4, <1>5, <1>6, <1>7 DEF Next, PumpThread

LEMMA HandingInit == Init => Handing!Init
<1> SUFFICES ASSUME Init PROVE Handing!Init
  OBVIOUS
<1>1. \A c \in NavId : Stage(c) = "new"
  <2>1. workQueue = <<>> /\ DOMAIN workQueue = {}
    BY DEF Init
  <2>2. \A c \in NavId : answers[c] = None
    BY DEF Init, ClientId
  <2>3. dead = {} /\ \A w \in Worker : jobs[w] = None
    BY DEF Init
  <2> QED
    BY <2>1, <2>2, <2>3 DEF Stage
<1>2. \A c \in NavId : NavStages[c] = "new" /\ NavLinks[c] = <<>>
  BY <1>1 DEF NavStages, NavLinks
<1>3. \A c \in NavId : NavSettled[c] = <<>>
  BY <1>1 DEF NavSettled, Outcomes, ReplacedBy
<1>4. NavLinks \in [NavId -> Seq(Uri)]
  <2>1. <<>> \in Seq(Uri)
    OBVIOUS
  <2> QED
    BY <1>2, <2>1 DEF NavLinks
<1>5. NavStages = [c \in NavId |-> "new"] /\ NavSettled = [c \in NavId |-> <<>>]
  BY <1>2, <1>3 DEF NavStages, NavSettled
<1> QED
  BY <1>4, <1>5 DEF Init, Handing!Init

\* Only answers the pump has found one of the words of the fast path in are
\* queued or with a worker.
THEOREM NotedInvariant == Spec => []Noted
<1>1. TypeInv /\ Held /\ Noted /\ [Next]_vars => Noted'
  BY NotedNext
<1> QED
  BY <1>1, NotedInit, HeldInvariant, PTL DEF Spec

\* The proxy with all its threads hands a navigation answer to the workers as
\* Workers has it: from the queue to one worker, link by link, and to the client
\* when every link is settled, by files of the cache, or no further if its worker
\* dies of it. Decompile implements the same specification.
THEOREM HandingImplemented == Spec => HandingSafety
<1>1. TypeInv /\ Held /\ Held' /\ Stuck /\ Sent /\ Tracking /\ Noted /\ StageValues
        /\ StageValues' /\ [Next]_vars => [Handing!Next]_(Handing!vars)
  BY HandingStep
<1>2. Spec => [](TypeInv /\ Held /\ Stuck /\ Sent /\ Tracking /\ Noted /\ StageValues)
  BY StagesHave, HeldInvariant, StuckInvariant, SentInvariant, TrackingInvariant, NotedInvariant, PTL
<1> QED
  BY <1>1, <1>2, HandingInit, PTL DEF Spec, Handing!Spec, HandingSafety
=============================================================================
