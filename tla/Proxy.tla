------------------------------- MODULE Proxy -------------------------------
(***************************************************************************)
(* The LSP proxy of proxy/src/main.rs: two pumps, two decompile workers,   *)
(* the one-shot threads that call the backend, and the reload command of   *)
(* the control channel (proxy/src/control.rs).                             *)
(*                                                                         *)
(* A frame is named by what identifies it: a client request and its answer *)
(* by the client's id, a saved document by its SaveId, a call of the proxy *)
(* (and its answer), or a prompt shown to the client (and its reply) by    *)
(* the number behind the "ij-proxy:" prefix, a chooseAction            *)
(* notification of the backend by its session.                             *)
(***************************************************************************)
EXTENDS Naturals, Sequences

CONSTANTS
    InitId,      \* the id of the client's initialize request
    NavId,       \* ids of requests whose method is in NAV_METHODS
    PlainId,     \* ids of all other requests
    SaveId,      \* didSave notifications
    BuildSave,   \* those of a build descriptor (buildfiles.rs)
    Manual,      \* __reload_workspace requests of the control channel
    Session,     \* chooseAction sessions of the backend
    Title,       \* titles of menu entries
    Menu,        \* Menu[s]: the entries of session s, in order
    Uri,         \* archive URIs (jar:, jrt:)
    PanicUri,    \* those whose decoding for the cache path panics
    AnswersTo,   \* AnswersTo[c]: the answers the backend may give to c
    Worker,      \* the decompile workers
    MaxProxyId,  \* bound on next_proxy_id
    None

ClientId == {InitId} \cup NavId \cup PlainId
ProxyId == 1..MaxProxyId
Outcome == {"file", "raw"}

\* What an answer of the backend carries that the proxy looks at: whether its
\* bytes contain one of the words of the fast path, the archive URIs found in
\* it (in traversal order), and whether it reports an indexDir.
Answer == [marked: BOOLEAN, links: Seq(Uri), dir: BOOLEAN]

\* A call of the proxy, the one-shot thread that is to make it, and what a
\* worker has of an answer: the outcome of the links done and the call it
\* waits for (0: none).
Method == {"reload", "autoActivate", "chooseMod", "decompile"}
CallStatus == {"registered", "waiting", "ok", "empty", "error", "timeout"}
Cause == {None} \cup BuildSave \cup Manual \cup Uri \cup (Session \X Nat)
Thread == [method: Method, arg: Cause]
Call == [method: Method, arg: Cause, status: CallStatus]
Job == [id: NavId, done: Seq(Outcome), call: ProxyId \cup {0}]

ASSUME IdsDisjoint ==
    /\ InitId \notin NavId \cup PlainId \cup SaveId \cup Session \cup ProxyId
    /\ NavId \cap (PlainId \cup SaveId \cup Session \cup ProxyId) = {}
    /\ PlainId \cap (SaveId \cup Session \cup ProxyId) = {}
    /\ SaveId \cap (Session \cup ProxyId) = {}
    /\ Session \cap ProxyId = {}

ASSUME BoundAssumption == MaxProxyId \in Nat

ASSUME SavesAssumption == BuildSave \subseteq SaveId

ASSUME PanicAssumption == PanicUri \subseteq Uri

\* An archive URI in a body is one of the words the fast path looks for.
ASSUME AnswersAssumption ==
    /\ AnswersTo \in [ClientId -> SUBSET Answer]
    /\ \A c \in ClientId : \A a \in AnswersTo[c] : a.links # <<>> => a.marked

ASSUME MenuAssumption ==
    /\ Menu \in [Session -> Seq([name: Title, index: Nat])]
    /\ "dismissed" \notin Title

ASSUME NoneAssumption ==
    /\ None \notin ClientId \cup SaveId \cup Session \cup ProxyId
    /\ None \notin Title \cup Uri
    /\ None \notin {"ok", "empty", "error", "dismissed"}
    /\ None \notin Answer /\ None \notin Call /\ None \notin Job

VARIABLES
    \* the client
    asked,          \* requests and saves the client has sent
    received,       \* received[id]: what the client got under id, per delivery
    prompts,        \* prompts[p]: the session whose menu prompt p shows
    picked,         \* picked[p]: the title picked at prompt p, or "dismissed"
    stdin,          \* frames on the way from the client
    \* the backend
    written,        \* frames written to the server's stdin
    answers,        \* answers[c]: the backend's answer to c
    replies,        \* replies[p]: the backend's reply to call p
    menus,          \* sessions the backend has announced
    stdout,         \* frames on the way from the backend
    \* Shared
    navRequests, pendingServer, pendingClient, nextProxyId,
    initOptions,    \* init_options is not null
    bare,           \* history: the initialize request had no params
    initializeId, discoveryDone,
    indexDir,       \* index_dir is known
    \* threads
    hand,           \* request the main thread has registered, not yet written
    spawned,        \* one-shot threads that have not called yet
    calls,          \* calls[p]: the proxy call with id p
    workQueue,
    jobs,           \* jobs[w]: the answer worker w has, or has died of
    dead,           \* workers that have panicked
    \* the decompile cache and the control channel
    cache, writeFailed, manual

client == <<asked, received, prompts, picked, stdin>>
backend == <<written, answers, replies, menus, stdout>>
init == <<initOptions, bare, initializeId, discoveryDone, indexDir>>
rpc == <<pendingServer, nextProxyId, calls>>
files == <<cache, writeFailed>>
work == <<workQueue, jobs, dead>>
vars == <<client, backend, init, rpc, files, work,
          navRequests, pendingClient, hand, spawned, manual>>

Init ==
    /\ asked = {} /\ stdin = <<>>
    /\ received = [id \in ClientId \cup ProxyId |-> <<>>]
    /\ prompts = [p \in ProxyId |-> None] /\ picked = [p \in ProxyId |-> None]
    /\ written = {} /\ stdout = <<>> /\ menus = {}
    /\ answers = [c \in ClientId |-> None] /\ replies = [p \in ProxyId |-> None]
    /\ navRequests = {} /\ pendingServer = {} /\ pendingClient = {}
    /\ nextProxyId = 1
    /\ initOptions = FALSE /\ bare = FALSE /\ initializeId = None
    /\ discoveryDone = FALSE /\ indexDir = FALSE
    /\ hand = None /\ spawned = {} /\ calls = [p \in ProxyId |-> None]
    /\ workQueue = <<>> /\ jobs = [w \in Worker |-> None] /\ dead = {}
    /\ cache = {} /\ writeFailed = {} /\ manual = {}

-----------------------------------------------------------------------------
(* The client (external): initialize first, anything else once it has the   *)
(* answer; every id is used once; a prompt is answered at most once.        *)

ClientSends(id) == asked' = asked \cup {id} /\ stdin' = Append(stdin, id)

ClientInitialize ==
    /\ InitId \notin asked
    /\ ClientSends(InitId)
    /\ UNCHANGED <<received, prompts, picked, backend, init, rpc, files, work,
                   navRequests, pendingClient, hand, spawned, manual>>

ClientRequest(id) ==
    /\ received[InitId] # <<>> /\ id \notin asked
    /\ ClientSends(id)
    /\ UNCHANGED <<received, prompts, picked, backend, init, rpc, files, work,
                   navRequests, pendingClient, hand, spawned, manual>>

Titles(s) == {Menu[s][i].name : i \in DOMAIN Menu[s]}

ClientPicks(p, t) ==
    /\ prompts[p] # None /\ picked[p] = None
    /\ t \in Titles(prompts[p]) \cup {"dismissed"}
    /\ picked' = [picked EXCEPT ![p] = t]
    /\ stdin' = Append(stdin, p)
    /\ UNCHANGED <<asked, received, prompts, backend, init, rpc, files, work,
                   navRequests, pendingClient, hand, spawned, manual>>

-----------------------------------------------------------------------------
(* The backend (external): answers what it was sent, in any order, or never *)

AnswerClient(c, a) ==
    /\ c \in written /\ answers[c] = None /\ a \in AnswersTo[c]
    /\ answers' = [answers EXCEPT ![c] = a]
    /\ stdout' = Append(stdout, c)
    /\ UNCHANGED <<client, written, replies, menus, init, rpc, files, work,
                   navRequests, pendingClient, hand, spawned, manual>>

\* Only decompile's result is looked at: it may lack the "code" field.
AnswerCall(p, r) ==
    /\ p \in written /\ replies[p] = None
    /\ r = "empty" => calls[p].method = "decompile"
    /\ replies' = [replies EXCEPT ![p] = r]
    /\ stdout' = Append(stdout, p)
    /\ UNCHANGED <<client, written, answers, menus, init, rpc, files, work,
                   navRequests, pendingClient, hand, spawned, manual>>

ServerChoose(s) ==
    /\ InitId \in written /\ s \notin menus
    /\ menus' = menus \cup {s} /\ stdout' = Append(stdout, s)
    /\ UNCHANGED <<client, written, answers, replies, init, rpc, files, work,
                   navRequests, pendingClient, hand, spawned, manual>>

-----------------------------------------------------------------------------
(* Threads and call_server.                                                 *)

Spawn(m, a) == spawned' = spawned \cup {[method |-> m, arg |-> a]}

\* Bug: one slot instead of a map.
RememberLast(p) == pendingServer' = {p}

Remember(p) == pendingServer' = pendingServer \cup {p}

Register(m, a) ==
    /\ nextProxyId \in ProxyId
    /\ nextProxyId' = nextProxyId + 1
    /\ Remember(nextProxyId)
    /\ calls' = [calls EXCEPT ![nextProxyId] =
                    [method |-> m, arg |-> a, status |-> "registered"]]

StartCall(t) ==
    /\ t \in spawned
    /\ spawned' = spawned \ {t}
    /\ Register(t.method, t.arg)
    /\ UNCHANGED <<client, backend, init, files, work, navRequests,
                   pendingClient, hand, manual>>

CallIs(p, status) == calls[p] # None /\ calls[p].status = status

SendCall(p) ==
    /\ CallIs(p, "registered")
    /\ calls' = [calls EXCEPT ![p].status = "waiting"]
    /\ written' = written \cup {p}
    /\ UNCHANGED <<client, answers, replies, menus, stdout, init, pendingServer,
                   nextProxyId, files, work, navRequests, pendingClient, hand,
                   spawned, manual>>

\* Bug: recv instead of recv_timeout.
NoTimeout(p) == FALSE

\* recv_timeout gives up; the entry of pending_server stays behind.
TimeoutCall(p) ==
    /\ CallIs(p, "waiting")
    /\ calls' = [calls EXCEPT ![p].status = "timeout"]
    /\ UNCHANGED <<client, backend, init, pendingServer, nextProxyId, files,
                   work, navRequests, pendingClient, hand, spawned, manual>>

-----------------------------------------------------------------------------
(* The main thread: client_to_server.                                       *)

\* Bug: the request is forwarded without being tracked.
TrackNone(c) == {}

Tracked(c) == {c} \cap NavId

\* Everything client_to_server does with a request before to_server. The options
\* are kept only if the initialize request has params.
TakeRequest ==
    /\ hand = None /\ stdin # <<>> /\ Head(stdin) \in ClientId
    /\ hand' = Head(stdin) /\ stdin' = Tail(stdin)
    /\ IF Head(stdin) = InitId
         THEN /\ \E params \in BOOLEAN : initOptions' = params /\ bare' = ~params
              /\ initializeId' = InitId
         ELSE UNCHANGED <<initOptions, bare, initializeId>>
    /\ navRequests' = navRequests \cup Tracked(Head(stdin))
    /\ UNCHANGED <<asked, received, prompts, picked, backend, discoveryDone,
                   indexDir, rpc, files, work, pendingClient, spawned, manual>>

ForwardRequest ==
    /\ hand # None
    /\ written' = written \cup {hand}
    /\ hand' = None
    /\ UNCHANGED <<client, answers, replies, menus, stdout, init, rpc, files,
                   work, navRequests, pendingClient, spawned, manual>>

\* Bug: at most one reload, ever.
ReloadOnce(s) ==
    IF s \in BuildSave /\ (\A p \in ProxyId : calls[p] = None) /\ spawned = {}
      THEN Spawn("reload", s) ELSE UNCHANGED spawned

ReloadAfter(s) == IF s \in BuildSave THEN Spawn("reload", s) ELSE UNCHANGED spawned

\* didSave: forwarded first, then the reload of a build file is spawned.
TakeSave ==
    /\ hand = None /\ stdin # <<>> /\ Head(stdin) \in SaveId
    /\ stdin' = Tail(stdin)
    /\ written' = written \cup {Head(stdin)}
    /\ ReloadAfter(Head(stdin))
    /\ UNCHANGED <<asked, received, prompts, picked, answers, replies, menus,
                   stdout, init, rpc, files, work, navRequests, pendingClient,
                   hand, manual>>

\* The index of the first entry with the title t: handle_choose_action_reply.
IndexOf(s, t) ==
    Menu[s][CHOOSE i \in DOMAIN Menu[s] :
                /\ Menu[s][i].name = t
                /\ \A j \in 1..(i - 1) : Menu[s][j].name # t].index

\* Bug: a reply is taken for the reply to whatever prompt is open.
ConcernsAny(e, p) == TRUE

Concerns(e, p) == e.id = p

TakeReply ==
    /\ hand = None /\ stdin # <<>> /\ Head(stdin) \in ProxyId
    /\ stdin' = Tail(stdin)
    /\ LET title == picked[Head(stdin)]
           found == {e \in pendingClient : Concerns(e, Head(stdin))}
           runs == {e \in found : title \in Titles(e.session)}
       IN  /\ pendingClient' = pendingClient \ found
           /\ \/ \E e \in runs :
                    Spawn("chooseMod", <<e.session, IndexOf(e.session, title)>>)
              \/ runs = {} /\ UNCHANGED spawned
    /\ UNCHANGED <<asked, received, prompts, picked, backend, init, rpc, files,
                   work, navRequests, hand, manual>>

-----------------------------------------------------------------------------
(* The pump thread: server_to_client on the head of the server's stdout.    *)

Deliver(id, outcomes) ==
    received' = [received EXCEPT ![id] = Append(@, outcomes)]

Untouched(c) == [i \in DOMAIN answers[c].links |-> "raw"]

\* Not interesting: relayed byte by byte, whatever it answers.
PumpFastPath ==
    /\ stdout # <<>> /\ Head(stdout) \in ClientId
    /\ ~answers[Head(stdout)].marked
    /\ Deliver(Head(stdout), Untouched(Head(stdout)))
    /\ stdout' = Tail(stdout)
    /\ UNCHANGED <<asked, prompts, picked, stdin, written, answers, replies,
                   menus, init, rpc, files, work, navRequests, pendingClient,
                   hand, spawned, manual>>

\* Bug: the reply is taken although the caller has given up.
WakesLate(p) == p \in pendingServer

Wakes(p) == p \in pendingServer /\ CallIs(p, "waiting")

\* Bug: a reply nobody waits for is relayed.
RelayUnawaited(p) == IF Wakes(p) THEN UNCHANGED received ELSE Deliver(p, <<>>)

Swallow(p) == UNCHANGED received

\* Answer to a call: wakes the caller if it still waits, never relayed.
PumpCallReply ==
    /\ stdout # <<>> /\ Head(stdout) \in ProxyId
    /\ pendingServer' = pendingServer \ {Head(stdout)}
    /\ calls' = IF Wakes(Head(stdout))
                  THEN [calls EXCEPT ![Head(stdout)].status = replies[Head(stdout)]]
                  ELSE calls
    /\ Swallow(Head(stdout))
    /\ stdout' = Tail(stdout)
    /\ UNCHANGED <<asked, prompts, picked, stdin, written, answers, replies,
                   menus, init, nextProxyId, files, work, navRequests,
                   pendingClient, hand, spawned, manual>>

\* Bug: the flag is set before it is tested.
DiscoverAfterSet ==
    IF discoveryDone' THEN UNCHANGED spawned ELSE Spawn("autoActivate", None)

Discover ==
    IF discoveryDone THEN UNCHANGED spawned ELSE Spawn("autoActivate", None)

\* The answer to initialize starts the one-shot license discovery.
Initialized(c) ==
    IF initializeId = c
      THEN /\ initializeId' = None
           /\ indexDir' = (indexDir \/ answers[c].dir)
           /\ discoveryDone' = TRUE
           /\ Discover
      ELSE UNCHANGED <<initializeId, indexDir, discoveryDone, spawned>>

\* Bug: a navigation answer goes to a worker and to the client.
RouteTwice(c) ==
    /\ IF c \in navRequests THEN workQueue' = Append(workQueue, c)
                             ELSE UNCHANGED workQueue
    /\ Deliver(c, Untouched(c))

Route(c) ==
    IF c \in navRequests
      THEN workQueue' = Append(workQueue, c) /\ UNCHANGED received
      ELSE Deliver(c, Untouched(c)) /\ UNCHANGED workQueue

PumpClientAnswer ==
    /\ stdout # <<>> /\ Head(stdout) \in ClientId
    /\ answers[Head(stdout)].marked
    /\ navRequests' = navRequests \ {Head(stdout)}
    /\ Route(Head(stdout))
    /\ Initialized(Head(stdout))
    /\ stdout' = Tail(stdout)
    /\ UNCHANGED <<asked, prompts, picked, stdin, written, answers, replies,
                   menus, initOptions, bare, rpc, files, jobs, dead,
                   pendingClient, hand, manual>>

PumpChooseAction ==
    /\ stdout # <<>> /\ Head(stdout) \in Session
    /\ nextProxyId \in ProxyId
    /\ nextProxyId' = nextProxyId + 1
    /\ pendingClient' = pendingClient \cup
                          {[id |-> nextProxyId, session |-> Head(stdout)]}
    /\ prompts' = [prompts EXCEPT ![nextProxyId] = Head(stdout)]
    /\ stdout' = Tail(stdout)
    /\ UNCHANGED <<asked, received, picked, stdin, written, answers, replies,
                   menus, init, pendingServer, calls, files, work, navRequests,
                   hand, spawned, manual>>

\* A chooseAction without a sessionId goes no further.
PumpNoSession ==
    /\ stdout # <<>> /\ Head(stdout) \in Session
    /\ stdout' = Tail(stdout)
    /\ UNCHANGED <<client, written, answers, replies, menus, init, rpc, files,
                   work, navRequests, pendingClient, hand, spawned, manual>>

-----------------------------------------------------------------------------
(* A decompile worker: handle_nav_response and materialize, one archive URI *)
(* after the other. The wait for a call is the time jobs[w].call # 0.       *)

\* Bug: every worker has a receiver of its own.
PeekJob(w) ==
    /\ jobs[w] = None /\ workQueue # <<>>
    /\ jobs' = [jobs EXCEPT ![w] = [id |-> Head(workQueue), done |-> <<>>, call |-> 0]]
    /\ UNCHANGED <<client, backend, init, rpc, files, workQueue, dead, navRequests,
                   pendingClient, hand, spawned, manual>>

TakeJob(w) ==
    /\ jobs[w] = None /\ workQueue # <<>>
    /\ jobs' = [jobs EXCEPT ![w] = [id |-> Head(workQueue), done |-> <<>>, call |-> 0]]
    /\ workQueue' = Tail(workQueue)
    /\ UNCHANGED <<client, backend, init, rpc, files, dead, navRequests,
                   pendingClient, hand, spawned, manual>>

Links(w) == answers[jobs[w].id].links
ThisUri(w) == Links(w)[Len(jobs[w].done) + 1]
AtLink(w) == jobs[w] # None /\ jobs[w].call = 0 /\ Len(jobs[w].done) < Len(Links(w))
Calling(w) == jobs[w] # None /\ jobs[w].call # 0

\* Bug: the path of the cache is returned whether or not the file is there.
LinkAlwaysFile(w, outcome) ==
    jobs' = [jobs EXCEPT ![w] = [id |-> jobs[w].id, call |-> 0,
                                 done |-> Append(jobs[w].done, "file")]]

LinkDone(w, outcome) ==
    jobs' = [jobs EXCEPT ![w] = [id |-> jobs[w].id, call |-> 0,
                                 done |-> Append(jobs[w].done, outcome)]]

\* The path of the cache comes first, and with it a slice inside a character: the
\* thread ends, and with it the answer.
Panic(w) ==
    /\ w \notin dead /\ AtLink(w) /\ ThisUri(w) \in PanicUri
    /\ dead' = dead \cup {w}
    /\ UNCHANGED <<client, backend, init, rpc, files, workQueue, jobs, navRequests,
                   pendingClient, hand, spawned, manual>>

CacheHit(w) ==
    /\ AtLink(w) /\ ThisUri(w) \in cache \ PanicUri
    /\ LinkDone(w, "file")
    /\ UNCHANGED <<client, backend, init, rpc, files, workQueue, dead, navRequests,
                   pendingClient, hand, spawned, manual>>

CacheMiss(w) ==
    /\ AtLink(w) /\ ThisUri(w) \notin cache \cup PanicUri
    /\ Register("decompile", ThisUri(w))
    /\ jobs' = [jobs EXCEPT ![w].call = nextProxyId]
    /\ UNCHANGED <<client, backend, init, files, workQueue, dead, navRequests,
                   pendingClient, hand, spawned, manual>>

StoreFile(w) ==
    /\ Calling(w) /\ CallIs(jobs[w].call, "ok")
    /\ cache' = cache \cup {ThisUri(w)}
    /\ LinkDone(w, "file")
    /\ UNCHANGED <<client, backend, init, rpc, writeFailed, workQueue,
                   dead, navRequests, pendingClient, hand, spawned, manual>>

\* mkdir or write fails: no space, or a file another worker has just sealed.
StoreFails(w) ==
    /\ Calling(w) /\ CallIs(jobs[w].call, "ok")
    /\ writeFailed' = writeFailed \cup {ThisUri(w)}
    /\ LinkDone(w, "raw")
    /\ UNCHANGED <<client, backend, init, rpc, cache, workQueue, dead, navRequests,
                   pendingClient, hand, spawned, manual>>

\* Bug: only a reply ends the wait.
RepliedWithoutCode == {"empty", "error"}

WithoutCode == {"empty", "error", "timeout"}

NoCode(w) ==
    /\ Calling(w) /\ calls[jobs[w].call].status \in WithoutCode
    /\ LinkDone(w, "raw")
    /\ UNCHANGED <<client, backend, init, rpc, files, workQueue, dead, navRequests,
                   pendingClient, hand, spawned, manual>>

FinishJob(w) ==
    /\ jobs[w] # None /\ jobs[w].call = 0
    /\ Len(jobs[w].done) = Len(Links(w))
    /\ Deliver(jobs[w].id, jobs[w].done)
    /\ jobs' = [jobs EXCEPT ![w] = None]
    /\ UNCHANGED <<asked, prompts, picked, stdin, backend, init, rpc, files,
                   workQueue, dead, navRequests, pendingClient, hand, spawned, manual>>

-----------------------------------------------------------------------------
(* The control channel: __reload_workspace, refused while init_options is   *)
(* null.                                                                    *)

\* Bug: the check for null is missing.
ReloadAlways == TRUE

ReloadAllowed == initOptions

ControlReload(m) ==
    /\ m \notin manual /\ ReloadAllowed
    /\ manual' = manual \cup {m}
    /\ Spawn("reload", m)
    /\ UNCHANGED <<client, backend, init, rpc, files, work, navRequests,
                   pendingClient, hand>>

-----------------------------------------------------------------------------
Client ==
    \/ ClientInitialize
    \/ \E id \in NavId \cup PlainId \cup SaveId : ClientRequest(id)
    \/ \E p \in ProxyId, t \in Title \cup {"dismissed"} : ClientPicks(p, t)

Backend ==
    \/ \E c \in ClientId : \E a \in AnswersTo[c] : AnswerClient(c, a)
    \/ \E p \in ProxyId, r \in {"ok", "empty", "error"} : AnswerCall(p, r)
    \/ \E s \in Session : ServerChoose(s)

MainThread == TakeRequest \/ ForwardRequest \/ TakeSave \/ TakeReply

PumpThread == PumpFastPath \/ PumpCallReply \/ PumpClientAnswer
              \/ PumpChooseAction \/ PumpNoSession

WorkerStep(w) ==
    \/ TakeJob(w) \/ Panic(w) \/ CacheHit(w) \/ CacheMiss(w)
    \/ StoreFile(w) \/ StoreFails(w) \/ NoCode(w) \/ FinishJob(w)

Calls ==
    \/ \E t \in spawned : StartCall(t)
    \/ \E p \in ProxyId : SendCall(p) \/ TimeoutCall(p)

Next ==
    \/ Client \/ Backend \/ MainThread \/ PumpThread \/ Calls
    \/ \E w \in Worker : WorkerStep(w)
    \/ \E m \in Manual : ControlReload(m)

Spec == Init /\ [][Next]_vars

\* Every thread of the proxy keeps running and recv_timeout expires. Nothing
\* is assumed of the client or of the backend.
Fairness ==
    /\ WF_vars(MainThread) /\ WF_vars(PumpThread)
    /\ WF_vars(\E t \in spawned : StartCall(t))
    /\ \A p \in ProxyId : WF_vars(SendCall(p)) /\ WF_vars(TimeoutCall(p))
    /\ \A w \in Worker : WF_vars(WorkerStep(w))

FairSpec == Spec /\ Fairness

-----------------------------------------------------------------------------
ClientType ==
    /\ asked \subseteq ClientId \cup SaveId
    /\ received \in [ClientId \cup ProxyId -> Seq(Seq(Outcome))]
    /\ prompts \in [ProxyId -> Session \cup {None}]
    /\ picked \in [ProxyId -> Title \cup {"dismissed", None}]
    /\ stdin \in Seq(ClientId \cup SaveId \cup ProxyId)

BackendType ==
    /\ written \subseteq ClientId \cup SaveId \cup ProxyId
    /\ answers \in [ClientId -> Answer \cup {None}]
    /\ replies \in [ProxyId -> {"ok", "empty", "error", None}]
    /\ menus \subseteq Session
    /\ stdout \in Seq(ClientId \cup ProxyId \cup Session)

InitType ==
    /\ initOptions \in BOOLEAN /\ bare \in BOOLEAN
    /\ discoveryDone \in BOOLEAN /\ indexDir \in BOOLEAN
    /\ initializeId \in {InitId, None}

RpcType ==
    /\ pendingServer \subseteq ProxyId
    /\ nextProxyId \in 1..(MaxProxyId + 1)
    /\ calls \in [ProxyId -> Call \cup {None}]

WorkType ==
    /\ workQueue \in Seq(NavId)
    /\ jobs \in [Worker -> Job \cup {None}]
    /\ dead \subseteq Worker

OtherType ==
    /\ cache \subseteq Uri /\ writeFailed \subseteq Uri
    /\ navRequests \subseteq NavId
    /\ pendingClient \subseteq [id: ProxyId, session: Session]
    /\ hand \in ClientId \cup {None}
    /\ spawned \subseteq Thread
    /\ manual \subseteq Manual

\* Type invariant: the state of Shared, of the threads and of the two peers.
TypeOK ==
    /\ ClientType /\ BackendType /\ InitType
    /\ RpcType /\ WorkType /\ OtherType

\* Where the answer to c is: on the way from the backend, in the work queue,
\* with a worker, lost with a worker that has died, or with the client.
Places(c) ==
    {<<"stdout", i>> : i \in {j \in DOMAIN stdout : stdout[j] = c}}
    \cup {<<"queue", i>> : i \in {j \in DOMAIN workQueue : workQueue[j] = c}}
    \cup {<<IF w \in dead THEN "lost" ELSE "job", w>> :
             w \in {v \in Worker : jobs[v] # None /\ jobs[v].id = c}}
    \cup {<<"client", k>> : k \in DOMAIN received[c]}

\* Safety: from the moment the backend answers a client request, the answer is
\* in exactly one place; the pump and the two workers do not duplicate it, nothing
\* is made up for a request not answered yet, and it is lost in one way only: with
\* the one worker that has died of an archive URI in it. What was delivered, what
\* is queued and what the other worker has is not lost with it.
AnswerHeldOnce ==
    /\ \A c \in ClientId :
          IF answers[c] = None THEN Places(c) = {}
                               ELSE \E place \in Places(c) : Places(c) = {place}
    /\ \A c \in ClientId, w \in Worker :
          <<"lost", w>> \in Places(c) =>
             \E i \in DOMAIN answers[c].links : answers[c].links[i] \in PanicUri

\* Safety: a navigation answer reaches the client with every archive URI
\* replaced by a file of the cache, except where its decompilation gave no
\* usable code in time or the file could not be stored.
LinksResolved ==
    \A c \in NavId : \A k \in DOMAIN received[c] :
        LET links == answers[c].links IN
        /\ DOMAIN received[c][k] = DOMAIN links
        /\ \A i \in DOMAIN links :
              \/ received[c][k][i] = "file" /\ links[i] \in cache
              \/ /\ received[c][k][i] = "raw"
                 /\ \/ links[i] \in writeFailed
                    \/ \E p \in ProxyId :
                          /\ calls[p] # None
                          /\ calls[p].method = "decompile" /\ calls[p].arg = links[i]
                          /\ calls[p].status \in {"empty", "error", "timeout"}

\* Safety: the client never sees an answer to a call of the proxy, also when
\* it comes after the caller has given up ("the server never sees proxy
\* traffic", main.rs:423, is the other direction).
ProxyTrafficSwallowed ==
    /\ \A p \in ProxyId : received[p] = <<>>
    /\ \A p \in ProxyId \cap written : calls[p] # None

\* Safety: as long as a caller waits, its reply can find it.
CallerReachable ==
    \A p \in ProxyId :
        CallIs(p, "registered") \/ CallIs(p, "waiting") => p \in pendingServer

\* Safety: until the pump has seen the answer of a navigation request that was
\* handed to the backend, the request is known to be one.
NavRecognised ==
    \A c \in NavId :
        (c \in written /\ (answers[c] = None \/ \E i \in DOMAIN stdout : stdout[i] = c))
            => c \in navRequests

\* Safety: whatever menus are open at the same time, the command sent for a
\* session runs the first entry with the title the user picked in that
\* session's prompt, and at most one command is sent per session.
ChoiceMatchesPick ==
    LET Chosen == {p \in ProxyId : calls[p] # None /\ calls[p].method = "chooseMod"}
        Runs(p, s, i) == /\ calls[p].arg = <<s, Menu[s][i].index>>
                         /\ \E q \in ProxyId : prompts[q] = s /\ picked[q] = Menu[s][i].name
                         /\ \A j \in 1..(i - 1) : Menu[s][j].name # Menu[s][i].name
    IN  /\ \A p \in Chosen : \E s \in Session : \E i \in DOMAIN Menu[s] : Runs(p, s, i)
        /\ \A p, q \in Chosen : calls[p].arg[1] = calls[q].arg[1] => p = q

\* Safety: a reload carries the initialization options of the client, never the
\* null that init_options starts with; only where the initialize request had no
\* params does the automatic one send null, and the manual one is still refused.
ReloadCarriesOptions ==
    LET HasOptions(t) == t.method = "reload" => initOptions \/ (bare /\ t.arg \in BuildSave)
    IN  /\ \A t \in spawned : HasOptions(t)
        /\ \A p \in ProxyId : calls[p] # None => HasOptions(calls[p])

\* The request relay and the calls as their users see them.
Asked == asked \cap ClientId
Forwarded == written \cap ClientId
Answered == {c \in ClientId : answers[c] # None}
Deliveries == [c \in ClientId |-> Len(received[c])]
Fatal == [w \in Worker |-> IF w \in dead THEN jobs[w].id ELSE None]

Relaying == INSTANCE Relay WITH Request <- ClientId, Handed <- NavId, Holder <- Worker,
    asked <- Asked, forwarded <- Forwarded, answered <- Answered,
    deliveries <- Deliveries, fatal <- Fatal

CallState(p) ==
    IF prompts[p] # None THEN "prompt"
    ELSE IF calls[p] = None THEN "free"
    ELSE IF calls[p].status \in {"registered", "waiting"} THEN "open"
    ELSE calls[p].status

RpcState == [p \in ProxyId |-> CallState(p)]

Rpcs == INSTANCE Rpc WITH Id <- ProxyId, state <- RpcState, reply <- replies

\* A navigation answer as the workers have it: where it is, its links from the
\* moment it is put into the queue, and what they are replaced by so far. One
\* that takes the fast path is never put.
Stage(c) ==
    IF \E i \in DOMAIN workQueue : workQueue[i] = c THEN "queued"
    ELSE IF \E w \in dead : jobs[w] # None /\ jobs[w].id = c THEN "lost"
    ELSE IF \E w \in Worker : jobs[w] # None /\ jobs[w].id = c THEN "held"
    ELSE IF answers[c] # None /\ answers[c].marked /\ received[c] # <<>> THEN "given"
    ELSE "new"

Outcomes(c) ==
    CASE Stage(c) \in {"held", "lost"} ->
            jobs[CHOOSE w \in Worker : jobs[w] # None /\ jobs[w].id = c].done
      [] Stage(c) = "given" -> received[c][1]
      [] OTHER -> <<>>

\* The file of a URI is named by the URI.
FilesOf(u) == {u}

ReplacedBy(links, outcomes) ==
    [i \in DOMAIN outcomes |-> IF outcomes[i] = "file" THEN links[i] ELSE None]

NavStages == [c \in NavId |-> Stage(c)]
NavLinks == [c \in NavId |-> IF Stage(c) = "new" THEN <<>> ELSE answers[c].links]
NavSettled == [c \in NavId |-> ReplacedBy(NavLinks[c], Outcomes(c))]

Handing == INSTANCE Workers WITH Job <- NavId, File <- Uri, state <- NavStages,
    links <- NavLinks, settled <- NavSettled, stored <- cache

\* Refinement: every client request is forwarded once and its answer delivered
\* at most once and only after the backend gave it, or never, if a worker died of
\* it; under fairness the answer arrives, unless it is the one a worker died of or
\* no worker is left for it.
RelaySafety == Relaying!Spec
RelayLiveness == Relaying!Progress

\* Refinement: an id of the proxy names one call or one prompt; a call ends
\* once, with the reply to that very id or with a timeout, and a late reply
\* changes nothing; under fairness, every call ends.
RpcSafety == Rpcs!Spec
RpcLiveness == Rpcs!Progress

\* Refinement: an answer handed to the workers is given once, with every link
\* settled, by files that are in the cache, unless a worker dies of it.
HandingSafety == Handing!Spec

\* Liveness: after a build descriptor is saved, the backend is asked to reload.
SaveReloads ==
    \A s \in BuildSave :
        s \in asked ~> \E p \in ProxyId \cap written :
                            calls[p].method = "reload" /\ calls[p].arg = s

\* Liveness: an answer to initialize that the pump looks into is followed by
\* the license discovery.
DiscoveryRuns ==
    (answers[InitId] # None /\ answers[InitId].marked)
        ~> \E p \in ProxyId \cap written : calls[p].method = "autoActivate"
=============================================================================
