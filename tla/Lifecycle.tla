----------------------------- MODULE Lifecycle -----------------------------
(***************************************************************************)
(* The life of proxy processes for one project: start and session file     *)
(* (run_lsp, control::start), the command __clear_caches_and_restart       *)
(* (handle_clear_caches), the thread that waits for the server to exit,    *)
(* deletes the index and ends the process, and the main thread that ends   *)
(* it when the client closes its end.                                      *)
(*                                                                         *)
(* Instances of the proxy run one after the other. They share the session  *)
(* file and the index directory, which belong to the project. A server     *)
(* outlives its proxy until it sees that its input is closed.              *)
(***************************************************************************)
EXTENDS Naturals

CONSTANTS
    MaxInstances,  \* bound on the proxies the host starts
    Request,       \* clear requests made by scripts
    MaxBusy        \* bound on deletions refused while files are in use

DeleteAttempts == 5

ASSUME InstanceAssumption == MaxInstances \in Nat \ {0}
ASSUME BusyAssumption == MaxBusy \in Nat

Instance == 1..MaxInstances

VARIABLES
    proxy,      \* proxy[i]: the process
    code,       \* code[i]: its exit code
    eof,        \* instances whose stdin the client has closed
    server,     \* server[i]: the child process
    told,       \* servers that got an exit notification, or whose input is closed
    reaper,     \* reaper[i]: the thread that waits for the server
    tries,      \* tries[i]: deletions tried
    indexDir,   \* instances that know index_dir
    latch,      \* cache_clear_requested of each instance
    request,    \* request[r]: the thread of a clear request, and its instance
    session,    \* the instance in the session file; 0: no file
    index,      \* the index directory is there
    condemned,  \* history: accepted requests, the index neither deleted nor
                \* found missing since
    busy,       \* deletions refused so far
    disturbed   \* history: the host has left, a server has died unasked, or
                \* all attempts to delete the index have failed

processes == <<proxy, code, eof, server, told>>
clearing == <<reaper, tries, latch, index, condemned, busy>>
vars == <<processes, clearing, indexDir, request, session, disturbed>>

Init ==
    /\ proxy = [i \in Instance |-> "unborn"]
    /\ code = [i \in Instance |-> 0]
    /\ eof = {} /\ told = {}
    /\ server = [i \in Instance |-> "unborn"]
    /\ reaper = [i \in Instance |-> "waiting"]
    /\ tries = [i \in Instance |-> 0]
    /\ indexDir = {} /\ latch = {}
    /\ request = [r \in Request |-> [stage |-> "new", at |-> 0]]
    /\ session = 0 /\ index = FALSE /\ condemned = {} /\ busy = 0
    /\ disturbed = {}

Up(i) == proxy[i] = "up"

\* The host starts an instance when the one before has exited; the server is
\* its child.
HostStarts(i) ==
    /\ proxy[i] = "unborn" /\ \A j \in 1..(i - 1) : proxy[j] = "exited"
    /\ proxy' = [proxy EXCEPT ![i] = "starting"]
    /\ server' = [server EXCEPT ![i] = "running"]
    /\ UNCHANGED <<code, eof, told, clearing, indexDir, request, session, disturbed>>

\* control::start: the session file is written, or the proxy runs without a
\* control channel.
StartControl(i) ==
    /\ proxy[i] = "starting"
    /\ proxy' = [proxy EXCEPT ![i] = "up"]
    /\ session' \in {i, session}
    /\ UNCHANGED <<code, eof, server, told, clearing, indexDir, request, disturbed>>

\* The server opens its index, or makes a new one.
ServerIndexes(i) ==
    /\ server[i] = "running" /\ ~index
    /\ index' = TRUE
    /\ UNCHANGED <<processes, reaper, tries, latch, condemned, busy,
                   indexDir, request, session, disturbed>>

\* The answer to initialize names the directory, whether it is there or not.
LearnIndexDir(i) ==
    /\ Up(i) /\ server[i] = "running" /\ i \notin indexDir
    /\ indexDir' = indexDir \cup {i}
    /\ UNCHANGED <<processes, clearing, request, session, disturbed>>

-----------------------------------------------------------------------------
(* __clear_caches_and_restart.                                              *)

Stage(r, stage) == request' = [request EXCEPT ![r].stage = stage]

ClearCaches(r, i) ==
    /\ request[r].stage = "new" /\ session = i /\ Up(i)
    /\ \/ /\ i \notin indexDir
          /\ Stage(r, "refused") /\ UNCHANGED <<latch, condemned>>
       \/ /\ i \in indexDir
          /\ request' = [request EXCEPT ![r] = [stage |-> "calling", at |-> i]]
          /\ latch' = latch \cup {i}
          /\ condemned' = IF index \/ reaper[i] # "crashing" THEN condemned \cup {r}
                          ELSE condemned
    /\ UNCHANGED <<processes, reaper, tries, index, busy, indexDir, session, disturbed>>

\* The shutdown call returns: answered, failed or timed out.
EndShutdownCall(r) ==
    /\ request[r].stage = "calling" /\ Up(request[r].at)
    /\ Stage(r, "notifying")
    /\ UNCHANGED <<processes, clearing, indexDir, session, disturbed>>

\* Bug: exit is not sent when the shutdown call has failed.
OnlyShutdown(i) == told

ExitSent(i) == told \cup {i}

SendExit(r) ==
    /\ request[r].stage = "notifying" /\ Up(request[r].at)
    /\ told' = ExitSent(request[r].at)
    /\ Stage(r, "over")
    /\ UNCHANGED <<proxy, code, eof, server, clearing, indexDir, session, disturbed>>

-----------------------------------------------------------------------------
(* The server and the host.                                                 *)

ServerExits(i) ==
    /\ server[i] = "running"
    /\ server' = [server EXCEPT ![i] = "exited"]
    /\ disturbed' = disturbed \cup (IF i \in told THEN {} ELSE {"server"})
    /\ UNCHANGED <<proxy, code, eof, told, clearing, indexDir, request, session>>

\* The host relays exit, or closes the pipe without it.
HostQuits(i) ==
    /\ Up(i) /\ i \notin eof
    /\ disturbed' = disturbed \cup {"host"}
    /\ \/ told' = told \cup {i} /\ UNCHANGED eof
       \/ eof' = eof \cup {i} /\ UNCHANGED told
    /\ UNCHANGED <<proxy, code, server, clearing, indexDir, request, session>>

\* The main thread: end of input ends the process, whatever its threads do. The
\* server sees the end of its own input.
MainExits(i) ==
    /\ Up(i) /\ i \in eof
    /\ proxy' = [proxy EXCEPT ![i] = "exited"]
    /\ told' = told \cup {i}
    /\ UNCHANGED <<code, eof, server, clearing, indexDir, request, session, disturbed>>

-----------------------------------------------------------------------------
(* The thread that waits for the server.                                    *)

Reaper(i, stage) == reaper' = [reaper EXCEPT ![i] = stage]

\* Bug: the index is deleted without waiting for the exit of the server.
ReapAtOnce(i) == server[i] = "exited" \/ i \in latch

Reapable(i) == server[i] = "exited"

\* Bug: the index is deleted at every exit of a server.
KnowsIndex(i) == i \in indexDir

ClearAsked(i) == i \in latch

Reap(i) ==
    /\ Up(i) /\ reaper[i] = "waiting" /\ Reapable(i)
    /\ latch' = latch \ {i}
    /\ Reaper(i, IF ClearAsked(i) THEN "deleting" ELSE "relaying")
    /\ UNCHANGED <<processes, tries, index, condemned, busy, indexDir, request, session, disturbed>>

DeleteIndex(i) ==
    /\ Up(i) /\ reaper[i] = "deleting" /\ index
    /\ index' = FALSE /\ condemned' = {}
    /\ Reaper(i, "crashing")
    /\ UNCHANGED <<processes, tries, latch, busy, indexDir, request, session, disturbed>>

\* Bug: the deletion is tried once.
TryOnce(i) == TRUE

LastAttempt(i) == tries[i] + 1 = DeleteAttempts

\* remove_dir_all fails on files that are still in use, and on a directory that
\* is not there.
DeleteFails(i) ==
    /\ Up(i) /\ reaper[i] = "deleting"
    /\ IF index THEN busy < MaxBusy /\ busy' = busy + 1 ELSE UNCHANGED busy
    /\ tries' = [tries EXCEPT ![i] = @ + 1]
    /\ Reaper(i, IF LastAttempt(i) THEN "crashing" ELSE "deleting")
    /\ condemned' = IF LastAttempt(i) /\ ~index THEN {} ELSE condemned
    /\ disturbed' = disturbed \cup
                      (IF index /\ tries'[i] = DeleteAttempts THEN {"busy"} ELSE {})
    /\ UNCHANGED <<processes, latch, index, indexDir, request, session>>

\* Bug: the exit code of the server is relayed after a clear as well.
RelayCode(i) == 0

\* After a clear, the code of a crash; else that of the server.
ExitCode(i) == IF reaper[i] = "crashing" THEN 1 ELSE 0

ReaperExits(i) ==
    /\ Up(i) /\ reaper[i] \in {"crashing", "relaying"}
    /\ proxy' = [proxy EXCEPT ![i] = "exited"]
    /\ code' = [code EXCEPT ![i] = ExitCode(i)]
    /\ told' = told \cup {i}
    /\ UNCHANGED <<eof, server, clearing, indexDir, request, session, disturbed>>

-----------------------------------------------------------------------------
Reaping(i) == Reap(i) \/ DeleteIndex(i) \/ DeleteFails(i) \/ ReaperExits(i)

Stopping(r) == EndShutdownCall(r) \/ SendExit(r)

Next ==
    \/ \E i \in Instance :
          \/ HostStarts(i) \/ StartControl(i) \/ ServerIndexes(i) \/ LearnIndexDir(i)
          \/ ServerExits(i) \/ HostQuits(i) \/ MainExits(i) \/ Reaping(i)
    \/ \E r \in Request : Stopping(r) \/ \E i \in Instance : ClearCaches(r, i)

Spec == Init /\ [][Next]_vars

\* The threads of the proxy run, and a server that is told to exit does.
FairSpec ==
    /\ Spec
    /\ \A i \in Instance :
          WF_vars(Reaping(i)) /\ WF_vars(MainExits(i)) /\ WF_vars(i \in told /\ ServerExits(i))
    /\ \A r \in Request : WF_vars(Stopping(r))

-----------------------------------------------------------------------------
\* Type invariant: the processes, the threads and the shared files.
TypeOK ==
    /\ proxy \in [Instance -> {"unborn", "starting", "up", "exited"}]
    /\ code \in [Instance -> {0, 1}]
    /\ eof \subseteq Instance /\ told \subseteq Instance
    /\ server \in [Instance -> {"unborn", "running", "exited"}]
    /\ reaper \in [Instance -> {"waiting", "deleting", "crashing", "relaying"}]
    /\ tries \in [Instance -> 0..DeleteAttempts]
    /\ indexDir \subseteq Instance /\ latch \subseteq Instance
    /\ request \in [Request -> [stage : {"new", "refused", "calling", "notifying", "over"},
                                at : Instance \cup {0}]]
    /\ session \in Instance \cup {0} /\ index \in BOOLEAN
    /\ condemned \subseteq Request /\ busy \in 0..MaxBusy
    /\ disturbed \subseteq {"host", "server", "busy"}

Accepted(r) == request[r].stage \notin {"new", "refused"}

\* The server that instance i starts with meets an index of before a promised
\* clear.
StartsOnOld(i) ==
    server[i] = "unborn" /\ server'[i] = "running" /\ index /\ condemned # {}

\* Action property: after a clear was promised, no server is started on the
\* index that the request was about, as long as the host stays, servers exit
\* only when told, and one attempt in five succeeds.
FreshRestart == [][\A i \in Instance : StartsOnOld(i) => disturbed # {}]_vars

\* Action property: as a user is told, whether or not the files are in use.
FreshThoughBusy ==
    [][\A i \in Instance : StartsOnOld(i) => disturbed \cap {"host", "server"} # {}]_vars

\* Action property: the index is deleted when no server, of this proxy or of an
\* earlier one, has its files open.
ReleasedBeforeDelete ==
    [][index /\ ~index' /\ disturbed = {} => \A i \in Instance : server[i] # "running"]_vars

\* Safety: a proxy that has promised a restart exits with the code of a crash,
\* as long as nothing else ends it or its server.
PromisedCrash ==
    disturbed = {} =>
        \A r \in Request :
            Accepted(r) /\ proxy[request[r].at] = "exited" => code[request[r].at] = 1

\* Action property: an index nobody asked to clear is not deleted, whatever
\* exits, dies or leaves.
DeletedOnDemand == [][index /\ ~index' => condemned # {}]_vars

\* Liveness: a proxy that has promised to clear and restart comes to its end.
ClearEnds ==
    \A r \in Request : Accepted(r) ~> Accepted(r) /\ proxy[request[r].at] = "exited"
=============================================================================
