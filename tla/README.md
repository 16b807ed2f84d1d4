# A TLA+ model of zed-intellij-server

`zed-intellij-server` connects the Zed editor to the JetBrains `intellij-server`
backend. Most of its logic is in a native process, `ij-zed-proxy` (`proxy/`),
that stands between Zed and the backend; a small Zed extension (`extension/`)
installs backend and proxy and builds their command lines. This directory holds a
TLA+ model of the parts that keep state and run concurrently, TLC configurations that
check it on small instances, and TLAPS proofs of what matters most for every instance.

Paths below are relative to the repository (`main.rs` is `proxy/src/main.rs`,
`server.rs` is `extension/src/server.rs`, and so on).

## 1. The system

| Part | State | Operations | Talks to |
|---|---|---|---|
| LSP relay (`main.rs`) | `Shared`: `pending_server`, `pending_client`, `nav_requests`, `next_proxy_id`, `init_options`, `initialize_id`, `discovery_done`, `index_dir`; the work queue | main thread (client to server), pump thread (server to client), two decompile workers, one-shot threads for calls | Zed and backend by pipes; threads share `Shared` under mutexes |
| framing (`frame.rs`) | none; the mutexes of the two pipes are `main.rs`'s | read and write one frame | every pipe |
| decompile cache (`materialize`) | files under `decompiled/` | look up, decompile call, create, write, make read-only | workers; call to the backend |
| rewriting (`rewrite.rs`) | none | locations and hover links of one answer | calls `materialize` per link |
| build descriptors (`buildfiles.rs`) | none | is this document a build descriptor | asked on `didSave` |
| control channel (`control.rs`) | session file, token, `cache_clear_requested` | reload, clear caches, raw LSP, executeCommand | scripts, the debug adapter; calls the backend |
| process lifecycle (`run_lsp`) | child process, index directory | start, wait for the server, delete the index, exit | Zed restarts it |
| debug adapter (`dap.rs`) | control connection, `next_id`, TCP connection | connect, start the debug server, complete launches, relay | control channel of a running proxy; debug server |
| installation (`server.rs`) | lock directory, archive, staging directory, `servers/<version>` | resolve, lock, download, verify, unpack, move, clean up | other extension processes, by the file system |
| proxy download (`server.rs`) | `proxy/<version>/` | look, download, verify, chmod, rename | other extension processes, by the file system |
| extension glue (`lib.rs`, `config.rs`, `eula.rs`) | settings | command lines, environment, options, agreement | Zed; the command line is parsed by the proxy |

What is hard in it:

- Answers to navigation requests leave the pump for a queue and two workers, which
  wait up to a minute per archive URI, while all other answers go straight to the
  client. None may be lost, doubled or relayed with its URIs untouched.
- Every frame is written in two pieces, to pipes that may be full, by several threads;
  the pump must keep reading whatever the backend does.
- Two workers may create the same file of the cache, and the process may end between any
  two calls of the file system. The cache outlives the process.
- The proxy makes calls of its own on the same pipe as the client, with time-outs.
  A late reply must reach neither the client nor another caller, and a reply that
  comes at once must find its caller registered.
- Reload, discovery and menus run in threads that read state the main thread and
  the pump are writing.
- A clear of the caches spans four threads and two processes, any of which may end.
- The adapter and the proxy have the same time-out on two ends of one connection.
- Extension processes install into the same directory, may be slow or die, and
  share a lock that goes stale; the proxy binary they share without a lock.

What makes each part correct:

- relay: an answer is in exactly one place until the client has it, and lost only with a worker
  that dies of it; it arrives once, after it was given, with its archive URIs replaced where a file could be made; what the
  pump relays stays in order;
- pipes: frames arrive whole; nobody waits for room for ever;
- workers: every answer is given once and complete; links lead to files that are there and
  stay; an incomplete file has a cause; a panic costs one answer, of its worker;
- calls: a call ends once, with its own reply or a time-out; it stays invisible to
  the client; a waiting caller can be found; a saved build descriptor causes a
  reload; the command of a menu is the one the user picked in that menu;
- lifecycle: an index is deleted only on demand and when no server uses it; after a
  promised clear the proxy ends like a crash and the next index is fresh;
- adapter: a launch carries the answers to its own commands and all there are, as long as no
  line comes late, keeps what the user has set, and goes out whatever fails;
- installation: one installer at a time; a server directory that would be accepted
  is whole and stays; nothing that can be removed is left behind; nobody waits for ever;
- extension: what is started is what was asked for; the proxy binary is the release; a
  download that fails makes no call fail for nothing.

## 2. Modules

| Module | Models | Abstract specification | Proofs |
|---|---|---|---|
| `Proxy` | LSP relay, calls, hand-over to the workers, menus, reload command | `Relay`, `Rpc`, `Workers` | `ProxyProofs` |
| `Decompile` | workers, queue mutex, cache of decompiled files | `Workers` | `DecompileProofs` |
| `Wire` | pipes, framing, writers under mutexes, import log | `Channel` | `WireProofs` |
| `Lifecycle` | proxy processes, session file, cache clear | | `LifecycleProofs` |
| `Dap` | debug adapter, control connection | | `DapProofs` |
| `Install` | installation of the backend and its lock | | `InstallProofs` |
| `Extension` | calls of the extension, proxy download, command lines and their parsing | | `ExtensionProofs` |

`Relay` is what a relay of requests and answers promises, `Rpc` what a call with a
time-out promises, `Workers` what the pump expects of the workers, `Channel` what the ends
of a pipe expect. `MCProxy`, `MCRelay`, `MCDecompile`, `MCWire`, `MCLifecycle`, `MCInstall`
and `MCExtension` give constants that a configuration cannot write down, scenarios, and symmetry.
`Lemmas` holds the facts about numbers and sequences that more than one proof needs.

The modules divide the proxy by what interleaves: `Proxy` takes a frame and a file as one step
and has all requests, calls and answers; `Wire` takes these as given and has the bytes, the
mutexes and the room in the pipes; `Decompile` takes the call as an outcome and has the steps of
the file system. `Channel` and `Workers` say what each coarse step of `Proxy` rests on: a frame that
is written is read whole and in order, a worker settles one link after the other with a file
that is there. `Workers` is implemented twice: by `Decompile`, and by `Proxy` with the threads around
the workers (`HandingSafety`, where an answer that takes the fast path is never handed over).

### Proxy

A frame is named by what identifies it: a client request and its answer by the
client's id, a call by the number behind `ij-proxy:`, a saved document or a
`chooseAction` session by a name. Of an answer only what the proxy looks at is
kept: whether its bytes contain one of the words of the fast path (`marked`), its
archive URIs in traversal order (`links`), and whether it names an index directory.

| Variables | Code |
|---|---|
| `stdin`, `hand` | the pipe from Zed, and the request the main thread has registered but not yet forwarded |
| `stdout` | the pipe from the backend |
| `initOptions`, `initializeId`, `discoveryDone`, `indexDir` | the fields of `Shared` |
| `pendingServer`, `nextProxyId`, `calls` | `pending_server`, `next_proxy_id` and the threads inside `call_server` |
| `navRequests`, `pendingClient` | the maps of `Shared` |
| `workQueue`, `jobs`, `dead` | the channel to the workers, what each worker has done of its answer, and the workers whose thread has panicked |
| `cache`, `writeFailed` | the files `materialize` finds, and those it could not write |
| `spawned` | threads that were spawned and have not begun |
| `asked`, `received`, `prompts`, `picked`, `written`, `answers`, `replies`, `menus` | the client and the backend |
| `bare` | history: the `initialize` request had no params, so no options were stored |

The main thread has `TakeRequest` and `ForwardRequest` (two steps: what it stores is
visible before the frame is written), `TakeSave`, `TakeReply`. The pump has
`PumpFastPath`, `PumpCallReply`, `PumpClientAnswer`, `PumpChooseAction`, `PumpNoSession`, one
frame per step. `call_server` is `StartCall` (draw an id and register), `SendCall`,
`TimeoutCall`; for a worker `CacheMiss` takes the place of `StartCall`. A worker has
`TakeJob`, `CacheHit`, `CacheMiss`, `StoreFile`, `StoreFails`, `NoCode`, `FinishJob`, and `Panic`:
`percent_decode` slices a string inside a character (rewrite.rs:63) for some URIs (`PanicUri`), the
thread ends, and the answer it holds is lost. `Relay` allows that loss (`Die`): one answer per
holder, and of those only that pass through a holder.

### Decompile

A worker locks the queue, waits in `recv` with the lock in its hand (`guard`), and then walks
through the archive URIs of its answer: `Hit`, or `Miss`, `CallAnswered`, `Open`, `WriteAll`, `Seal`;
each can fail (`CallFails`, `OpenFails`, `WriteFails`), and `Panic` is the one in `percent_decode`.
`file[p]` is absent, partial or whole. `Open` truncates, so a worker can cut what
another has written: `opener` is who truncated last, and only its writing makes the file whole
for certain. `Restart` ends the process anywhere; files stay. `failed` and `cut` are history.

### Wire

A pipe is a sequence of at most `Capacity` tokens and a frame is two of them, its header and its
body. A thread has frames in hand (`out`), takes the mutex of the pipe (`Lock`), writes the
header, then the body, each when there is room (`WriteHeader`, `WriteBody`), and releases. A reader reads
when it has nothing to write (`ReadHeader`, `ReadBody`); whose bytes follow a header is
not checked, so an interleaved writer would give `Torn`. A frame without `Content-Length` ends
the reader (`ReadBroken`). The main thread forwards the client's frames but for replies to the
proxy's own requests, which it swallows (`Forwarded`; `Asked` is the request such a frame replies to).
A worker writes its answer (`Work`) or dies of it (`Panic`). After a frame that causes a call, the pump starts a thread for it
(`Spawn`). `ServerExits` and `ProxyExits` end the processes. `sent` and `got` are history and the
state of `Channel`.

### Lifecycle

Instances of the proxy follow each other. Each has a main thread (`MainExits`), a
thread that waits for its server (`Reap`, `DeleteIndex`, `DeleteFails`, `ReaperExits`),
and one thread per clear request (`ClearCaches`, `EndShutdownCall`, `SendExit`). The
session file and the index belong to the project. A proxy that ends takes its threads
with it, but not its server, which sees the end of its input (`told`). `condemned`
records the accepted requests whose index has not been deleted yet, and `disturbed` what
has come between: a host that left, a server that died unasked, five failed deletions. The index directory the server
names need not be there yet: deleting a missing one fails five times as well.

### Dap

The control connection is two sequences of lines; `handle_conn` answers one line after
the other (`HandleRequest`), `execute_command` writes a line (`Write`) and takes the next
line for its answer (`ReadLine`), or fails (`ReadFails`). `enrich_launch` is the walk of
`stage` through the commands `class`, `classpath`, `cwd`, `java`. A result has some parts or none
(`Results`), and a field is filled only if the result has it. A filled field holds the id
of the answer that filled it, so that the properties can tell whose answer it was. `asked` are the
ids of the commands of the launch in hand, `given` is what the proxy has written for them, and
`timedOut` the commands whose answer the adapter gave up: a read may time out whenever there is no
line (60 s, dap.rs:21), and the line comes later.

### Install

`Acquire`, `SeeStale`, `RemoveStale`, `StaleStays`, `TimedOut`, `CannotLock`, `Release` are the lock;
a look at its age and its removal are two steps, as in the code. `Stage` to `CleanUp` are
`download_and_install`, with `MoveServer` and `MakeExecutable` apart. Every removal may fail and nobody
looks at the error: of a stale lock (`StaleStays`, at once around the loop again), of the lock in `drop`
(`DropLock`), of the archive (`RemoveArchive`), of the staging directory (`RemoveStaging`, which may have
removed part of it). `kept` is history: what the last attempts have failed to remove. A directory is "partial" when its launcher may be there and other
files are missing. `writing` and `cut` follow what becomes of a process whose file or
directory another process truncates or removes. `early` are the waiters that began to wait
before the lock was made: LOCK_WAIT_TIMEOUT equals LOCK_STALE_AFTER and staleness is
looked at first, so they are the only ones that can reach their deadline. `takenOver` is
history: a lock was removed as stale while its owner was still installing. The lock of a dead
process may be removed; what follows on from its remains is covered by the properties.

### Extension

Windows are processes that share the working directory. A window is asked for a server
(`AskServer`) or an adapter (`AskDebugger`), finds the server directory and asks for the agreement
(`ResolveServer`, whose installation is `Install`), and fetches the proxy: `LookForProxy`,
`OpenDownload`, `FinishDownload`, `Verify`, `MakeExecutable`, `Rename`, each of which may fail, and `Discard`
for a wrong checksum. `file` is what lies at the two paths; a rename moves a file with
whoever writes to it. `StartServer` and `StartAdapter` build the command lines and take them apart
again as `parse_args`, `eula_args` and `system_path_of` do; `SystemFails` is an error of host or system
that ends a call; `Initialize` merges the options of the user, the
extension and the proxy; `wanted` is history: the options the user has set. So is `overlapped`: a download began between the
check of another and its rename.

## 3. Runs

| Run | Instance | Shows |
|---|---|---|
| `relay` | three scenarios (`MCRelay!InScenario`): 2 navigation requests with 2 workers and 3 links, which may be the same or kill their worker; initialize with and without params and with every answer, a save, and a request or a manual reload; 2 menus with shared and repeated titles | answers held in one place, delivered once or lost with their worker, links resolved (`Relay` implemented); calls invisible, findable, ended once (`Rpc` implemented); reloads with options; the command is the one picked |
| `live` | a start, and 2 navigation requests with 2 workers that may die, or a save and a request (`MCRelay!LiveScenario`), fairness | liveness of `Relay` and `Rpc`; the save is followed by a reload, a marked initialize answer by the discovery |
| `decompile` | 2 workers, 3 answers that share a URI, one of which kills its worker, 1 end of the process | links exact, incomplete files have a cause, `Workers` implemented, a survivor delivers |
| `decompile_partial` | the same | violated: an incomplete file is served |
| `wire` | every thread, 8 frames and a call, a worker that may die, pipes with room for half a frame | frames whole (`Channel` implemented), order, no standstill |
| `clear` | 2 proxies, 2 requests, an index that may be missing, servers die, hosts leave, up to 6 refused deletions, fairness | nothing deleted unasked, a promised restart ends the proxy; until something disturbs: fresh index, deletion after exit, crash code |
| `clear_busy` | 2 proxies, 5 refused deletions | violated: the old index is used after the fifth failure |
| `launch` | 2 launches with or without a field of the user, results whole, partial or missing, reads time out, the proxy dies, fairness | launches completed by their own answers, or such as lag by no more than reads have timed out, and by all there are until then; they go out; the adapter ends |
| `launch_late` | 1 launch | violated: a late line is taken for the next answer |
| `install` | 2 processes, everything may fail, removals included, one may die, locks go stale, fairness | until a running installer loses its lock exclusive and whole, one download, and nothing left but what could not be removed; always: success means a launcher, an installed server stays, waiting ends unless a stale lock cannot be removed |
| `install_lock` | the same | violated: a lock is removed that is not stale |
| `extension` | 2 windows, one with five kinds of settings, three kinds of release, errors of host and system | the proxy is the release unless downloads overlap; servers get what they should; session directories agree; failures have causes |

Each property of a passing run is also checked against a deliberately wrong version of
one definition (the operators commented "Bug:"), which TLC must find. The type invariants are
proved for all constants (section 4) and therefore in no run.

Bounds, and why they are enough:

- `MaxProxyId`: at least the number of calls and prompts of a scenario, so the bound never
  stops a behaviour; MCProxy's `EnoughIds` is evaluated on every run.
- `InScenario` keeps the three scenarios of `relay` apart: what the code shares between them is the
  id counter and `pending_server`, which `Start` fills from three callers at once and the
  others from two. The proofs of section 4 have no such limit. `LiveScenario` bounds what client and
  backend do in the same way; it cuts off only steps without fairness, which nobody has to take.
- Two requests, workers or menus: the interference the code can have is between a pair
  (two answers in the queue, two workers at one URI, a late reply and a later call). Three
  calls are in progress in the second scenario.
- Three URIs, two that may be shared and one that panics: a worker finds in the cache what the other has just
  stored, and stores what the other stores too.
- `MaxRestarts` = 1: a second process meets whatever the first has left in the cache.
- `Capacity` = 1: the least room there can be, where every writer can be stopped in the middle of
  its frame; one frame of each kind at least, and the call an answer gives rise to.
- `MaxInstances` = 2: a second proxy meets what the first left. `MaxBusy` = 6: five refusals are
  all attempts of one deletion, and one is left for another.
- `MaxCrashes` = 1: one dead owner is enough for two live processes to fight for its lock.
- `MaxLaunches` = 2: the second launch meets lines and ids of the first, late ones too. `Results`: a result
  with everything, and one with a part of the class path that is none at all for the other commands.
- Two windows: one renames while the other writes.

Deadlock is checked in `extension`, where a window can always be asked again. Every other run has
CHECK_DEADLOCK FALSE: a proxy, an adapter or an installation that has nothing left to do rests.

Fairness:

- `Proxy`, `Decompile`, `Dap`, `Wire`: threads are scheduled by the operating system (weak fairness of
  the steps of a thread), and `recv_timeout` expires (`TimeoutCall`; in `Decompile` a call
  returns one way or the other). Nothing is assumed of the client, nor that the backend
  ever replies. In `Wire` the client reads what comes, and the server reads when it does not
  write. Without a client that reads, everything waits for it. A panic is not fair.
- `Lifecycle`: a server that got exit, or whose input is closed, exits.
- `Dap`: a living proxy answers every line, which is what the time-out of its calls gives.
- `Install`: a running process goes on and time passes. Strong fairness says that a poller
  (200 ms) does not always look at the wrong moment, and that who has passed its deadline gives up
  at a lock it finds fresh; crashes, new starts and the errors of `CannotLock` are not fair. A stale lock
  that can never be removed keeps a waiter spinning (server.rs:375-376): `WaitEnds` names that exception.

Some properties cannot hold for all behaviours. Instead of an assumption that leaves
such behaviours out, a history variable says in the property itself when it stops to hold, so that
the runs and the proofs cover the rest of the behaviour too: `dead` and `bare` (`Proxy`), `takenOver`,
`crashes` and `kept` (`Install`), `disturbed` (`Lifecycle`), `overlapped` and `abandoned` (`Extension`),
`failed` and `cut` (`Decompile`), `given` and `timedOut` (`Dap`), `ended` (`Wire`).

Four runs are expected to fail. They state what the code's documentation says:

- `install_lock`: a lock is to be stale after 10 minutes (server.rs:8), but `is_stale` and
  `remove_dir_all` are two steps, and the second removes whatever is at the path. In the trace a process
  finds the lock of a slow owner stale; the owner lets go, a new lock is made, and the process removes
  that one while its owner has just begun. (A takeover from an owner that is slower than 10 minutes is
  what the code documents; it is `takenOver`, and no finding.)
- `decompile_partial`: `fs::write` creates the file before it fills it; a write that fails, or a
  process that ends, leaves an incomplete file, which `path.exists()` accepts ever after
  (main.rs:641).
- `clear_busy`: `delete_dir_with_retries` returns after the fifth failure like after a
  success, and the proxy restarts on the index that was to be wiped (README.md:258).
- `launch_late`: answers on the control connection carry ids that `execute_command` does not
  compare, and both ends wait 60 seconds; after one command that the backend does not
  answer, each later one reads the answer before its own (README.md:114).

Three more disagreements have no run of their own; the properties say what the code does.

- README.md:69-70 says that `initialization_options` are forwarded as they are, and lib.rs:128-130 that
  those of the user win and `intellijExtensions` stays off. Behind the proxy `intellijExtensions` is
  true whatever the user has set (main.rs:444). `SameServer` exempts that one option, by name, and demands all
  others as the user set them.
- The extension adds `--eula` before the arguments of the user (lib.rs:77-82), so where these have it too
  the server gets it twice; only the proxy looks whether it is there (main.rs:317). `SameServer` states
  the exact command line for both cases.
- "After every `initialize`" the proxy is said to look for a license (README.md:225). It does so where the answer
  holds one of the words of the fast path (main.rs:499), which is what `DiscoveryRuns` assumes.

## 4. Proofs

For all values of the constants that satisfy the named assumptions of the modules:

| Theorem | Says |
|---|---|
| `ProxyProofs!TypeCorrect` | `Spec => []TypeOK` |
| `ProxyProofs!AnswersHeldOnce`, `NavAlwaysRecognised`, `LinksAreResolved` | `Spec =>` `[]AnswerHeldOnce`, `[]NavRecognised`, `[]LinksResolved` |
| `ProxyProofs!CallersReachable`, `TrafficSwallowed`, `ReloadsHaveOptions`, `ChoicesMatch` | `Spec =>` `[]CallerReachable`, `[]ProxyTrafficSwallowed`, `[]ReloadCarriesOptions`, `[]ChoiceMatchesPick` |
| `ProxyProofs!RelayImplemented`, `RpcImplemented` | `Spec => RelaySafety`, `Spec => RpcSafety`, that is `Spec => Relaying!Spec`, `Spec => Rpcs!Spec` |
| `ProxyProofs!HandingImplemented` | `Spec => HandingSafety`, that is `Spec => Handing!Spec` |
| `DecompileProofs!DecompileTypeCorrect`, `LinksAreExact`, `NoCauselessPartial` | `Spec =>` `[]TypeOK`, `[]LinksExact`, `[]PartialHasCause` |
| `DecompileProofs!ServedUnlessGivenUp` | what `ServedWhole` says, of each file until a writing of this file is given up |
| `DecompileProofs!WorkersImplemented` | `Spec => WorkersSafety`, that is `Spec => Handing!Spec` |
| `WireProofs!WireTypeCorrect`, `OneWriterAtATime`, `RelayedInOrder` | `Spec =>` `[]TypeOK`, `[]OneWriter`, `[]RelayInOrder` |
| `WireProofs!ReadIsPrefix` | what was read from a pipe is a prefix of what was written |
| `WireProofs!PipesCarryFrames` | `Spec => WholeFrames`, that is `Spec => Channels!Spec` |
| `LifecycleProofs!LifecycleTypeCorrect`, `NoUnaskedDeletion` | `Spec =>` `[]TypeOK`, `DeletedOnDemand` |
| `LifecycleProofs!CrashIsSeen`, `ClosedIndex`, `NewIndex` | `Spec =>` `[]PromisedCrash`, `ReleasedBeforeDelete`, `FreshRestart` |
| `DapProofs!DapTypeCorrect` | `Spec => []TypeOK` |
| `DapProofs!LaunchesGetTheirOwn`, `LaunchesAreResolved` | `Spec =>` `[]OwnAnswers`, `[]ResolvedUntilLate` |
| `InstallProofs!InstallTypeCorrect`, `OneInstaller`, `WholeServer`, `NothingLeftBehind`, `SuccessIsReal` | `Spec =>` `[]TypeOK`, `[]ExclusiveUntilTakeover`, `[]ServerWhole`, `[]NothingLeft`, `[]ResolvedExists` |
| `InstallProofs!DownloadedOnce`, `InstalledStays` | `Spec =>` `OneDownload`, `ServerStays` |
| `ExtensionProofs!ExtensionTypeCorrect`, `ProxyStaysWhole`, `NoCauselessOutcome` | `Spec =>` `[]TypeOK`, `[]ProxyWhole`, `[]OutcomeHasCause` |
| `ExtensionProofs!ServerUnaltered`, `SessionFound` | `Spec =>` `[]SameServer`, `[]SessionDirsAgree` |
| `ExtensionProofs!WholeAlone` | if there is one window: a proxy at its final path is the release, whole and executable |

Only `WholeAlone` has a premise; it says what `ProxyWhole` comes to where nobody shares the directory.

The named assumptions say how constants are typed and that names do not clash; those
with content are in `Proxy`: ids of different kinds differ (`IdsDisjoint`), an answer with archive
URIs contains a word of the fast path (`AnswersAssumption`: the URIs begin with such words), and
saved build descriptors are saved documents; and in `Wire`: log lines are no frames of the
server (`LineAssumption`), and a thread for a call is none of the others (`ThreadAssumption`).

The inductive invariants:

- Proxy. `TypeInv` is `TypeOK` and `Existing`, what the types alone do not give an action:
  a frame in the backend's pipe has an answer or a reply, a queued answer exists, and a worker's
  answer exists and has at least as many links as the worker has done, more while it waits for
  a call.
  - `Held` strengthens `AnswerHeldOnce`: the places of an answer (pipe, queue, worker, client)
    exclude each other, no place holds it twice, and no two workers have the same one. `Stuck`: a worker
    that is dead still has the answer it died of, at a link that panics.
    `AnswerHeldOnce` alone is not inductive: taking an answer from the queue needs to know that it
    is there once. `Sent` says the same of a request on its way in (`stdin`, `hand`, `written`); with
    `Held` it gives the refinement of `Relay`.
  - `Tracking` relates `navRequests` to the request in hand, the written ones and the pipe: a
    navigation request enters the map before it is written and leaves it with its answer.
  - `CallInv`: an id not drawn yet is unknown, a waiting one is in `pending_server`, a call is
    registered before it is written and written before it is replied to, an id is a call or a
    prompt but not both, and the client has seen none of it. It gives the refinement of `Rpc`.
  - `OptionsFirst`: as long as there are no options, `initialize` is neither in hand nor written, no
    save is in the client's pipe and no reload has begun, unless the `initialize` request had no params; a
    manual reload looks at the options.
  - `Resolving` carries `LinksResolved` back to the worker: each link it has done has a file in the
    cache or a reason why not, a call in hand is for the next link, and what is delivered
    was done. Reasons only grow, which `CallHistory` gives (a call stays, goes on, or begins).
  - `Noted`: what is queued or with a worker is an answer the pump has looked into. With `Held` and
    `Tracking` it gives the refinement of `Workers`: `StageValues` says what stage, links and
    settled links an answer has at each place, and a step either keeps them for all answers or
    makes one step of `Workers` for one of them.
  - `Menus`: a menu comes once and has one prompt. `Choosing`: a command, sent or still to be sent, is the
    pick of its session, and a session with an entry in `pending_client` has none yet.
- Decompile. `Held`: what is queued is queued once, a job has one worker, whose path is one of the
  link in hand and exists once it was opened. `LastOpenerWrites`: an incomplete file was last opened
  by a worker that is still writing it, unless it was cut; `PartialHasCause` alone does not
  survive a second worker that truncates. `LinksExact` and `PartialHasCause` together give
  `ServedUnlessGivenUp`.
- Wire. `OneWriter`: one holder of a mutex, it has a frame for that pipe, and one that is
  half way holds the mutex, with its frame the last one sent. `Contents` counts the tokens of a pipe
  (`Fits`): with the header the reader has in hand they are the headers and bodies of the
  frames of `sent` behind `got`, in turn, without the last body if a writer is half way.
  So a body always meets its header, at every capacity. `Order` adds that what was read of a pipe
  begins what was written (`ReadsBegin`), that the pump writes all frames to the client but the navigation
  answers, and none of those (`Hands`), and `InOrder`: the frames written to the client, without
  the answers of workers, followed by those the pump has in hand, are what it has made of
  the frames it has read. `RelayInOrder` says nothing of what is between the two ends, so it is not inductive.
- Lifecycle. `TypeInv` is `TypeOK`, a deletion in progress has an attempt left, and an
  accepted request knows its instance. `Demanded`: proxies follow each other, a process that has not
  begun has no request, and the latch or a deletion in progress means a directory that is known and an
  accepted request. `Undisturbed`: until something
  disturbs (`Calm`), a server is told only by an accepted request and exits only when told, the
  latch is held until it is taken, a running server has a proxy whose reaper still waits,
  and an index that is to be cleared has a proxy that has not finished.
- Dap. The connection is a queue whose ids nobody compares, so the argument counts. `Order`: the lines on
  their way back, and those on their way to a living proxy, are numbered in a row, and the next one to be
  read (`NextLine`) is as many before the id awaited as reads have timed out. `Awaits`: the id awaited is the
  last one drawn. `Contents`: what a line has is what the proxy has written (`given`), as long as no read has timed out.
  `Asked`: ids of the launch in hand only, one command after the other. `CommandsOver`: the line for a
  command that is over has been read, or some read was late. `Progress`: such a command has filled its
  fields, or had no such result (`Resolved`), or was asked after a time-out (`AfterLate`). `OwnAnswers` alone
  is not inductive: it says nothing of the lines still on their way.
- Install. `UntilTakeover`: until a running installer loses its lock (`Alone`) who is past the lock owns
  it (`OwnerInside`), at each stage its owner finds on disk what its earlier steps have left (`Staged`),
  whatever a dead one has left there before, and a server directory is whole; without a death
  nothing but what was `kept` is left when the last one is out (`Tidy`). `Exclusive` alone is not inductive: that `Release` removes
  one's own lock needs the owner. `Resolved`: a success that was decided stays one, because an installed server stays.
- Extension. `Contents`: an incomplete file is written to by who truncated it last, or was given up;
  `Released`: only the release passes the check; `Checked`: without an overlap a checked
  download is left alone until its rename; `Found`: a proxy that was found stays. `Agreed`: a call
  for a server goes on only with a directory and the agreement. `Served`: every server started is
  `Fit`, which is `SameServer` and the place of its session; that `StartServer` makes it so is shown on the
  command line (`ServerCommandDef`, `Scanned`, `Command`).

Each is proved by one lemma per action or group of actions (`NextTypes`, ...), most
of which reduce to a lemma for steps that leave the invariant's variables alone.

Two proofs need induction, over the sequences that `RelayInOrder` flattens and the arguments that
`parse_args` takes one after the other. The library's induction theorems have an operator as a parameter,
which the provers cannot instantiate. `Lemmas!Climb` is induction for a set: one that holds 0 and, with
each number, the next, holds all naturals, which follows from `LeastExists` and so from the
well-foundedness of `<`. A property is then shown to hold on the set of lengths for which it does.

Only model-checked: liveness under fairness, which is out of the prover's reach (`RelayLiveness`,
`RpcLiveness`, `SaveReloads`, `DiscoveryRuns`, `SurvivorDelivers`, `NoStandstill`, `ClearEnds`, `LaunchGoesOut`,
`ClientEndsAdapter`, `WaitEnds`). Every invariant and action property of a passing run is proved. Only proved:
`HandingSafety`, which is in no run.

## 5. Not modelled

- Text: names of cache files, percent-decoding (but for its panic), the rewriting of a link once
  its file is known, quoting of arguments, `file_uri`, the spelling of headers, the wording of errors.
  A URI names its file, so that two URIs whose 32-bit hashes agree is left out.
- `workspace_configuration`, which hands on settings as they are, and the table of names in
  `buildfiles.rs`.
- The growth of `pending_server` by calls without a reply and of `nav_requests` by answers on the
  fast path: the entries are in the model and disturb nothing, but TLC's ids are bounded
  and used once.
- Two proxies of one project at a time, and a port that somebody else uses again: the session
  file of a dead proxy is modelled, that of a living rival is not.
- A line of the control connection, or an answer's body, that comes in pieces around a time-out: lines come whole
  or not yet. A panic anywhere but in `percent_decode`.
- `find_jetbrains_install` beyond its outcome, and the platforms beyond whether there is a release.
- The maintenance and protocol scripts (`tests/`, `scripts/`): clients of the control channel whose requests
  are the requests of `Lifecycle` and the manual reloads of `Proxy`.

## 6. What could come next

- Two proxies in `Lifecycle` with a session file that each overwrites, and a reused port in `Dap`.
- An abstract lock that `Install` implements until a running installer loses its lock.
- With a fix of the four disagreements (a lock removed by name, a file written aside and
  renamed, an error after the fifth deletion, ids compared) the runs that state them become passing
  ones, and their histories go.
