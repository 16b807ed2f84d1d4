------------------------------ MODULE Extension ------------------------------
(***************************************************************************)
(* What the extension starts (extension/src/lib.rs, config.rs, eula.rs):   *)
(* the language server, behind the proxy or directly, and the debug        *)
(* adapter. The proxy itself is downloaded (resolve_proxy_path in          *)
(* server.rs) without a lock by windows that share the working directory;  *)
(* proxy/src/main.rs takes the command line apart again.                   *)
(*                                                                         *)
(* Two windows may write to the same file, and a rename moves what lies    *)
(* there when it happens, with its writers. The directory of a worktree    *)
(* can always be made.                                                     *)
(***************************************************************************)
EXTENDS Naturals, Sequences, Functions

CONSTANTS
    Window,      \* Zed processes, each with one worktree
    Config,      \* Config[w]: settings of the user and debug configurations
    SystemPath,  \* SystemPath[w]: the directory of its worktree
    EulaIn,      \* server directories with an EULA.txt
    None

Dir == {"own", "shared", "users"}

Launcher == [own |-> "own/intellij-server", shared |-> "shared/intellij-server",
             users |-> "users/intellij-server"]
Hash == [own |-> "own hash", shared |-> "shared hash", users |-> "users hash"]

ASSUME EulaAssumption == EulaIn \subseteq Dir
ASSUME NoneAssumption ==
    None \notin Window \cup Dir \cup {"own", "users", "download", "installed", "gone"}

\* A file, with the window that has truncated it last, and whether the download
\* to it was given up.
File == [content : {"part", "good", "bad"}, executable : BOOLEAN,
         latest : Window, abandoned : BOOLEAN]

ASSUME FileAssumption == None \notin File
ASSUME PathAssumption ==
    \A w \in Window : SystemPath[w] \notin {"--stdio", "--system-path", "--eula", "--log", "--"}

ASSUME ConfigAssumption ==
    \A w \in Window : Config[w] # {} /\ \A c \in Config[w] :
       c \in [accept : BOOLEAN, proxy : BOOLEAN, request : BOOLEAN,
             binary : {"none", "users", "odd"}, extra : Seq(STRING),
             settings : Seq(STRING), env : Seq(STRING), options : Seq(STRING)]

VARIABLES
    asset,       \* what the release offers: "none", "good" or "bad"
    pc,          \* where the window is in the call
    call,        \* the call: "server" or "debugger"
    config,      \* its settings, read when it begins
    dir,         \* the server directory it has found
    proxy,       \* the proxy it has found: "users", "own" or None
    troubled,    \* the proxy could not be fetched in this call
    server,      \* server[w]: the server that was started, or None; "wanted" is a
                 \* history: the options of the user when it was initialized
    adapter,     \* adapter[w]: arguments of the debug adapter, or None
    file,        \* file["download"]: at proxy/<version>/<archive>, and
                 \* file["installed"]: at proxy/<version>/ij-zed-proxy, or None
    writing,     \* writing[w]: the file its download goes to; "gone": a removed one
    overlapped   \* history: a download began between a check and its rename

local == <<pc, call, config, dir, proxy, troubled>>
started == <<server, adapter>>
files == <<file, writing>>
vars == <<asset, local, started, files, overlapped>>

Init ==
    /\ asset \in {"none", "good", "bad"}
    /\ pc = [w \in Window |-> "idle"] /\ call = [w \in Window |-> "server"]
    /\ config = [w \in Window |-> CHOOSE c \in Config[w] : TRUE]
    /\ dir = [w \in Window |-> None] /\ proxy = [w \in Window |-> None]
    /\ troubled = {}
    /\ server = [w \in Window |-> None] /\ adapter = [w \in Window |-> None]
    /\ file = [download |-> None, installed |-> None]
    /\ writing = [w \in Window |-> None] /\ overlapped = FALSE

Goto(w, label) == pc' = [pc EXCEPT ![w] = label]

-----------------------------------------------------------------------------
(* The calls of the host. Zed makes the calls of a window one at a time.    *)

Begin(w, kind, c) ==
    /\ pc[w] \in {"idle", "failed"}
    /\ call' = [call EXCEPT ![w] = kind]
    /\ config' = [config EXCEPT ![w] = c]
    /\ dir' = [dir EXCEPT ![w] = None] /\ proxy' = [proxy EXCEPT ![w] = None]
    /\ troubled' = troubled \ {w}
    /\ UNCHANGED <<asset, started, files, overlapped>>

\* language_server_command
AskServer(w, c) == server[w] = None /\ Goto(w, "resolve") /\ Begin(w, "server", c)

\* get_dap_binary
AskDebugger(w, c) == adapter[w] = None /\ Goto(w, "proxy") /\ Begin(w, "debugger", c)

Fail(w) == Goto(w, "failed")

\* The call is over, and its variables with it.
Forget(w) ==
    /\ Goto(w, "idle")
    /\ call' = [call EXCEPT ![w] = "server"]
    /\ config' = [config EXCEPT ![w] = CHOOSE c \in Config[w] : TRUE]
    /\ dir' = [dir EXCEPT ![w] = None] /\ proxy' = [proxy EXCEPT ![w] = None]
    /\ troubled' = troubled \ {w}

\* An error of the host or the system is an error of the call: the settings
\* cannot be read, the platform is not known, there is no working directory or no
\* directory for the worktree. A proxy of the user needs neither of the platform
\* and the working directory, a server that is started directly nothing more.
SystemFails(w) ==
    /\ \/ pc[w] = "resolve"
       \/ pc[w] = "proxy" /\ (call[w] = "debugger" \/ ~config[w].proxy)
       \/ pc[w] = "settled" /\ (call[w] = "debugger" \/ proxy[w] # None)
    /\ Forget(w)
    /\ UNCHANGED <<asset, started, files, overlapped>>

Accepted(c) == c.accept

\* resolve_server_dir; its installation is the module Install. Only then the
\* agreement is asked for, which lies in that directory.
ResolveServer(w, d) ==
    /\ pc[w] = "resolve"
    /\ CASE config[w].binary = "users" -> d = "users"
         [] config[w].binary = "odd" -> d = None
         [] OTHER -> d # "users"
    /\ dir' = [dir EXCEPT ![w] = d]
    /\ IF d # None /\ Accepted(config[w]) THEN Goto(w, "proxy") ELSE Fail(w)
    /\ UNCHANGED <<asset, call, config, proxy, troubled, started, files, overlapped>>

-----------------------------------------------------------------------------
(* resolve_proxy_path.                                                      *)

Settle(w, p) == Goto(w, "settled") /\ proxy' = [proxy EXCEPT ![w] = p]

Exists == file["installed"] # None

LookForProxy(w) ==
    /\ pc[w] = "proxy"
    /\ CASE config[w].proxy -> Settle(w, "users")
         [] ~config[w].proxy /\ asset = "none" -> Settle(w, None)
         [] ~config[w].proxy /\ asset # "none" /\ Exists -> Settle(w, "own")
         [] OTHER -> Goto(w, "open") /\ UNCHANGED proxy
    /\ UNCHANGED <<asset, call, config, dir, troubled, started, files, overlapped>>

\* Bug: an error of the download is an error of the call.
FailCall(w) == Fail(w) /\ UNCHANGED proxy

Degrade(w) == Settle(w, None)

\* Result::ok: whatever went wrong, there is no proxy.
Trouble(w) ==
    /\ Degrade(w)
    /\ troubled' = troubled \cup {w}
    /\ UNCHANGED <<asset, call, config, dir, started, overlapped>>

Proceed(w, label) ==
    /\ Goto(w, label)
    /\ UNCHANGED <<asset, call, config, dir, proxy, troubled, started>>

Between == {"chmod", "rename"}

Update(field, value) == file' = [file EXCEPT !["download"] = [@ EXCEPT ![field] = value]]

\* The file of another download is truncated and written to by both; it keeps
\* its mode.
OpenDownload(w) ==
    /\ pc[w] = "open"
    /\ Proceed(w, "writing")
    /\ file' = [file EXCEPT !["download"] =
                  [content |-> "part", latest |-> w, abandoned |-> FALSE,
                   executable |-> @ # None /\ @.executable]]
    /\ writing' = [writing EXCEPT ![w] = "download"]
    /\ overlapped' = (overlapped \/ \E v \in Window : pc[v] \in Between)

\* The directory cannot be made, or nothing be fetched.
OpenFails(w) == pc[w] = "open" /\ Trouble(w) /\ UNCHANGED files

\* The end of a download changes its file unless another has truncated it
\* since and writes the same again.
EndsWith(w, field, value) ==
    /\ writing' = [writing EXCEPT ![w] = None]
    /\ file' = [e \in DOMAIN file |->
                  IF e = writing[w] /\ file[e].latest = w
                    THEN [file[e] EXCEPT ![field] = value] ELSE file[e]]

FinishDownload(w) ==
    /\ pc[w] = "writing"
    /\ Proceed(w, "verify")
    /\ EndsWith(w, "content", asset)
    /\ UNCHANGED overlapped

BreakDownload(w) == pc[w] = "writing" /\ Trouble(w) /\ EndsWith(w, "abandoned", TRUE)

\* Bug: what was downloaded is not looked at.
Unchecked(f) == TRUE

Matches(f) == f.content = "good"

Present == file["download"] # None

Verify(w) ==
    /\ pc[w] = "verify" /\ Present
    /\ Proceed(w, IF Matches(file["download"]) THEN "chmod" ELSE "discard")
    /\ UNCHANGED <<files, overlapped>>

VerifyFails(w) == pc[w] = "verify" /\ Trouble(w) /\ UNCHANGED files

\* Who writes to the file at one path writes from now on to what is named so.
Moved(moves) ==
    writing' = [w \in Window |->
                  IF writing[w] \in DOMAIN moves THEN moves[writing[w]] ELSE writing[w]]

\* What lies there by now is removed.
Discard(w) ==
    /\ pc[w] = "discard"
    /\ Trouble(w)
    /\ file' = [file EXCEPT !["download"] = None]
    /\ Moved([download |-> "gone"])

MakeExecutable(w) ==
    /\ pc[w] = "chmod" /\ Present
    /\ Proceed(w, "rename")
    /\ Update("executable", TRUE)
    /\ UNCHANGED <<writing, overlapped>>

Rename(w) ==
    /\ pc[w] = "rename" /\ Present
    /\ Settle(w, "own")
    /\ file' = [download |-> None, installed |-> file["download"]]
    /\ Moved([download |-> "installed", installed |-> "gone"])
    /\ UNCHANGED <<asset, call, config, dir, troubled, started, overlapped>>

StepFails(w) == pc[w] \in Between /\ Trouble(w) /\ UNCHANGED files

-----------------------------------------------------------------------------
(* LaunchConfig and the command lines of the extension.                     *)

\* Files outside the working directory cannot be read.
Readable(d) == d = "own" /\ d \in EulaIn

Variable == [jvm_args |-> "IJ_JAVA_OPTIONS", data_sharing |-> "INTELLIJ_DATA_SHARING",
             region |-> "INTELLIJ_REGION"]

\* Settings with an unknown value are dropped; the environment of the user wins.
LaunchEnv(c) ==
    {<<v, "user">> : v \in Range(c.env)}
        \cup {<<Variable[k], "settings">> :
                k \in {s \in DOMAIN Variable \cap Range(c.settings) :
                         Variable[s] \notin Range(c.env)}}

Arguments(w) ==
    <<"--stdio", "--system-path", SystemPath[w]>>
        \o (IF Readable(dir[w]) THEN <<"--eula", Hash[dir[w]]>> ELSE <<>>)
        \o config[w].extra

ProxyArguments(w) == <<"--log", "proxy.log", "--", Launcher[dir[w]]>> \o Arguments(w)

AdapterArguments(w) ==
    <<"--dap", "--system-path", SystemPath[w], "--root-uri", "uri of the worktree">>

-----------------------------------------------------------------------------
(* The proxy takes them apart: parse_args, eula_args, system_path_of.       *)

ServerCommand(argv) ==
    LET rest[i \in 1..(Len(argv) + 2)] ==
          IF i > Len(argv) THEN <<>>
          ELSE IF argv[i] = "--log" THEN rest[i + 2]
          ELSE IF argv[i] = "--" THEN SubSeq(argv, i + 1, Len(argv))
          ELSE SubSeq(argv, i, Len(argv))
    IN rest[1]

\* Bug: the acceptance is added whether it is there or not.
Never(cmd) == FALSE

HasEula(cmd) == "--eula" \in Range(cmd)

EulaArgs(cmd) ==
    IF HasEula(cmd) THEN cmd
    ELSE LET d == CHOOSE x \in Dir : Launcher[x] = cmd[1]
         IN  IF d \in EulaIn THEN cmd \o <<"--eula", Hash[d]>> ELSE cmd

SystemPathAt(cmd) == {i \in 1..(Len(cmd) - 1) : cmd[i] = "--system-path"}

\* Bug: the last one counts.
LastOf(places) == CHOOSE i \in places : \A j \in places : j <= i

FirstOf(places) == CHOOSE i \in places : \A j \in places : i <= j

SystemPathOf(cmd) ==
    IF SystemPathAt(cmd) = {} THEN "temp" ELSE cmd[FirstOf(SystemPathAt(cmd)) + 1]

\* The variable that makes the launcher write to stdout is removed.
Scrubbed(env) == {v \in env : v[1] # "IJ_LAUNCHER_DEBUG"}

\* The binary can be executed and is what it should be.
Whole(f) == f.content = "good" /\ f.executable

Runs(w) == proxy[w] = "own" => file["installed"] # None /\ Whole(file["installed"])

Direct(w) ==
    [proxied |-> FALSE, dir |-> dir[w], config |-> config[w], session |-> None,
     argv |-> <<Launcher[dir[w]]>> \o Arguments(w), env |-> LaunchEnv(config[w]),
     options |-> {}, wanted |-> {}]

Proxied(w) ==
    LET cmd == ServerCommand(ProxyArguments(w)) IN
    [proxied |-> TRUE, dir |-> dir[w], config |-> config[w],
     session |-> SystemPathOf(cmd), argv |-> EulaArgs(cmd),
     env |-> Scrubbed(LaunchEnv(config[w])), options |-> {}, wanted |-> {}]

\* The host starts what it is given.
StartServer(w) ==
    /\ pc[w] = "settled" /\ call[w] = "server"
    /\ IF Runs(w) /\ (proxy[w] # None \/ Readable(dir[w]))
         THEN /\ server' = [server EXCEPT ![w] =
                              IF proxy[w] = None THEN Direct(w) ELSE Proxied(w)]
              /\ Forget(w)
         ELSE Fail(w) /\ UNCHANGED <<server, call, config, dir, proxy, troubled>>
    /\ UNCHANGED <<asset, adapter, files, overlapped>>

\* language_server_initialization_options: the user wins.
InitOptions(c) ==
    {<<k, "user">> : k \in Range(c.options)}
        \cup {<<k, "default">> :
                k \in {"projects", "disableRocksDBWriteAheadLog"} \ Range(c.options)}

\* client_to_server: one option is the proxy's.
ProxyOptions(options) ==
    {o \in options : o[1] # "intellijExtensions"} \cup {<<"intellijExtensions", "proxy">>}

\* The initialize request of the client; the settings are read again.
Initialize(w, c) ==
    /\ server[w] # None /\ server[w].options = {}
    /\ server' = [server EXCEPT
                    ![w].options = IF server[w].proxied THEN ProxyOptions(InitOptions(c))
                                     ELSE InitOptions(c),
                    ![w].wanted = Range(c.options)]
    /\ UNCHANGED <<asset, local, adapter, files, overlapped>>

\* parse_args --dap: the argument after --system-path.
AdapterPath(argv) ==
    argv[1 + CHOOSE i \in 1..(Len(argv) - 1) : argv[i] = "--system-path"]

StartAdapter(w) ==
    /\ pc[w] = "settled" /\ call[w] = "debugger"
    /\ IF proxy[w] # None /\ config[w].request /\ Runs(w)
         THEN /\ adapter' = [adapter EXCEPT ![w] = AdapterPath(AdapterArguments(w))]
              /\ Forget(w)
         ELSE Fail(w) /\ UNCHANGED <<adapter, call, config, dir, proxy, troubled>>
    /\ UNCHANGED <<asset, server, files, overlapped>>

ServerStops(w) ==
    /\ server[w] # None
    /\ server' = [server EXCEPT ![w] = None]
    /\ UNCHANGED <<asset, local, adapter, files, overlapped>>

AdapterStops(w) ==
    /\ adapter[w] # None
    /\ adapter' = [adapter EXCEPT ![w] = None]
    /\ UNCHANGED <<asset, local, server, files, overlapped>>

\* The window is closed in the middle of a call, or Zed dies.
Crash(w) ==
    /\ pc[w] \notin {"idle", "failed"}
    /\ server' = [server EXCEPT ![w] = None] /\ adapter' = [adapter EXCEPT ![w] = None]
    /\ EndsWith(w, "abandoned", TRUE)
    /\ Forget(w)
    /\ UNCHANGED <<asset, overlapped>>

-----------------------------------------------------------------------------
Call(w) ==
    \/ \E c \in Config[w] : AskServer(w, c) \/ AskDebugger(w, c)
    \/ \E d \in Dir \cup {None} : ResolveServer(w, d)
    \/ StartServer(w) \/ StartAdapter(w) \/ SystemFails(w)

FetchProxy(w) ==
    \/ LookForProxy(w) \/ OpenDownload(w) \/ OpenFails(w)
    \/ FinishDownload(w) \/ BreakDownload(w)
    \/ Verify(w) \/ VerifyFails(w) \/ Discard(w)
    \/ MakeExecutable(w) \/ Rename(w) \/ StepFails(w)

Next ==
    \E w \in Window :
       \/ Call(w) \/ FetchProxy(w) \/ \E c \in Config[w] : Initialize(w, c)
       \/ ServerStops(w) \/ AdapterStops(w) \/ Crash(w)

Spec == Init /\ [][Next]_vars

-----------------------------------------------------------------------------
\* Type invariant: the windows, their calls and the files of the proxy.
TypeOK ==
    /\ asset \in {"none", "good", "bad"}
    /\ pc \in [Window -> {"idle", "resolve", "proxy", "open", "writing", "verify",
                          "discard", "chmod", "rename", "settled", "failed"}]
    /\ call \in [Window -> {"server", "debugger"}]
    /\ \A w \in Window : config[w] \in Config[w]
    /\ dir \in [Window -> Dir \cup {None}]
    /\ proxy \in [Window -> {"users", "own", None}] /\ troubled \subseteq Window
    /\ DOMAIN adapter = Window
    /\ \A w \in Window : adapter[w] \in {SystemPath[w], None}
    /\ file \in [{"download", "installed"} -> File \cup {None}]
    /\ writing \in [Window -> {"download", "installed", "gone", None}]
    /\ overlapped \in BOOLEAN
    /\ \A w \in Window : writing[w] # None <=> pc[w] = "writing"
    /\ \A w \in Window, e \in {"download", "installed"} : writing[w] = e => file[e] # None

\* Safety: the proxy that later calls take without another look is the release,
\* whole and executable, unless a window began to download between the check of
\* another and its rename. Even then it is incomplete only while a window writes
\* to it, or because a download to it was given up.
ProxyWhole ==
    file["installed"] # None =>
      /\ Whole(file["installed"]) \/ overlapped
      /\ \/ file["installed"].content = "good"
         \/ \E w \in Window : writing[w] = "installed"
         \/ file["installed"].abandoned

\* Safety: whatever the user adds, the server gets the arguments the extension
\* has made for it, in their order, after the user has agreed. It is told so by
\* the extension where that can read the agreement, whether or not the user's own
\* arguments say it too, and else by the proxy, unless they do; never by both.
\* Behind the proxy it has not the variable that would break its output. Of the
\* user's options all reach it but one, which the proxy sets whatever the user
\* wants, and none comes twice.
SameServer ==
    \A w \in Window : server[w] # None =>
      LET s == server[w]
          eula == <<"--eula", Hash[s.dir]>>
          base == <<Launcher[s.dir], "--stdio", "--system-path", SystemPath[w]>>
          users == "--eula" \in Range(s.config.extra)
          byProxy == s.proxied /\ ~Readable(s.dir) /\ s.dir \in EulaIn /\ ~users
          debug == <<"IJ_LAUNCHER_DEBUG", "user">>
          proxys == {k \in {"intellijExtensions"} : s.proxied}
      IN  /\ s.config.accept
          /\ s.argv = base \o (IF Readable(s.dir) THEN eula ELSE <<>>) \o s.config.extra
                          \o (IF byProxy THEN eula ELSE <<>>)
          /\ s.env = LaunchEnv(s.config) \ (IF s.proxied THEN {debug} ELSE {})
          /\ s.options # {} =>
               /\ \A k \in s.wanted \ proxys : <<k, "user">> \in s.options
               /\ \A k \in proxys : <<k, "proxy">> \in s.options
               /\ \A o, p \in s.options : o[1] = p[1] => o = p

\* Safety: the adapter of a window looks for the session where the proxy of its
\* server has written it, whatever arguments the user has added; it finds that of
\* another window only where both have the same directory.
SessionDirsAgree ==
    \A v, w \in Window :
       server[v] # None /\ server[v].proxied /\ adapter[w] # None =>
         (adapter[w] = server[v].session <=> SystemPath[v] = SystemPath[w])

\* Safety: unless an error of the system ends it, a call fails, and a server runs
\* without the proxy, only for a reason that leaves no choice; a download that
\* fails is none for the server, as long as it has its agreement.
OutcomeHasCause ==
    \A w \in Window :
      /\ pc[w] = "failed" =>
           \/ call[w] = "server" /\ (dir[w] = None \/ ~config[w].accept)
           \/ call[w] = "server" /\ ~Readable(dir[w]) /\ (asset = "none" \/ w \in troubled)
           \/ call[w] = "debugger" /\ (asset = "none" \/ w \in troubled)
           \/ call[w] = "debugger" /\ ~config[w].request
           \/ overlapped
      /\ pc[w] = "settled" /\ proxy[w] = None =>
           ~config[w].proxy /\ (asset = "none" \/ w \in troubled)
=============================================================================
