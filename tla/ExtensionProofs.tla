-------------------------- MODULE ExtensionProofs --------------------------
(***************************************************************************)
(* The calls of the extension and the files of the proxy, for any number   *)
(* of windows, worktrees and settings: types, what lies at the path of the *)
(* proxy, why calls fail, what the proxy makes of the command line, how    *)
(* the server is started, and which session the adapter finds.             *)
(***************************************************************************)
EXTENDS Extension, Lemmas

Fetching == {"open", "writing", "verify", "discard", "chmod", "rename"}
Entry == {"download", "installed"}

-----------------------------------------------------------------------------
(* The inductive invariant.                                                 *)

\* Only for a server is a directory looked for. Who downloads has not been given
\* a proxy, and there is one to download.
Origin ==
    \A w \in Window :
      /\ pc[w] = "resolve" => call[w] = "server"
      /\ pc[w] \in Fetching => ~config[w].proxy /\ asset # "none"

\* A file is incomplete as long as the window that has truncated it last writes
\* to it, or for good; once complete it is what the release offers.
Contents ==
    \A e \in Entry : file[e] # None =>
      /\ file[e].content \in {"part", asset}
      /\ file[e].content = "part" => writing[file[e].latest] = e \/ file[e].abandoned

\* Only the release passes the check.
Released ==
    file["installed"] # None \/ (\E w \in Window : pc[w] \in Between) => asset = "good"

\* Without an overlap a checked download stays as it is until it is renamed.
Checked ==
    ~overlapped =>
      /\ file["installed"] # None => Whole(file["installed"])
      /\ \A w \in Window : pc[w] \in Between /\ Present => Matches(file["download"])
      /\ \A w \in Window : pc[w] = "rename" /\ Present => file["download"].executable

\* A proxy that was found stays where it is.
Found == \A w \in Window : pc[w] = "settled" /\ proxy[w] = "own" => Exists

Inv == TypeOK /\ Origin /\ Contents /\ Released /\ Checked /\ Found /\ OutcomeHasCause

\* The parts of the type invariant that a step of a call and a step of a
\* download disturb.
CallTypes ==
    /\ pc \in [Window -> Fetching \cup {"idle", "resolve", "proxy", "settled", "failed"}]
    /\ call \in [Window -> {"server", "debugger"}]
    /\ \A w \in Window : config[w] \in Config[w]
    /\ dir \in [Window -> Dir \cup {None}]
    /\ proxy \in [Window -> {"users", "own", None}] /\ troubled \subseteq Window

FileTypes ==
    /\ file \in [Entry -> File \cup {None}]
    /\ writing \in [Window -> {"download", "installed", "gone", None}]
    /\ \A w \in Window : writing[w] # None <=> pc[w] = "writing"
    /\ \A w \in Window, e \in Entry : writing[w] = e => file[e] # None

OtherTypes ==
    /\ asset \in {"none", "good", "bad"} /\ overlapped \in BOOLEAN
    /\ DOMAIN adapter = Window /\ \A w \in Window : adapter[w] \in {SystemPath[w], None}

LEMMA TypeParts == TypeOK <=> CallTypes /\ FileTypes /\ OtherTypes
  BY DEF TypeOK, CallTypes, FileTypes, OtherTypes, Fetching, Entry

LEMMA TypePartsNext == TypeOK' <=> CallTypes' /\ FileTypes' /\ OtherTypes'
  BY DEF TypeOK, CallTypes, FileTypes, OtherTypes, Fetching, Entry

LEMMA InvInit == Init => Inv
<1> SUFFICES ASSUME Init PROVE Inv
  OBVIOUS
<1>1. CallTypes
  <2>1. \A w \in Window : config[w] \in Config[w]
    BY ConfigAssumption DEF Init
  <2> QED
    BY <2>1 DEF Init, CallTypes
<1>2. FileTypes
  <2>1. file \in [Entry -> {None}]
    BY DEF Init, Entry
  <2> QED
    BY <2>1, NoneAssumption DEF Init, FileTypes, Entry
<1>3. OtherTypes
  BY DEF Init, OtherTypes
<1>4. Origin /\ Contents /\ Released /\ Checked /\ Found /\ OutcomeHasCause
  BY DEF Init, Origin, Contents, Released, Checked, Found, OutcomeHasCause, Fetching,
     Between, Exists, Entry
<1> QED
  BY <1>1, <1>2, <1>3, <1>4, TypeParts DEF Inv

-----------------------------------------------------------------------------
(* Steps of a call that leave the files alone.                              *)

LEMMA FilesAlone ==
    ASSUME Inv, NEW w \in Window, NEW label, Goto(w, label), pc[w] # "writing",
           label # "writing", label \notin Between, UNCHANGED <<asset, files, overlapped>>
    PROVE FileTypes' /\ Contents' /\ Released' /\ Checked'
<1> USE DEF Inv, files, Goto
<1>0. CallTypes /\ FileTypes
  BY TypeParts
<1>1. FileTypes'
  BY <1>0 DEF FileTypes, CallTypes
<1>2. Contents'
  BY DEF Contents
<1>3. Released'
  BY <1>0 DEF Released, Between, CallTypes
<1>4. Checked'
  BY <1>0 DEF Checked, Between, Present, Matches, Whole, CallTypes
<1> QED
  BY <1>1, <1>2, <1>3, <1>4

\* parse_args finds the directory of the worktree.
LEMMA AdapterFinds ==
    ASSUME NEW w \in Window
    PROVE AdapterPath(AdapterArguments(w)) = SystemPath[w]
<1> DEFINE argv == AdapterArguments(w)
           place == CHOOSE i \in 1..(Len(argv) - 1) : argv[i] = "--system-path"
<1>1. Len(argv) = 5 /\ argv[1] = "--dap" /\ argv[2] = "--system-path"
      /\ argv[3] = SystemPath[w] /\ argv[4] = "--root-uri"
  BY DEF AdapterArguments
<1>2. SystemPath[w] # "--system-path"
  BY PathAssumption
<1>3. \A i \in 1..(Len(argv) - 1) : argv[i] = "--system-path" <=> i = 2
  BY <1>1, <1>2
<1>4. 2 \in 1..(Len(argv) - 1)
  BY <1>1
<1>5. place \in 1..(Len(argv) - 1) /\ argv[place] = "--system-path"
  BY <1>3, <1>4, Zenon
<1>6. place = 2
  BY <1>3, <1>5, Zenon
<1>7. AdapterPath(argv) = argv[1 + place]
  BY Zenon DEF AdapterPath
<1>8. argv[1 + place] = argv[3]
  <2> HIDE DEF argv, place
  <2> QED
    BY <1>6
<1> QED
  BY <1>1, <1>7, <1>8

LEMMA ForgetKeeps ==
    ASSUME Inv, NEW w \in Window, Forget(w), pc[w] # "writing",
           UNCHANGED <<asset, files, overlapped>>,
           DOMAIN adapter' = Window /\ \A v \in Window : adapter'[v] \in {SystemPath[v], None}
    PROVE Inv'
<1> USE DEF Inv
<1>0. CallTypes /\ OtherTypes
  BY TypeParts
<1>1. CallTypes'
  <2>1. (CHOOSE c \in Config[w] : TRUE) \in Config[w]
    BY ConfigAssumption
  <2> QED
    BY <1>0, <2>1 DEF CallTypes, Forget, Goto
<1>2. OtherTypes'
  BY <1>0 DEF OtherTypes
<1>3. FileTypes' /\ Contents' /\ Released' /\ Checked'
  BY FilesAlone DEF Forget, Between
<1>4. Origin' /\ Found'
  BY <1>0 DEF Forget, Goto, Origin, Found, Fetching, Exists, files, CallTypes
<1>5. OutcomeHasCause'
  BY <1>0 DEF Forget, Goto, OutcomeHasCause, Readable, CallTypes
<1> QED
  BY <1>1, <1>2, <1>3, <1>4, <1>5, TypePartsNext

LEMMA BeginKeeps ==
    ASSUME Inv, NEW w \in Window, NEW c \in Config[w], AskServer(w, c) \/ AskDebugger(w, c)
    PROVE Inv'
<1> USE DEF Inv, Begin
<1>0. CallTypes /\ OtherTypes
  BY TypeParts
<1>1. PICK label \in {"resolve", "proxy"}, kind \in {"server", "debugger"} :
         Goto(w, label) /\ Begin(w, kind, c) /\ (label = "resolve" => kind = "server")
  BY DEF AskServer, AskDebugger
<1>2. CallTypes'
  BY <1>0, <1>1 DEF CallTypes, Goto
<1>3. OtherTypes'
  BY <1>0, <1>1 DEF OtherTypes, started
<1>4. FileTypes' /\ Contents' /\ Released' /\ Checked'
  BY <1>1, FilesAlone DEF Between
<1>5. Origin' /\ Found'
  BY <1>0, <1>1 DEF Goto, Origin, Found, Fetching, Exists, files, CallTypes
<1>6. OutcomeHasCause'
  BY <1>0, <1>1 DEF Goto, OutcomeHasCause, Readable, CallTypes
<1> QED
  BY <1>2, <1>3, <1>4, <1>5, <1>6, TypePartsNext

LEMMA ResolveKeeps ==
    ASSUME Inv, NEW w \in Window, NEW d \in Dir \cup {None}, ResolveServer(w, d)
    PROVE Inv'
<1> USE DEF Inv
<1>0. CallTypes /\ OtherTypes
  BY TypeParts
<1>1. PICK label \in {"proxy", "failed"} :
         Goto(w, label) /\ (label = "failed" => d = None \/ ~config[w].accept)
  BY DEF ResolveServer, Accepted, Fail
<1>2. /\ pc[w] = "resolve" /\ dir' = [dir EXCEPT ![w] = d]
      /\ UNCHANGED <<asset, call, config, proxy, troubled, started, files, overlapped>>
  BY DEF ResolveServer
<1>3. CallTypes'
  BY <1>0, <1>1, <1>2 DEF CallTypes, Goto
<1>4. OtherTypes'
  BY <1>0, <1>2 DEF OtherTypes, started
<1>5. FileTypes' /\ Contents' /\ Released' /\ Checked'
  BY <1>1, <1>2, FilesAlone DEF Between
<1>6. Origin' /\ Found'
  BY <1>0, <1>1, <1>2 DEF Goto, Origin, Found, Fetching, Exists, files, CallTypes
<1>7. OutcomeHasCause'
  BY <1>0, <1>1, <1>2 DEF Goto, OutcomeHasCause, Readable, CallTypes, Origin
<1> QED
  BY <1>3, <1>4, <1>5, <1>6, <1>7, TypePartsNext

LEMMA LookKeeps ==
    ASSUME Inv, NEW w \in Window, LookForProxy(w)
    PROVE Inv'
<1> USE DEF Inv
<1>0. CallTypes /\ OtherTypes
  BY TypeParts
<1>1. /\ pc[w] = "proxy"
      /\ UNCHANGED <<asset, call, config, dir, troubled, started, files, overlapped>>
  BY DEF LookForProxy
<1>2. PICK label \in {"settled", "open"}, p \in {"users", "own", None} :
         /\ Goto(w, label) /\ proxy' = [proxy EXCEPT ![w] = p]
         /\ label = "settled" /\ p = "own" => Exists
         /\ label = "settled" /\ p = None => ~config[w].proxy /\ asset = "none"
         /\ label = "open" => ~config[w].proxy /\ asset # "none"
  <2>1. CASE config[w].proxy
    BY <2>1, NoneAssumption DEF LookForProxy, Settle
  <2>2. CASE ~config[w].proxy /\ asset = "none"
    BY <2>2, NoneAssumption DEF LookForProxy, Settle
  <2>3. CASE ~config[w].proxy /\ asset # "none" /\ Exists
    BY <2>3, NoneAssumption DEF LookForProxy, Settle
  <2>4. CASE ~config[w].proxy /\ asset # "none" /\ ~Exists
    <3>1. Goto(w, "open") /\ proxy' = proxy
      BY <2>4 DEF LookForProxy
    <3>2. proxy' = [proxy EXCEPT ![w] = proxy[w]] /\ proxy[w] \in {"users", "own", None}
      BY <1>0, <3>1 DEF CallTypes
    <3> QED
      BY <2>4, <3>1, <3>2
  <2> QED
    BY <2>1, <2>2, <2>3, <2>4
<1>3. CallTypes'
  BY <1>0, <1>1, <1>2 DEF CallTypes, Goto, Fetching
<1>4. OtherTypes'
  BY <1>0, <1>1 DEF OtherTypes, started
<1>5. FileTypes' /\ Contents' /\ Released' /\ Checked'
  BY <1>1, <1>2, FilesAlone DEF Between
<1>6. Origin' /\ Found'
  BY <1>0, <1>1, <1>2, NoneAssumption
     DEF Goto, Origin, Found, Fetching, Exists, files, CallTypes
<1>7. OutcomeHasCause'
  BY <1>0, <1>1, <1>2 DEF Goto, OutcomeHasCause, Readable, CallTypes
<1> QED
  BY <1>3, <1>4, <1>5, <1>6, <1>7, TypePartsNext

-----------------------------------------------------------------------------
(* Steps of a download: what they do to the call.                           *)

LEMMA ProceedKeeps ==
    ASSUME Inv, NEW w \in Window, NEW label \in Fetching, pc[w] \in Fetching,
           Proceed(w, label), overlapped => overlapped', overlapped' \in BOOLEAN
    PROVE CallTypes' /\ OtherTypes' /\ Origin' /\ OutcomeHasCause'
<1> USE DEF Inv, Proceed, Goto
<1>0. CallTypes /\ OtherTypes
  BY TypeParts
<1>1. CallTypes' /\ OtherTypes'
  BY <1>0 DEF CallTypes, OtherTypes, started
<1>2. Origin'
  BY <1>0 DEF Origin, CallTypes, Fetching
<1>3. OutcomeHasCause'
  BY <1>0 DEF OutcomeHasCause, CallTypes, Fetching, Readable
<1> QED
  BY <1>1, <1>2, <1>3

LEMMA TroubleCall ==
    ASSUME Inv, NEW w \in Window, pc[w] \in Fetching, Trouble(w)
    PROVE CallTypes' /\ OtherTypes' /\ Origin' /\ OutcomeHasCause'
<1> USE DEF Inv, Trouble, Degrade, Settle, Goto
<1>0. CallTypes /\ OtherTypes
  BY TypeParts
<1>1. CallTypes' /\ OtherTypes'
  BY <1>0 DEF CallTypes, OtherTypes, started
<1>2. Origin'
  BY <1>0 DEF Origin, CallTypes, Fetching
<1>3. OutcomeHasCause'
  BY <1>0 DEF OutcomeHasCause, Origin, CallTypes, Fetching, Readable
<1> QED
  BY <1>1, <1>2, <1>3

LEMMA TroubleKeeps ==
    ASSUME Inv, NEW w \in Window, pc[w] \in Fetching \ {"writing"}, Trouble(w),
           UNCHANGED files
    PROVE Inv'
<1>1. CallTypes' /\ OtherTypes' /\ Origin' /\ OutcomeHasCause'
  BY TroubleCall
<1>2. FileTypes' /\ Contents' /\ Released' /\ Checked'
  BY FilesAlone DEF Trouble, Degrade, Settle, Between
<1>3. Found'
  BY TypeParts, NoneAssumption
     DEF Inv, Found, CallTypes, Trouble, Degrade, Settle, Goto, Exists, files
<1> QED
  BY <1>1, <1>2, <1>3, TypePartsNext DEF Inv

-----------------------------------------------------------------------------
(* Steps of a download: what they do to the files.                          *)

LEMMA OpenKeeps ==
    ASSUME Inv, NEW w \in Window, OpenDownload(w)
    PROVE Inv'
<1> DEFINE new == [content |-> "part", latest |-> w, abandoned |-> FALSE,
                   executable |-> file["download"] # None /\ file["download"].executable]
<1>0. CallTypes /\ FileTypes /\ OtherTypes
  BY TypeParts DEF Inv
<1>1. /\ pc[w] = "open" /\ Proceed(w, "writing") /\ pc' = [pc EXCEPT ![w] = "writing"]
      /\ file' = [file EXCEPT !["download"] = new]
      /\ writing' = [writing EXCEPT ![w] = "download"]
      /\ overlapped' = (overlapped \/ \E v \in Window : pc[v] \in Between)
      /\ UNCHANGED <<asset, proxy>>
  BY DEF OpenDownload, Proceed, Goto
<1>2. CallTypes' /\ OtherTypes' /\ Origin' /\ OutcomeHasCause'
  BY <1>0, <1>1, ProceedKeeps DEF Fetching, OtherTypes
<1>3. new \in File /\ new # None
  <2>1. new.executable \in BOOLEAN
    BY <1>0 DEF FileTypes, Entry, File
  <2>2. new \in File
    BY <2>1 DEF File
  <2> QED
    BY <2>2, FileAssumption
<1>4. file' \in [Entry -> File \cup {None}] /\ file'["download"] = new
      /\ file'["installed"] = file["installed"]
  <2> HIDE DEF new
  <2> QED
    BY <1>0, <1>1, <1>3 DEF FileTypes, Entry
<1>5. FileTypes'
  <2> HIDE DEF new
  <2> QED
    BY <1>0, <1>1, <1>3, <1>4, NoneAssumption DEF FileTypes, CallTypes, Entry
<1>6. Contents'
  <2>1. \A v \in Window : writing[v] = "installed" => v # w
    BY <1>0, <1>1, NoneAssumption DEF FileTypes
  <2> QED
    BY <1>0, <1>1, <1>4, <2>1 DEF Inv, Contents, Entry, FileTypes, File
<1>7. Released' /\ Checked'
  BY <1>0, <1>1, <1>4 DEF Inv, Released, Checked, CallTypes, Between, Present, Whole
<1>8. Found'
  BY <1>0, <1>1, <1>4 DEF Inv, Found, CallTypes, Exists
<1> QED
  BY <1>2, <1>5, <1>6, <1>7, <1>8, TypePartsNext DEF Inv

\* The end of a download, and of a window.
LEMMA EndKeeps ==
    ASSUME Inv, NEW w \in Window, NEW label, Goto(w, label), label # "writing",
           label \notin Between, UNCHANGED <<asset, overlapped>>,
           \/ EndsWith(w, "content", asset) /\ pc[w] = "writing"
           \/ EndsWith(w, "abandoned", TRUE)
    PROVE FileTypes' /\ Contents' /\ Released' /\ Checked' /\ (Exists' <=> Exists)
<1>0. CallTypes /\ FileTypes /\ OtherTypes
  BY TypeParts DEF Inv
<1>1. writing' = [writing EXCEPT ![w] = None] /\ pc' = [pc EXCEPT ![w] = label]
  BY DEF EndsWith, Goto
<1>2. DOMAIN file = Entry /\ \A e \in Entry : file[e] \in File \/ file[e] = None
  BY <1>0 DEF FileTypes
<1>3. file' \in [Entry -> File \cup {None}] /\ \A e \in Entry :
        /\ file'[e] = None <=> file[e] = None
        /\ file[e] # None => /\ file'[e].latest = file[e].latest
                             /\ file'[e].executable = file[e].executable
                             /\ file[e].abandoned => file'[e].abandoned
                             /\ \/ file'[e].content = file[e].content
                                \/ file'[e].content = asset /\ asset # "none"
                             /\ file[e].latest = w /\ writing[w] = e =>
                                  file'[e].content = asset \/ file'[e].abandoned
  <2>1. CASE EndsWith(w, "content", asset) /\ pc[w] = "writing"
    <3>1. asset \in {"good", "bad"}
      BY <2>1, <1>0 DEF Inv, Origin, OtherTypes, Fetching
    <3>2. file' = [e \in Entry |-> IF e = writing[w] /\ file[e].latest = w
                                     THEN [file[e] EXCEPT !.content = asset] ELSE file[e]]
      BY <2>1, <1>2 DEF EndsWith
    <3>3. \A e \in Entry : e = writing[w] => file[e] \in File
      BY <1>0, <1>2 DEF FileTypes
    <3>4. \A f \in File : [f EXCEPT !.content = asset] \in File
      BY <3>1 DEF File
    <3> QED
      BY <1>2, <3>1, <3>2, <3>3, <3>4, FileAssumption DEF File
  <2>2. CASE EndsWith(w, "abandoned", TRUE)
    <3>2. file' = [e \in Entry |-> IF e = writing[w] /\ file[e].latest = w
                                     THEN [file[e] EXCEPT !.abandoned = TRUE] ELSE file[e]]
      BY <2>2, <1>2 DEF EndsWith
    <3>3. \A e \in Entry : e = writing[w] => file[e] \in File
      BY <1>0, <1>2 DEF FileTypes
    <3>4. \A f \in File : [f EXCEPT !.abandoned = TRUE] \in File
      BY DEF File
    <3> QED
      BY <1>2, <3>2, <3>3, <3>4, FileAssumption DEF File
  <2> QED
    BY <2>1, <2>2
<1>4. FileTypes'
  BY <1>0, <1>1, <1>3, NoneAssumption DEF FileTypes, CallTypes, Entry
<1>5. Contents'
  BY <1>0, <1>1, <1>3 DEF Inv, Contents, FileTypes, File, OtherTypes
<1>6. Released'
  BY <1>0, <1>1, <1>3 DEF Inv, Released, CallTypes, Entry
<1>7. Checked'
  <2>1. \A v \in Window : pc'[v] \in Between => pc[v] \in Between /\ pc'[v] = pc[v]
    BY <1>0, <1>1 DEF CallTypes
  <2>2. file'["installed"] # None \/ (\E v \in Window : pc[v] \in Between) => asset = "good"
    BY <1>3 DEF Inv, Released, Entry
  <2> QED
    BY <1>0, <1>3, <2>1, <2>2 DEF Inv, Checked, Present, Matches, Whole, Entry, Between
<1>8. Exists' <=> Exists
  BY <1>3 DEF Exists, Entry
<1> QED
  BY <1>4, <1>5, <1>6, <1>7, <1>8

LEMMA FinishKeeps ==
    ASSUME Inv, NEW w \in Window, FinishDownload(w) \/ BreakDownload(w)
    PROVE Inv'
<1>0. CallTypes
  BY TypeParts DEF Inv
<1>1. CallTypes' /\ OtherTypes' /\ Origin' /\ OutcomeHasCause'
  BY ProceedKeeps, TroubleCall, TypeParts
     DEF Inv, OtherTypes, FinishDownload, BreakDownload, Fetching
<1>2. PICK label \in {"verify", "settled"} : Goto(w, label)
  BY DEF FinishDownload, BreakDownload, Proceed, Trouble, Degrade, Settle
<1>3. FileTypes' /\ Contents' /\ Released' /\ Checked' /\ (Exists' <=> Exists)
  BY <1>2, EndKeeps DEF FinishDownload, BreakDownload, Proceed, Trouble, Between
<1>4. Found'
  BY <1>0, <1>3, NoneAssumption DEF Inv, Found, FinishDownload, BreakDownload, Proceed,
     Trouble, Degrade, Settle, Goto, CallTypes
<1> QED
  BY <1>1, <1>3, <1>4, TypePartsNext DEF Inv

LEMMA VerifyKeeps ==
    ASSUME Inv, NEW w \in Window, Verify(w)
    PROVE Inv'
<1>0. CallTypes /\ FileTypes
  BY TypeParts DEF Inv
<1>1. PICK label \in {"chmod", "discard"} :
         Proceed(w, label) /\ (label = "chmod" => Matches(file["download"]))
  BY DEF Verify
<1>2. pc[w] = "verify" /\ Present /\ UNCHANGED <<files, overlapped>>
  BY DEF Verify
<1>3. CallTypes' /\ OtherTypes' /\ Origin' /\ OutcomeHasCause'
  BY <1>1, <1>2, ProceedKeeps, TypeParts DEF Inv, OtherTypes, Fetching
<1>4. pc' = [pc EXCEPT ![w] = label] /\ UNCHANGED <<asset, file, writing, overlapped, proxy>>
  BY <1>1, <1>2 DEF Proceed, Goto, files
<1>5. FileTypes' /\ Contents' /\ Found'
  BY <1>0, <1>2, <1>4 DEF Inv, FileTypes, CallTypes, Contents, Found, Exists
<1>6. label = "chmod" => asset = "good"
  BY <1>0, <1>1, <1>2 DEF Inv, Contents, Matches, Present, Entry
<1>7. \A v \in Window : pc'[v] \in Between =>
         (v = w /\ label = "chmod" /\ pc'[v] = "chmod") \/ (pc[v] \in Between /\ pc'[v] = pc[v])
  BY <1>0, <1>4 DEF CallTypes, Between
<1>8. Released' /\ Checked'
  BY <1>1, <1>4, <1>6, <1>7 DEF Inv, Released, Checked, Present, Matches, Between, Whole
<1> QED
  BY <1>3, <1>5, <1>8, TypePartsNext DEF Inv

LEMMA DiscardKeeps ==
    ASSUME Inv, NEW w \in Window, Discard(w)
    PROVE Inv'
<1>0. CallTypes /\ FileTypes
  BY TypeParts DEF Inv
<1>1. CallTypes' /\ OtherTypes' /\ Origin' /\ OutcomeHasCause'
  BY TroubleCall DEF Discard, Fetching
<1>2. /\ pc[w] = "discard" /\ pc' = [pc EXCEPT ![w] = "settled"]
      /\ proxy' = [proxy EXCEPT ![w] = None] /\ UNCHANGED <<asset, overlapped>>
      /\ file' = [file EXCEPT !["download"] = None]
  BY DEF Discard, Trouble, Degrade, Settle, Goto
<1>3. writing' = [v \in Window |-> IF writing[v] = "download" THEN "gone" ELSE writing[v]]
  BY DEF Discard, Moved
<1>4. file' \in [Entry -> File \cup {None}] /\ file'["download"] = None
      /\ file'["installed"] = file["installed"]
  BY <1>0, <1>2 DEF FileTypes, Entry
<1>5. FileTypes'
  BY <1>0, <1>2, <1>3, <1>4, NoneAssumption DEF FileTypes, CallTypes, Entry
<1>6. Contents'
  BY <1>0, <1>2, <1>3, <1>4 DEF Inv, Contents, Entry, FileTypes, File
<1>7. Released' /\ Checked' /\ Found'
  BY <1>0, <1>2, <1>4, NoneAssumption
     DEF Inv, Released, Checked, Found, Exists, Present, CallTypes, Between
<1> QED
  BY <1>1, <1>5, <1>6, <1>7, TypePartsNext DEF Inv

LEMMA ExecutableKeeps ==
    ASSUME Inv, NEW w \in Window, MakeExecutable(w)
    PROVE Inv'
<1>0. CallTypes /\ FileTypes
  BY TypeParts DEF Inv
<1>1. /\ pc[w] = "chmod" /\ Present /\ Proceed(w, "rename")
      /\ UNCHANGED <<writing, overlapped, asset, proxy>>
      /\ pc' = [pc EXCEPT ![w] = "rename"]
      /\ file' = [file EXCEPT !["download"] = [@ EXCEPT !.executable = TRUE]]
  BY DEF MakeExecutable, Proceed, Goto, Update
<1>2. CallTypes' /\ OtherTypes' /\ Origin' /\ OutcomeHasCause'
  BY <1>1, ProceedKeeps, TypeParts DEF Inv, OtherTypes, Fetching
<1>3. file["download"] \in File /\ [file["download"] EXCEPT !.executable = TRUE] \in File
  BY <1>0, <1>1 DEF FileTypes, Entry, File, Present
<1>4. /\ file' \in [Entry -> File \cup {None}] /\ file'["installed"] = file["installed"]
      /\ file'["download"] = [file["download"] EXCEPT !.executable = TRUE]
      /\ file'["download"] # None
  BY <1>0, <1>1, <1>3, FileAssumption DEF FileTypes, Entry
<1>5. /\ file'["download"].content = file["download"].content
      /\ file'["download"].latest = file["download"].latest
      /\ file'["download"].abandoned = file["download"].abandoned
      /\ file'["download"].executable
  BY <1>3, <1>4 DEF File
<1>6. FileTypes'
  BY <1>0, <1>1, <1>4 DEF FileTypes, CallTypes, Entry
<1>7. Contents'
  BY <1>1, <1>4, <1>5 DEF Inv, Contents, Entry, Present
<1>8. \A v \in Window : pc'[v] \in Between => pc[v] \in Between
  BY <1>0, <1>1 DEF CallTypes, Between
<1>9. Released' /\ Found'
  BY <1>0, <1>1, <1>4, <1>8 DEF Inv, Released, Found, Exists, CallTypes
<1>10. Checked'
  BY <1>1, <1>4, <1>5, <1>8 DEF Inv, Checked, Present, Matches, Whole
<1> QED
  BY <1>2, <1>6, <1>7, <1>9, <1>10, TypePartsNext DEF Inv

LEMMA RenameKeeps ==
    ASSUME Inv, NEW w \in Window, Rename(w)
    PROVE Inv'
<1>0. CallTypes /\ FileTypes /\ OtherTypes
  BY TypeParts DEF Inv
<1>1. /\ pc[w] = "rename" /\ Present /\ pc' = [pc EXCEPT ![w] = "settled"]
      /\ proxy' = [proxy EXCEPT ![w] = "own"]
      /\ file' = [download |-> None, installed |-> file["download"]]
      /\ UNCHANGED <<asset, call, config, dir, troubled, started, overlapped>>
  BY DEF Rename, Settle, Goto
<1>2. writing' = [v \in Window |-> IF writing[v] = "download" THEN "installed"
                                   ELSE IF writing[v] = "installed" THEN "gone" ELSE writing[v]]
  BY DEF Rename, Moved
<1>3. file' \in [Entry -> File \cup {None}] /\ file'["download"] = None
      /\ file'["installed"] = file["download"] /\ file'["installed"] # None
  BY <1>0, <1>1 DEF FileTypes, Entry, Present
<1>4. CallTypes' /\ OtherTypes'
  BY <1>0, <1>1 DEF CallTypes, OtherTypes, started
<1>5. FileTypes'
  BY <1>0, <1>1, <1>2, <1>3, NoneAssumption DEF FileTypes, CallTypes, Entry
<1>6. Contents'
  BY <1>0, <1>1, <1>2, <1>3 DEF Inv, Contents, Entry, FileTypes, File
<1>7. Released' /\ Checked'
  BY <1>0, <1>1, <1>3 DEF Inv, Released, Checked, Present, Matches, Whole, Between
<1>8. Origin' /\ Found'
  BY <1>0, <1>1, <1>3 DEF Inv, Origin, Found, Exists, CallTypes, Fetching
<1>9. OutcomeHasCause'
  BY <1>0, <1>1, NoneAssumption DEF Inv, OutcomeHasCause, Readable, CallTypes
<1> QED
  BY <1>4, <1>5, <1>6, <1>7, <1>8, <1>9, TypePartsNext DEF Inv

LEMMA FetchKeeps ==
    ASSUME Inv, NEW w \in Window, FetchProxy(w)
    PROVE Inv'
<1>1. CASE LookForProxy(w)
  BY <1>1, LookKeeps
<1>2. CASE OpenDownload(w)
  BY <1>2, OpenKeeps
<1>3. CASE FinishDownload(w) \/ BreakDownload(w)
  BY <1>3, FinishKeeps
<1>4. CASE Verify(w)
  BY <1>4, VerifyKeeps
<1>5. CASE Discard(w)
  BY <1>5, DiscardKeeps
<1>6. CASE MakeExecutable(w)
  BY <1>6, ExecutableKeeps
<1>7. CASE Rename(w)
  BY <1>7, RenameKeeps
<1>8. CASE OpenFails(w) \/ VerifyFails(w) \/ StepFails(w)
  BY <1>8, TroubleKeeps DEF OpenFails, VerifyFails, StepFails, Fetching, Between
<1> QED
  BY <1>1, <1>2, <1>3, <1>4, <1>5, <1>6, <1>7, <1>8 DEF FetchProxy

-----------------------------------------------------------------------------
(* The ends of a call, and what the host does with what it has started.     *)

\* A start fails for want of the proxy only where another window has replaced it.
LEMMA FailKeeps ==
    ASSUME Inv, NEW w \in Window, pc[w] = "settled", Fail(w),
           UNCHANGED <<asset, call, config, dir, proxy, troubled, started, files, overlapped>>,
           \/ ~Runs(w)
           \/ call[w] = "server" /\ proxy[w] = None /\ ~Readable(dir[w])
           \/ call[w] = "debugger" /\ (proxy[w] = None \/ ~config[w].request)
    PROVE Inv'
<1>0. CallTypes /\ OtherTypes
  BY TypeParts DEF Inv
<1>1. pc' = [pc EXCEPT ![w] = "failed"]
  BY DEF Fail, Goto
<1>2. CallTypes' /\ OtherTypes'
  BY <1>0, <1>1 DEF CallTypes, OtherTypes, started
<1>3. FileTypes' /\ Contents' /\ Released' /\ Checked'
  BY FilesAlone DEF Fail, Between
<1>4. Origin' /\ Found'
  BY <1>0, <1>1 DEF Inv, Origin, Found, Fetching, Exists, files, CallTypes
<1>5. ~Runs(w) => overlapped
  BY DEF Inv, Found, Checked, Exists, Runs
<1>6. OutcomeHasCause'
  BY <1>0, <1>1, <1>5 DEF Inv, OutcomeHasCause, Readable, CallTypes
<1> QED
  BY <1>2, <1>3, <1>4, <1>6, TypePartsNext DEF Inv

LEMMA StartKeeps ==
    ASSUME Inv, NEW w \in Window, StartServer(w) \/ StartAdapter(w)
    PROVE Inv'
<1>0. OtherTypes
  BY TypeParts DEF Inv
<1>1. CASE StartServer(w) /\ Runs(w) /\ (proxy[w] # None \/ Readable(dir[w]))
  BY <1>0, <1>1, ForgetKeeps DEF StartServer, OtherTypes
<1>2. CASE StartServer(w) /\ ~(Runs(w) /\ (proxy[w] # None \/ Readable(dir[w])))
  BY <1>2, FailKeeps DEF StartServer, started
<1>3. CASE StartAdapter(w) /\ proxy[w] # None /\ config[w].request /\ Runs(w)
  <2>1. adapter' = [adapter EXCEPT ![w] = SystemPath[w]] /\ Forget(w) /\ pc[w] = "settled"
        /\ UNCHANGED <<asset, files, overlapped>>
    BY <1>3, AdapterFinds DEF StartAdapter
  <2>2. DOMAIN adapter' = Window /\ \A v \in Window : adapter'[v] \in {SystemPath[v], None}
    BY <1>0, <2>1 DEF OtherTypes
  <2> QED
    BY <2>1, <2>2, ForgetKeeps
<1>4. CASE StartAdapter(w) /\ ~(proxy[w] # None /\ config[w].request /\ Runs(w))
  BY <1>4, FailKeeps DEF StartAdapter, started
<1> QED
  BY <1>1, <1>2, <1>3, <1>4

LEMMA SystemFailsKeeps ==
    ASSUME Inv, NEW w \in Window, SystemFails(w)
    PROVE Inv'
<1>1. pc[w] # "writing" /\ Forget(w) /\ UNCHANGED <<asset, started, files, overlapped>>
  BY DEF SystemFails
<1>2. DOMAIN adapter' = Window /\ \A v \in Window : adapter'[v] \in {SystemPath[v], None}
  BY <1>1, TypeParts DEF Inv, OtherTypes, started
<1> QED
  BY <1>1, <1>2, ForgetKeeps

\* No part of the invariant is about the servers.
LEMMA ServersAlone ==
    ASSUME Inv, UNCHANGED <<asset, local, files, overlapped>>,
           DOMAIN adapter' = Window /\ \A w \in Window : adapter'[w] \in {SystemPath[w], None}
    PROVE Inv'
<1>1. CallTypes' /\ FileTypes' /\ OtherTypes'
  BY TypeParts DEF Inv, CallTypes, FileTypes, OtherTypes, local, files
<1>2. Origin' /\ Contents' /\ Released' /\ Checked' /\ Found'
  BY DEF Inv, Origin, Contents, Released, Checked, Found, Exists, Present, Matches, Whole,
     local, files
<1>3. OutcomeHasCause'
  BY DEF Inv, OutcomeHasCause, Readable, local
<1> QED
  BY <1>1, <1>2, <1>3, TypePartsNext DEF Inv

LEMMA HostKeeps ==
    ASSUME Inv, NEW w \in Window,
           (\E c \in Config[w] : Initialize(w, c)) \/ ServerStops(w) \/ AdapterStops(w)
    PROVE Inv'
<1>0. OtherTypes
  BY TypeParts DEF Inv
<1>1. DOMAIN adapter' = Window /\ \A v \in Window : adapter'[v] \in {SystemPath[v], None}
  <2>1. UNCHANGED adapter \/ adapter' = [adapter EXCEPT ![w] = None]
    BY DEF Initialize, ServerStops, AdapterStops
  <2> QED
    BY <1>0, <2>1 DEF OtherTypes
<1> QED
  BY <1>1, ServersAlone DEF Initialize, ServerStops, AdapterStops

LEMMA CrashKeeps ==
    ASSUME Inv, NEW w \in Window, Crash(w)
    PROVE Inv'
<1>0. CallTypes /\ FileTypes /\ OtherTypes
  BY TypeParts DEF Inv
<1>1. Forget(w) /\ EndsWith(w, "abandoned", TRUE) /\ UNCHANGED <<asset, overlapped>>
      /\ adapter' = [adapter EXCEPT ![w] = None]
  BY DEF Crash
<1>2. CallTypes'
  <2>1. (CHOOSE c \in Config[w] : TRUE) \in Config[w]
    BY ConfigAssumption
  <2> QED
    BY <1>0, <1>1, <2>1 DEF CallTypes, Forget, Goto
<1>3. OtherTypes'
  BY <1>0, <1>1 DEF OtherTypes
<1>4. FileTypes' /\ Contents' /\ Released' /\ Checked' /\ (Exists' <=> Exists)
  BY <1>1, EndKeeps DEF Forget, Between
<1>5. Origin' /\ Found'
  BY <1>0, <1>1, <1>4 DEF Inv, Forget, Goto, Origin, Found, Fetching, CallTypes
<1>6. OutcomeHasCause'
  BY <1>0, <1>1 DEF Inv, Forget, Goto, OutcomeHasCause, Readable, CallTypes
<1> QED
  BY <1>2, <1>3, <1>4, <1>5, <1>6, TypePartsNext DEF Inv

-----------------------------------------------------------------------------
LEMMA InvNext == Inv /\ [Next]_vars => Inv'
<1> SUFFICES ASSUME Inv, [Next]_vars PROVE Inv'
  OBVIOUS
<1>1. ASSUME NEW w \in Window, Call(w) PROVE Inv'
  BY <1>1, BeginKeeps, ResolveKeeps, StartKeeps, SystemFailsKeeps DEF Call
<1>2. ASSUME NEW w \in Window, FetchProxy(w) PROVE Inv'
  BY <1>2, FetchKeeps
<1>3. ASSUME NEW w \in Window,
             (\E c \in Config[w] : Initialize(w, c)) \/ ServerStops(w) \/ AdapterStops(w)
      PROVE Inv'
  BY <1>3, HostKeeps
<1>4. ASSUME NEW w \in Window, Crash(w) PROVE Inv'
  BY <1>4, CrashKeeps
<1>5. CASE UNCHANGED vars
  <2>1. UNCHANGED <<asset, local, files, overlapped>> /\ UNCHANGED adapter
    BY <1>5 DEF vars, started
  <2>2. DOMAIN adapter' = Window /\ \A w \in Window : adapter'[w] \in {SystemPath[w], None}
    BY <2>1, TypeParts DEF Inv, OtherTypes
  <2> QED
    BY <2>1, <2>2, ServersAlone
<1> QED
  BY <1>1, <1>2, <1>3, <1>4, <1>5 DEF Next

LEMMA InvAlways == Spec => []Inv
  BY InvInit, InvNext, PTL DEF Spec

-----------------------------------------------------------------------------
(* The command line. parse_args is a recursive function over the positions  *)
(* of the arguments; it exists for every command line, from the end to the  *)
(* front, and so returns what follows the separator the extension has put.  *)

\* The values of rest in ServerCommand from position m on.
RestAt(argv, f, i) ==
    IF i > Len(argv) THEN <<>>
    ELSE IF argv[i] = "--log" THEN f[i + 2]
    ELSE IF argv[i] = "--" THEN SubSeq(argv, i + 1, Len(argv))
    ELSE SubSeq(argv, i, Len(argv))

RestFrom(argv, m, f) == f = [i \in m..(Len(argv) + 2) |-> RestAt(argv, f, i)]

LEMMA RestExists ==
    ASSUME NEW argv, Len(argv) \in Nat
    PROVE \E f : RestFrom(argv, 1, f)
<1> PICK n : n = Len(argv) + 2
  OBVIOUS
<1> DEFINE S == {k \in Nat : k <= n => \E f : RestFrom(argv, n + 1 - k, f)}
<1>1. 0 \in S
  <2>1. RestFrom(argv, n + 1, [i \in (n + 1)..n |-> <<>>])
    BY DEF RestFrom
  <2>2. n + 1 - 0 = n + 1
    OBVIOUS
  <2> QED
    BY <2>1, <2>2
<1>2. ASSUME NEW k \in Nat, k \in S PROVE k + 1 \in S
  <2> SUFFICES ASSUME k + 1 <= n PROVE \E f : RestFrom(argv, n + 1 - (k + 1), f)
    OBVIOUS
  <2>1. PICK f : RestFrom(argv, n + 1 - k, f)
    BY <1>2
  <2>2. PICK m : m = n - k
    OBVIOUS
  <2>3. m \in Nat /\ m <= n /\ n + 1 - k = m + 1 /\ n + 1 - (k + 1) = m
    BY <2>2
  <2>4. f = [i \in (m + 1)..n |-> RestAt(argv, f, i)]
    BY <2>1, <2>3 DEF RestFrom
  <2>5. PICK g : g = [i \in m..n |-> RestAt(argv, f, i)]
    OBVIOUS
  <2>6. \A i \in (m + 1)..n : g[i] = f[i]
    <3> SUFFICES ASSUME NEW i \in (m + 1)..n PROVE g[i] = f[i]
      OBVIOUS
    <3>1. i \in m..n
      BY <2>3
    <3>2. f[i] = RestAt(argv, f, i)
      BY <2>4, Zenon
    <3> QED
      BY <2>5, <3>1, <3>2, Zenon
  <2>7. \A i \in m..n : RestAt(argv, f, i) = RestAt(argv, g, i)
    <3> SUFFICES ASSUME NEW i \in m..n PROVE RestAt(argv, f, i) = RestAt(argv, g, i)
      OBVIOUS
    <3>1. i <= Len(argv) => f[i + 2] = g[i + 2]
      <4>1. i <= Len(argv) => i + 2 \in (m + 1)..n
        BY <2>3
      <4> QED
        BY <2>6, <4>1
    <3>2. i > Len(argv) \/ i <= Len(argv)
      BY <2>3
    <3> QED
      BY <3>1, <3>2 DEF RestAt
  <2>8. RestFrom(argv, m, g)
    <3>1. [i \in m..n |-> RestAt(argv, f, i)] = [i \in m..n |-> RestAt(argv, g, i)]
      BY <2>7, Zenon
    <3> QED
      BY <2>5, <3>1, Zenon DEF RestFrom
  <2> QED
    BY <2>3, <2>8
<1> HIDE DEF S
<1>3. n \in S /\ n \in Nat
  BY <1>1, <1>2, Climb
<1>4. n + 1 - n = 1
  BY <1>3
<1> QED
  BY <1>3, <1>4 DEF S

LEMMA ServerCommandDef ==
    ASSUME NEW argv, Len(argv) \in Nat
    PROVE \E f : RestFrom(argv, 1, f) /\ ServerCommand(argv) = f[1]
<1> DEFINE f == CHOOSE f : RestFrom(argv, 1, f)
<1>1. ServerCommand(argv) = f[1]
  BY Zenon DEF ServerCommand, RestFrom, RestAt
<1>2. RestFrom(argv, 1, f)
  BY RestExists, Zenon
<1> QED
  BY <1>1, <1>2, Zenon

\* What the extension writes before the server command is cut off, and nothing
\* that follows is read as an argument of the proxy.
LEMMA CutsOff ==
    ASSUME NEW S, {"--log", "proxy.log", "--"} \subseteq S, NEW l \in S, NEW arguments \in Seq(S)
    PROVE ServerCommand(<<"--log", "proxy.log", "--", l>> \o arguments) = <<l>> \o arguments
<1>1. PICK argv : argv = <<"--log", "proxy.log", "--", l>> \o arguments
  OBVIOUS
<1>2. /\ argv \in Seq(S) /\ Len(argv) = 4 + Len(arguments) /\ Len(arguments) \in Nat
      /\ argv[1] = "--log" /\ argv[3] = "--" /\ argv[4] = l
      /\ \A i \in 1..Len(arguments) : argv[i + 4] = arguments[i]
  <2>1. PICK head : head = <<"--log", "proxy.log", "--", l>>
    OBVIOUS
  <2>2. /\ head \in Seq(S) /\ Len(head) = 4 /\ Len(arguments) \in Nat
        /\ head[1] = "--log" /\ head[3] = "--" /\ head[4] = l
    <3>1. "--log" \in S /\ "proxy.log" \in S /\ "--" \in S
      OBVIOUS
    <3>2. <<"--log", "proxy.log", "--", l>> \in Seq(S)
      BY <3>1
    <3>3. head \in Seq(S)
      BY <2>1, <3>2, Zenon
    <3> QED
      BY <2>1, <3>3
  <2>3. /\ argv \in Seq(S) /\ Len(argv) = 4 + Len(arguments)
        /\ \A i \in 1..Len(argv) :
              argv[i] = IF i <= 4 THEN head[i] ELSE arguments[i - 4]
    BY <1>1, <2>1, <2>2, ConcatProperties
  <2> QED
    BY <2>2, <2>3
<1>3. PICK f : RestFrom(argv, 1, f) /\ ServerCommand(argv) = f[1]
  <2>1. Len(argv) \in Nat
    BY <1>2
  <2> QED
    BY <2>1, ServerCommandDef
<1>4. 1 \in 1..(Len(argv) + 2) /\ 3 \in 1..(Len(argv) + 2) /\ ~(1 > Len(argv)) /\ ~(3 > Len(argv))
  BY <1>2
<1>5. f[1] = RestAt(argv, f, 1) /\ f[3] = RestAt(argv, f, 3)
  <2>1. f = [i \in 1..(Len(argv) + 2) |-> RestAt(argv, f, i)]
    BY <1>3, Zenon DEF RestFrom
  <2> QED
    BY <2>1, <1>4, Zenon
<1>6. RestAt(argv, f, 1) = f[3]
  BY <1>2, <1>4 DEF RestAt
<1>7. RestAt(argv, f, 3) = SubSeq(argv, 4, Len(argv))
  BY <1>2, <1>4 DEF RestAt
<1>8. SubSeq(argv, 4, Len(argv)) = <<l>> \o arguments
  <2>1. SubSeq(argv, 4, Len(argv)) \in Seq(S) /\ <<l>> \o arguments \in Seq(S)
    BY <1>2
  <2>2. Len(SubSeq(argv, 4, Len(argv))) = Len(arguments) + 1
        /\ Len(<<l>> \o arguments) = Len(arguments) + 1
    BY <1>2
  <2>3. ASSUME NEW i \in 1..(Len(arguments) + 1)
        PROVE SubSeq(argv, 4, Len(argv))[i] = (<<l>> \o arguments)[i]
    <3>1. SubSeq(argv, 4, Len(argv))[i] = argv[i + 3]
      BY <1>2
    <3>2. CASE i = 1
      BY <1>2, <3>1, <3>2
    <3>3. CASE i > 1
      <4>1. i - 1 \in 1..Len(arguments) /\ i - 1 + 4 = i + 3
        BY <1>2, <3>3
      <4>2. (<<l>> \o arguments)[i] = arguments[i - 1]
        BY <3>3
      <4> QED
        BY <1>2, <3>1, <4>1, <4>2
    <3> QED
      BY <1>2, <3>2, <3>3
  <2> QED
    BY <2>1, <2>2, <2>3, SeqEqual
<1> QED
  BY <1>1, <1>3, <1>5, <1>6, <1>7, <1>8

-----------------------------------------------------------------------------
(* What the server is started with.                                         *)

Word(w) ==
    {"--log", "proxy.log", "--", "--stdio", "--system-path", "--eula", SystemPath[w]}
        \cup {Launcher[d] : d \in Dir} \cup {Hash[d] : d \in Dir} \cup STRING
Base(w, d) == <<Launcher[d], "--stdio", "--system-path", SystemPath[w]>>
Acceptance(d) == <<"--eula", Hash[d]>>

\* The words of the command lines.
LEMMA Words ==
    ASSUME NEW w \in Window, NEW d \in Dir
    PROVE /\ Launcher[d] \in Word(w) /\ Launcher[d] \notin {"--system-path", "--eula"}
          /\ Base(w, d) \in Seq(Word(w)) /\ Acceptance(d) \in Seq(Word(w))
          /\ \A c \in Config[w] : c.extra \in Seq(Word(w))
<1>1. Launcher[d] \notin {"--system-path", "--eula"}
  <2>1. d = "own" \/ d = "shared" \/ d = "users"
    BY DEF Dir
  <2>2. Launcher[d] = "own/intellij-server" \/ Launcher[d] = "shared/intellij-server"
        \/ Launcher[d] = "users/intellij-server"
    BY <2>1 DEF Launcher
  <2> QED
    BY <2>2
<1>2. Launcher[d] \in Word(w) /\ Hash[d] \in Word(w)
  BY DEF Word
<1>3. SystemPath[w] \in Word(w) /\ STRING \subseteq Word(w)
  BY DEF Word
<1>4. Base(w, d) \in Seq(Word(w))
  <2>1. Launcher[d] \in Word(w) /\ "--stdio" \in Word(w) /\ "--system-path" \in Word(w)
    BY <1>2 DEF Word
  <2> QED
    BY <1>3, <2>1 DEF Base
<1>5. Acceptance(d) \in Seq(Word(w))
  <2>1. "--eula" \in Word(w) /\ Hash[d] \in Word(w)
    BY <1>2 DEF Word
  <2> QED
    BY <2>1 DEF Acceptance
<1>6. ASSUME NEW c \in Config[w] PROVE c.extra \in Seq(Word(w))
  <2>1. c.extra \in Seq(STRING)
    BY ConfigAssumption
  <2> QED
    BY <1>3, <2>1, SeqMonotonic
<1> QED
  BY <1>1, <1>2, <1>4, <1>5, <1>6

LEMMA Written ==
    ASSUME NEW w \in Window, dir[w] \in Dir, config[w] \in Config[w]
    PROVE <<Launcher[dir[w]]>> \o Arguments(w)
            = Base(w, dir[w]) \o (IF Readable(dir[w]) THEN Acceptance(dir[w]) ELSE <<>>)
                \o config[w].extra
<1> DEFINE second == IF Readable(dir[w]) THEN Acceptance(dir[w]) ELSE <<>>
<1>1. PICK S : S = Word(w)
  OBVIOUS
<1>2. /\ Launcher[dir[w]] \in S /\ Acceptance(dir[w]) \in Seq(S)
      /\ config[w].extra \in Seq(S)
  BY <1>1, Words
<1>3. "--stdio" \in S /\ "--system-path" \in S /\ SystemPath[w] \in S
  BY <1>1 DEF Word
<1>4. second \in Seq(S)
  BY <1>2
<1>5. Arguments(w) = <<"--stdio", "--system-path", SystemPath[w]>> \o second \o config[w].extra
  BY Zenon DEF Arguments, Acceptance
<1> HIDE DEF second
<1>6. PICK l, a, b, c \in S, q, r \in Seq(S) :
        /\ l = Launcher[dir[w]] /\ a = "--stdio" /\ b = "--system-path" /\ c = SystemPath[w]
        /\ q = second /\ r = config[w].extra
  BY <1>2, <1>3, <1>4, Zenon
<1>7. <<l>> \o (<<a, b, c>> \o q \o r) = <<l, a, b, c>> \o q \o r
  <2>1. <<l>> \in Seq(S) /\ <<a, b, c>> \in Seq(S) /\ <<l, a, b, c>> \in Seq(S)
    OBVIOUS
  <2>2. <<l>> \o <<a, b, c>> = <<l, a, b, c>>
    BY Joins
  <2>3. <<l>> \o (<<a, b, c>> \o q \o r) = (<<l>> \o <<a, b, c>>) \o q \o r
    BY <2>1
  <2> QED
    BY <2>2, <2>3
<1> QED
  BY <1>5, <1>6, <1>7, Zenon DEF second, Base

LEMMA Argued ==
    ASSUME NEW w \in Window, dir[w] \in Dir, config[w] \in Config[w]
    PROVE Arguments(w) \in Seq(Word(w))
<1> DEFINE second == IF Readable(dir[w]) THEN Acceptance(dir[w]) ELSE <<>>
<1>1. PICK S : S = Word(w)
  OBVIOUS
<1>2. Acceptance(dir[w]) \in Seq(S) /\ config[w].extra \in Seq(S)
  BY <1>1, Words
<1>3. "--stdio" \in S /\ "--system-path" \in S /\ SystemPath[w] \in S
  BY <1>1 DEF Word
<1>4. <<"--stdio", "--system-path", SystemPath[w]>> \in Seq(S) /\ second \in Seq(S)
  BY <1>2, <1>3
<1>5. Arguments(w) = <<"--stdio", "--system-path", SystemPath[w]>> \o second \o config[w].extra
  BY Zenon DEF Arguments, Acceptance
<1> HIDE DEF second
<1> QED
  BY <1>1, <1>2, <1>4, <1>5

\* Whatever follows the directory of the worktree, the proxy finds that one.
LEMMA Scanned ==
    ASSUME NEW w \in Window, NEW d \in Dir, NEW tail \in Seq(Word(w))
    PROVE LET cmd == Base(w, d) \o tail IN
          /\ SystemPathOf(cmd) = SystemPath[w] /\ cmd[1] = Launcher[d]
          /\ HasEula(cmd) <=> "--eula" \in Range(tail)
<1>1. PICK cmd : cmd = Base(w, d) \o tail
  OBVIOUS
<1>2. PICK base : base = Base(w, d)
  OBVIOUS
<1>3. /\ Len(base) = 4 /\ base[1] = Launcher[d] /\ base[2] = "--stdio"
      /\ base[3] = "--system-path" /\ base[4] = SystemPath[w] /\ base \in Seq(Word(w))
  <2>1. base \in Seq(Word(w))
    BY <1>2, Words
  <2> QED
    BY <1>2, <2>1 DEF Base
<1>4. /\ Len(cmd) = 4 + Len(tail) /\ Len(tail) \in Nat
      /\ \A i \in 1..4 : cmd[i] = base[i]
  <2>1. cmd = base \o tail
    BY <1>1, <1>2
  <2> QED
    <3>1. cmd = base \o tail /\ base \in Seq(Word(w)) /\ tail \in Seq(Word(w)) /\ Len(base) = 4
      BY <1>3, <2>1
    <3>2. /\ Len(cmd) = Len(base) + Len(tail)
          /\ \A i \in 1..(Len(base) + Len(tail)) :
                cmd[i] = IF i <= Len(base) THEN base[i] ELSE tail[i - Len(base)]
      BY <3>1, ConcatProperties, Zenon
    <3>3. Len(tail) \in Nat
      BY LenProperties
    <3> QED
      BY <3>1, <3>2, <3>3
<1>5. Launcher[d] # "--system-path" /\ Launcher[d] # "--eula"
  BY Words
<1>6. cmd[1] = Launcher[d] /\ cmd[2] = "--stdio" /\ cmd[3] = "--system-path" /\ cmd[4] = SystemPath[w]
  BY <1>3, <1>4
<1>7. 3 \in SystemPathAt(cmd) /\ \A i \in SystemPathAt(cmd) : i \in Nat /\ 3 <= i
  BY <1>4, <1>5, <1>6 DEF SystemPathAt
<1>8. FirstOf(SystemPathAt(cmd)) = 3
  <2>1. \E i \in SystemPathAt(cmd) : \A j \in SystemPathAt(cmd) : i <= j
    BY <1>7
  <2>2. /\ FirstOf(SystemPathAt(cmd)) \in SystemPathAt(cmd)
        /\ \A j \in SystemPathAt(cmd) : FirstOf(SystemPathAt(cmd)) <= j
    BY <2>1, Zenon DEF FirstOf
  <2> QED
    BY <1>7, <2>2
<1>9. SystemPathOf(cmd) = SystemPath[w]
  BY <1>6, <1>7, <1>8 DEF SystemPathOf
<1>10. HasEula(cmd) <=> "--eula" \in Range(tail)
  <2>1. Range(cmd) = Range(base) \cup Range(tail)
    BY <1>1, <1>2, <1>3, RangeConcatenation
  <2>2. "--eula" \notin Range(base)
    <3>1. SystemPath[w] # "--eula"
      BY PathAssumption
    <3>2. Range(base) = {base[i] : i \in 1..4}
      BY <1>3, RangeEquality
    <3> QED
      BY <1>3, <1>5, <3>1, <3>2
  <2> QED
    BY <2>1, <2>2 DEF HasEula
<1> QED
  BY <1>1, <1>6, <1>9, <1>10

\* The server that was started in a window, as SameServer wants it; above all, the
\* proxy has written its session where the worktree is.
Fields == {"proxied", "dir", "config", "session", "argv", "env", "options", "wanted"}

\* The acceptance of the extension, and the one the proxy adds.
Told(d) == IF Readable(d) THEN Acceptance(d) ELSE <<>>
Added(d, extra) ==
    IF ~Readable(d) /\ d \in EulaIn /\ "--eula" \notin Range(extra)
      THEN Acceptance(d) ELSE <<>>

ArgumentsKept(w, s) ==
    s.argv = Base(w, s.dir) \o Told(s.dir) \o s.config.extra
               \o (IF s.proxied THEN Added(s.dir, s.config.extra) ELSE <<>>)

OptionsKept(s) ==
    LET proxys == {k \in {"intellijExtensions"} : s.proxied} IN
      s.options # {} =>
        /\ \A k \in s.wanted \ proxys : <<k, "user">> \in s.options
        /\ \A k \in proxys : <<k, "proxy">> \in s.options
        /\ \A o, p \in s.options : o[1] = p[1] => o = p

Fit(w, s) ==
    /\ DOMAIN s = Fields /\ s.proxied \in BOOLEAN /\ s.config.accept
    /\ s.proxied => s.session = SystemPath[w]
    /\ ArgumentsKept(w, s) /\ OptionsKept(s)
    /\ s.env = LaunchEnv(s.config) \ (IF s.proxied THEN {<<"IJ_LAUNCHER_DEBUG", "user">>} ELSE {})

\* The proxy's command, and what eula_args makes of it.
LEMMA Command ==
    ASSUME NEW w \in Window, dir[w] \in Dir, config[w] \in Config[w]
    PROVE LET cmd == ServerCommand(ProxyArguments(w))
          IN  /\ SystemPathOf(cmd) = SystemPath[w]
              /\ EulaArgs(cmd) = Base(w, dir[w]) \o Told(dir[w]) \o config[w].extra
                                   \o Added(dir[w], config[w].extra)
<1>1. PICK cmd : cmd = ServerCommand(ProxyArguments(w))
  OBVIOUS
<1>2. PICK base : base = Base(w, dir[w])
  OBVIOUS
<1>3. PICK acceptance : acceptance = Acceptance(dir[w])
  OBVIOUS
<1>4. PICK extra : extra = config[w].extra
  OBVIOUS
<1>5. PICK S : S = Word(w)
  OBVIOUS
<1>6. base \in Seq(S) /\ acceptance \in Seq(S) /\ extra \in Seq(S)
  BY <1>2, <1>3, <1>4, <1>5, Words
<1>7. PICK told : told = Told(dir[w])
  OBVIOUS
<1>8. PICK added : added = Added(dir[w], extra)
  OBVIOUS
<1>9. cmd = base \o told \o extra
  <2>1. Arguments(w) \in Seq(S)
    BY <1>5, Argued
  <2>2. {"--log", "proxy.log", "--"} \subseteq S /\ Launcher[dir[w]] \in S
    BY <1>5, Words DEF Word
  <2>3. ServerCommand(ProxyArguments(w)) = <<Launcher[dir[w]]>> \o Arguments(w)
    BY <2>1, <2>2, CutsOff, Zenon DEF ProxyArguments
  <2> QED
    BY <1>1, <1>2, <1>4, <1>7, <2>3, Written, Zenon DEF Told
<1>10. cmd \o <<>> = cmd
  <2>1. told \in Seq(S)
    BY <1>3, <1>6, <1>7 DEF Told
  <2>2. cmd \in Seq(S)
    BY <1>6, <1>9, <2>1
  <2> QED
    BY <2>2, ConcatEmptySeq
<1>11. SystemPathOf(cmd) = SystemPath[w] /\ EulaArgs(cmd) = cmd \o added
  <2>1. CASE Readable(dir[w])
    <3>1. told = acceptance /\ added = <<>>
      BY <1>3, <1>7, <1>8, <2>1 DEF Told, Added
    <3>2. acceptance \o extra \in Seq(S) /\ cmd = base \o (acceptance \o extra)
      BY <1>6, <1>9, <3>1
    <3>3. /\ SystemPathOf(cmd) = SystemPath[w]
          /\ HasEula(cmd) <=> "--eula" \in Range(acceptance \o extra)
      BY <1>2, <1>5, <3>2, Scanned, Zenon
    <3>4. "--eula" \in Range(acceptance \o extra)
      <4>1. Range(acceptance \o extra) = Range(acceptance) \cup Range(extra)
        BY <1>6, RangeConcatenation
      <4>2. "--eula" \in Range(acceptance)
        BY <1>3 DEF Acceptance, Range
      <4> QED
        BY <4>1, <4>2
    <3>5. EulaArgs(cmd) = cmd
      BY <3>3, <3>4 DEF EulaArgs
    <3> QED
      BY <1>10, <3>1, <3>3, <3>5
  <2>2. CASE ~Readable(dir[w])
    <3>1. cmd = base \o extra
      <4>1. base \o <<>> = base
        BY <1>6, ConcatEmptySeq
      <4> QED
        BY <1>7, <1>9, <2>2, <4>1 DEF Told
    <3>2. /\ SystemPathOf(cmd) = SystemPath[w] /\ cmd[1] = Launcher[dir[w]]
          /\ HasEula(cmd) <=> "--eula" \in Range(extra)
      BY <1>2, <1>5, <1>6, <3>1, Scanned, Zenon
    <3>3. CASE "--eula" \in Range(extra)
      <4>1. EulaArgs(cmd) = cmd
        BY <3>2, <3>3 DEF EulaArgs
      <4>2. added = <<>>
        BY <1>8, <3>3 DEF Added
      <4> QED
        BY <1>10, <3>2, <4>1, <4>2
    <3>4. CASE "--eula" \notin Range(extra)
      <4>1. (CHOOSE x \in Dir : Launcher[x] = cmd[1]) = dir[w]
        <5>1. \A x \in Dir : Launcher[x] = Launcher[dir[w]] <=> x = dir[w]
          BY DEF Dir, Launcher
        <5> QED
          BY <3>2, <5>1
      <4>2. EulaArgs(cmd) = IF dir[w] \in EulaIn THEN cmd \o acceptance ELSE cmd
        BY <1>3, <3>2, <3>4, <4>1, Zenon DEF EulaArgs, Acceptance
      <4>3. added = IF dir[w] \in EulaIn THEN acceptance ELSE <<>>
        BY <1>3, <1>8, <2>2, <3>4, Zenon DEF Added
      <4> QED
        BY <1>10, <3>2, <4>2, <4>3
    <3> QED
      BY <3>3, <3>4
  <2> QED
    BY <2>1, <2>2
<1> QED
  BY <1>1, <1>2, <1>4, <1>7, <1>8, <1>9, <1>11, Zenon

LEMMA ProxiedFit ==
    ASSUME NEW w \in Window, dir[w] \in Dir, config[w] \in Config[w], config[w].accept
    PROVE Fit(w, Proxied(w))
<1> DEFINE cmd == ServerCommand(ProxyArguments(w))
<1>1. PICK s : s = Proxied(w)
  OBVIOUS
<1>2. /\ DOMAIN s = Fields /\ s.proxied = TRUE /\ s.dir = dir[w] /\ s.config = config[w]
      /\ s.session = SystemPathOf(cmd) /\ s.argv = EulaArgs(cmd)
      /\ s.env = Scrubbed(LaunchEnv(config[w])) /\ s.options = {}
  <2> HIDE DEF cmd
  <2>1. s = [proxied |-> TRUE, dir |-> dir[w], config |-> config[w],
             session |-> SystemPathOf(cmd), argv |-> EulaArgs(cmd),
             env |-> Scrubbed(LaunchEnv(config[w])), options |-> {}, wanted |-> {}]
    BY <1>1, Zenon DEF Proxied, cmd
  <2> QED
    BY <2>1 DEF Fields
<1>3. s.session = SystemPath[w]
  BY <1>2, Command, Zenon
<1>4. ArgumentsKept(w, s)
  <2>1. s.argv = Base(w, s.dir) \o Told(s.dir) \o s.config.extra
                   \o Added(s.dir, s.config.extra)
    BY <1>2, Command, Zenon
  <2> QED
    BY <1>2, <2>1, Zenon DEF ArgumentsKept
<1>5. Scrubbed(LaunchEnv(config[w])) = LaunchEnv(config[w]) \ {<<"IJ_LAUNCHER_DEBUG", "user">>}
  <2>1. \A v \in LaunchEnv(config[w]) :
           v[1] = "IJ_LAUNCHER_DEBUG" <=> v = <<"IJ_LAUNCHER_DEBUG", "user">>
    <3> SUFFICES ASSUME NEW v \in LaunchEnv(config[w])
                 PROVE v[1] = "IJ_LAUNCHER_DEBUG" <=> v = <<"IJ_LAUNCHER_DEBUG", "user">>
      OBVIOUS
    <3>1. CASE \E n : v = <<n, "user">>
      BY <3>1
    <3>2. CASE \E k \in DOMAIN Variable : v = <<Variable[k], "settings">>
      <4>1. \A k \in DOMAIN Variable : Variable[k] # "IJ_LAUNCHER_DEBUG"
        BY DEF Variable
      <4>2. PICK k \in DOMAIN Variable : v = <<Variable[k], "settings">>
        BY <3>2
      <4>3. v[1] = Variable[k] /\ v[2] = "settings"
        BY <4>2
      <4> QED
        BY <4>1, <4>3
    <3> QED
      BY <3>1, <3>2 DEF LaunchEnv
  <2> QED
    BY <2>1 DEF Scrubbed
<1> HIDE DEF cmd
<1>6. Fit(w, s)
  BY <1>2, <1>3, <1>4, <1>5 DEF Fit, OptionsKept
<1> QED
  BY <1>1, <1>6

LEMMA DirectFit ==
    ASSUME NEW w \in Window, Readable(dir[w]), dir[w] \in Dir, config[w] \in Config[w],
           config[w].accept
    PROVE Fit(w, Direct(w))
<1>1. PICK s : s = Direct(w)
  OBVIOUS
<1>2. /\ DOMAIN s = Fields /\ s.proxied = FALSE /\ s.dir = dir[w] /\ s.config = config[w]
      /\ s.argv = <<Launcher[dir[w]]>> \o Arguments(w)
      /\ s.env = LaunchEnv(config[w]) /\ s.options = {}
  BY <1>1 DEF Direct, Fields
<1>3. ArgumentsKept(w, s)
  <2>1. PICK S : S = Word(w)
    OBVIOUS
  <2>2. PICK kept : kept = Base(w, dir[w]) \o Told(dir[w]) \o config[w].extra
    OBVIOUS
  <2>3. s.argv = kept
    BY <1>2, <2>2, Written, Zenon DEF Told
  <2>4. kept \in Seq(S)
    BY <2>1, <2>2, Words DEF Told
  <2>5. kept \o <<>> = kept
    BY <2>4, ConcatEmptySeq
  <2> QED
    BY <1>2, <2>2, <2>3, <2>5, Zenon DEF ArgumentsKept
<1>4. Fit(w, s)
  BY <1>2, <1>3 DEF Fit, OptionsKept
<1> QED
  BY <1>1, <1>4

LEMMA InitializedFit ==
    ASSUME NEW w \in Window, NEW s, Fit(w, s), NEW c,
           NEW t, t = [s EXCEPT !.options = IF s.proxied THEN ProxyOptions(InitOptions(c))
                                            ELSE InitOptions(c),
                                !.wanted = Range(c.options)]
    PROVE Fit(w, t)
<1> DEFINE new == IF s.proxied THEN ProxyOptions(InitOptions(c)) ELSE InitOptions(c)
           wanted == Range(c.options)
<1>1. \A k \in wanted : <<k, "user">> \in InitOptions(c)
  BY DEF InitOptions
<1>2. \A o, p \in InitOptions(c) : o[1] = p[1] => o = p
  BY DEF InitOptions
<1>3. CASE s.proxied
  <2>1. new = ProxyOptions(InitOptions(c))
    BY <1>3
  <2>2. \A k \in wanted \ {"intellijExtensions"} : <<k, "user">> \in new
    BY <1>1, <2>1 DEF ProxyOptions
  <2>3. <<"intellijExtensions", "proxy">> \in new
    BY <2>1 DEF ProxyOptions
  <2>4. \A o, p \in new : o[1] = p[1] => o = p
    BY <1>2, <2>1 DEF ProxyOptions
  <2> HIDE DEF new, wanted
  <2>5. /\ DOMAIN t = Fields /\ t.proxied = s.proxied /\ t.dir = s.dir /\ t.config = s.config
        /\ t.session = s.session /\ t.argv = s.argv /\ t.env = s.env
        /\ t.options = new /\ t.wanted = wanted
    BY DEF Fit, Fields, new, wanted
  <2>6. ArgumentsKept(w, t)
    BY <2>5 DEF Fit, ArgumentsKept
  <2> QED
    BY <1>3, <2>2, <2>3, <2>4, <2>5, <2>6 DEF Fit, OptionsKept
<1>4. CASE ~s.proxied
  <2>1. new = InitOptions(c)
    BY <1>4
  <2>2. \A k \in wanted : <<k, "user">> \in new
    BY <1>1, <2>1
  <2>3. \A o, p \in new : o[1] = p[1] => o = p
    BY <1>2, <2>1
  <2> HIDE DEF new, wanted
  <2>4. /\ DOMAIN t = Fields /\ t.proxied = s.proxied /\ t.dir = s.dir /\ t.config = s.config
        /\ t.session = s.session /\ t.argv = s.argv /\ t.env = s.env
        /\ t.options = new /\ t.wanted = wanted
    BY DEF Fit, Fields, new, wanted
  <2>5. ArgumentsKept(w, t)
    BY <2>4 DEF Fit, ArgumentsKept
  <2> QED
    BY <1>4, <2>2, <2>3, <2>4, <2>5 DEF Fit, OptionsKept
<1> QED
  BY <1>3, <1>4

-----------------------------------------------------------------------------
(* The calls that start it.                                                 *)

\* A call for a server goes on only with a directory and the agreement, which
\* was asked for once, before the proxy was looked for.
Agreed ==
    \A w \in Window : call[w] = "server" /\ pc[w] \in Fetching \cup {"proxy", "settled"} =>
      dir[w] # None /\ config[w].accept

Served == DOMAIN server = Window /\ \A w \in Window : server[w] # None => Fit(w, server[w])

LEMMA AgreedNext == Inv /\ Agreed /\ [Next]_vars => Agreed'
<1> SUFFICES ASSUME Inv, Agreed, [Next]_vars PROVE Agreed'
  OBVIOUS
<1>0. CallTypes
  BY TypeParts DEF Inv
<1>1. ASSUME NEW w \in Window, NEW c \in Config[w], AskServer(w, c) \/ AskDebugger(w, c)
      PROVE Agreed'
  <2>1. PICK label \in {"resolve", "proxy"}, kind \in {"server", "debugger"} :
           /\ pc' = [pc EXCEPT ![w] = label] /\ call' = [call EXCEPT ![w] = kind]
           /\ label = "resolve" \/ kind = "debugger"
    BY <1>1 DEF AskServer, AskDebugger, Begin, Goto
  <2>2. config' = [config EXCEPT ![w] = c] /\ dir' = [dir EXCEPT ![w] = None]
    BY <1>1 DEF AskServer, AskDebugger, Begin
  <2>3. ASSUME NEW v \in Window, v # w
        PROVE pc'[v] = pc[v] /\ call'[v] = call[v] /\ config'[v] = config[v] /\ dir'[v] = dir[v]
    BY <1>0, <2>1, <2>2, <2>3 DEF CallTypes
  <2>4. ~(call'[w] = "server" /\ pc'[w] \in Fetching \cup {"proxy", "settled"})
    BY <1>0, <2>1 DEF CallTypes, Fetching
  <2> QED
    BY <2>3, <2>4 DEF Agreed
<1>2. ASSUME NEW w \in Window, NEW d \in Dir \cup {None}, ResolveServer(w, d) PROVE Agreed'
  BY <1>0, <1>2 DEF ResolveServer, Accepted, Fail, Goto, Agreed, CallTypes, Fetching
<1>3. ASSUME NEW w \in Window, FetchProxy(w) PROVE Agreed'
  <2>1. pc[w] \in Fetching \cup {"proxy"} /\ UNCHANGED <<call, config, dir>>
        /\ \E label : Goto(w, label)
    BY <1>3 DEF FetchProxy, Fetching, Between, LookForProxy, OpenDownload, OpenFails, FinishDownload,
       BreakDownload, Verify, VerifyFails, Discard, MakeExecutable, Rename, StepFails,
       Proceed, Trouble, Degrade, Settle
  <2> QED
    BY <1>0, <2>1 DEF Goto, Agreed, CallTypes
<1>4. ASSUME NEW w \in Window, Forget(w) PROVE Agreed'
  BY <1>0, <1>4 DEF Forget, Goto, Agreed, CallTypes, Fetching
<1>5. ASSUME NEW w \in Window, Fail(w), UNCHANGED <<call, config, dir>> PROVE Agreed'
  BY <1>0, <1>5 DEF Fail, Goto, Agreed, CallTypes, Fetching
<1>6. ASSUME NEW w \in Window,
             StartServer(w) \/ StartAdapter(w) \/ SystemFails(w) \/ Crash(w)
      PROVE Agreed'
  BY <1>4, <1>5, <1>6 DEF StartServer, StartAdapter, SystemFails, Crash
<1>7. CASE UNCHANGED <<pc, call, config, dir>>
  BY <1>7 DEF Agreed
<1>8. ASSUME NEW w \in Window,
             (\E c \in Config[w] : Initialize(w, c)) \/ ServerStops(w) \/ AdapterStops(w)
      PROVE Agreed'
  BY <1>7, <1>8 DEF Initialize, ServerStops, AdapterStops, local
<1>9. CASE UNCHANGED vars
  BY <1>7, <1>9 DEF vars, local
<1> QED
  BY <1>1, <1>2, <1>3, <1>6, <1>8, <1>9 DEF Next, Call

LEMMA ServedNext == Inv /\ Agreed /\ Served /\ [Next]_vars => Served'
<1> SUFFICES ASSUME Inv, Agreed, Served, [Next]_vars PROVE Served'
  OBVIOUS
<1>0. CallTypes
  BY TypeParts DEF Inv
<1>1. CASE UNCHANGED server
  BY <1>1 DEF Served
<1>2. ASSUME NEW w \in Window, NEW s, server' = [server EXCEPT ![w] = s], s = None \/ Fit(w, s)
      PROVE Served'
  <2>1. DOMAIN server' = Window /\ server'[w] = s /\ \A v \in Window \ {w} : server'[v] = server[v]
    BY <1>2 DEF Served
  <2>2. ASSUME NEW v \in Window, server'[v] # None PROVE Fit(v, server'[v])
    BY <1>2, <2>1, <2>2 DEF Served
  <2> QED
    BY <2>1, <2>2 DEF Served
<1>3. ASSUME NEW w \in Window, StartServer(w) PROVE Served'
  <2>1. CASE Runs(w) /\ (proxy[w] # None \/ Readable(dir[w]))
    <3>1. pc[w] = "settled" /\ call[w] = "server"
          /\ server' = [server EXCEPT ![w] = IF proxy[w] = None THEN Direct(w) ELSE Proxied(w)]
      BY <1>3, <2>1 DEF StartServer
    <3>2. dir[w] \in Dir /\ config[w] \in Config[w] /\ config[w].accept
      BY <1>0, <3>1 DEF Agreed, CallTypes
    <3>3. CASE proxy[w] = None
      <4>1. server' = [server EXCEPT ![w] = Direct(w)] /\ Readable(dir[w])
        BY <2>1, <3>1, <3>3
      <4> QED
        BY <1>2, <3>2, <4>1, DirectFit
    <3>4. CASE proxy[w] # None
      <4>1. server' = [server EXCEPT ![w] = Proxied(w)]
        BY <3>1, <3>4
      <4> QED
        BY <1>2, <3>2, <4>1, ProxiedFit
    <3> QED
      BY <3>3, <3>4
  <2>2. CASE ~(Runs(w) /\ (proxy[w] # None \/ Readable(dir[w])))
    BY <1>1, <1>3, <2>2 DEF StartServer
  <2> QED
    BY <2>1, <2>2
<1>4. ASSUME NEW w \in Window, NEW c \in Config[w], Initialize(w, c) PROVE Served'
  <2>1. PICK t : t = [server[w] EXCEPT
                        !.options = IF server[w].proxied THEN ProxyOptions(InitOptions(c))
                                    ELSE InitOptions(c),
                        !.wanted = Range(c.options)]
    OBVIOUS
  <2>2. server' = [server EXCEPT ![w] = t] /\ server[w] # None
    BY <1>4, <2>1, Zenon DEF Initialize
  <2>3. Fit(w, t)
    BY <2>1, <2>2, InitializedFit DEF Served
  <2> QED
    BY <1>2, <2>2, <2>3
<1>5. ASSUME NEW w \in Window, ServerStops(w) \/ Crash(w) PROVE Served'
  BY <1>2, <1>5 DEF ServerStops, Crash
<1>6. ASSUME NEW w \in Window, FetchProxy(w) PROVE UNCHANGED server
  BY <1>6 DEF FetchProxy, LookForProxy, OpenDownload, OpenFails, FinishDownload,
     BreakDownload, Verify, VerifyFails, Discard, MakeExecutable, Rename, StepFails,
     Proceed, Trouble, started
<1>7. ASSUME NEW w \in Window, Call(w), ~StartServer(w) PROVE UNCHANGED server
  BY <1>7 DEF Call, AskServer, AskDebugger, Begin, ResolveServer, StartAdapter, SystemFails,
     started
<1>8. UNCHANGED vars => UNCHANGED server
  BY DEF vars, started
<1>9. ASSUME NEW w \in Window, AdapterStops(w) PROVE UNCHANGED server
  BY <1>9 DEF AdapterStops
<1> QED
  BY <1>1, <1>3, <1>4, <1>5, <1>6, <1>7, <1>8, <1>9 DEF Next

LEMMA ServedAlways == Spec => [](Inv /\ Agreed /\ Served)
<1>1. Init => Agreed /\ Served
  BY DEF Init, Agreed, Served, Fetching
<1> QED
  BY <1>1, InvInit, InvNext, AgreedNext, ServedNext, PTL DEF Spec

\* Whatever the settings of the user, with the proxy or without, the server is
\* started with exactly the arguments the extension has made, once the user has
\* agreed. The acceptance comes from the extension where it can read it, and else
\* from the proxy unless the user's arguments have it; all the options of the user
\* reach the server but the one that is the proxy's.
THEOREM ServerUnaltered == Spec => []SameServer
<1>1. Served => SameServer
  <2> SUFFICES ASSUME Served PROVE SameServer
    OBVIOUS
  <2>1. ASSUME NEW w \in Window, NEW s, s = server[w], s # None
        PROVE LET eula == <<"--eula", Hash[s.dir]>>
                  base == <<Launcher[s.dir], "--stdio", "--system-path", SystemPath[w]>>
                  users == "--eula" \in Range(s.config.extra)
                  byProxy == s.proxied /\ ~Readable(s.dir) /\ s.dir \in EulaIn /\ ~users
              IN  s.argv = base \o (IF Readable(s.dir) THEN eula ELSE <<>>) \o s.config.extra
                             \o (IF byProxy THEN eula ELSE <<>>)
    <3>1. ArgumentsKept(w, s)
      BY <2>1 DEF Served, Fit
    <3>2. CASE s.proxied
      BY <3>1, <3>2, Zenon DEF ArgumentsKept, Told, Added, Acceptance, Base
    <3>3. CASE ~s.proxied
      BY <3>1, <3>3, Zenon DEF ArgumentsKept, Told, Acceptance, Base
    <3> QED
      BY <3>2, <3>3
  <2>2. ASSUME NEW w \in Window, NEW s, s = server[w], s # None
        PROVE /\ s.config.accept /\ OptionsKept(s)
              /\ s.env = LaunchEnv(s.config) \
                           (IF s.proxied THEN {<<"IJ_LAUNCHER_DEBUG", "user">>} ELSE {})
    BY <2>2 DEF Served, Fit
  <2> QED
    BY <2>1, <2>2, Zenon DEF SameServer, OptionsKept
<1> QED
  BY <1>1, ServedAlways, PTL

\* For any number of windows, and any arguments that follow, the debug adapter of
\* a worktree and the proxy of its server agree on the directory of the session.
THEOREM SessionFound == Spec => []SessionDirsAgree
<1>1. Inv /\ Served => SessionDirsAgree
  <2> SUFFICES ASSUME Inv, Served, NEW v \in Window, NEW w \in Window,
                      server[v] # None, server[v].proxied, adapter[w] # None
               PROVE adapter[w] = server[v].session <=> SystemPath[v] = SystemPath[w]
    BY DEF SessionDirsAgree
  <2>1. server[v].session = SystemPath[v]
    BY DEF Served, Fit
  <2>2. adapter[w] = SystemPath[w]
    BY TypeParts DEF Inv, OtherTypes
  <2> QED
    BY <2>1, <2>2
<1> QED
  BY <1>1, ServedAlways, PTL

\* The types hold for any windows and settings: above all, that who writes to a
\* file of the proxy finds it there, and the debug adapter is told of the
\* directory of its own worktree.
THEOREM ExtensionTypeCorrect == Spec => []TypeOK
<1>1. Inv => TypeOK
  BY DEF Inv
<1> QED
  BY <1>1, InvAlways, PTL

\* Without an overlap of downloads no call ever takes another file than the
\* release for the proxy; with one, what is incomplete is being written to or has
\* been given up.
THEOREM ProxyStaysWhole == Spec => []ProxyWhole
<1>1. Inv => ProxyWhole
  <2> SUFFICES ASSUME Inv, Exists PROVE ProxyWhole
    BY DEF ProxyWhole, Exists
  <2>1. FileTypes
    BY TypeParts DEF Inv
  <2>2. asset = "good" /\ file["installed"] \in File
    BY <2>1 DEF Inv, Released, FileTypes, Entry, Exists
  <2>3. \/ file["installed"].content = "good"
        \/ writing[file["installed"].latest] = "installed"
        \/ file["installed"].abandoned
    BY <2>2 DEF Inv, Contents, Entry, Exists
  <2> QED
    BY <2>2, <2>3 DEF Inv, Checked, ProxyWhole, Exists, File
<1> QED
  BY <1>1, InvAlways, PTL

\* With one window, whatever breaks off its downloads and whenever it dies, the
\* file at the path of the proxy is the release, whole and executable.
THEOREM WholeAlone ==
    ASSUME \A v, w \in Window : v = w
    PROVE Spec => [](Exists => Whole(file["installed"]))
<1>1. Init => ~overlapped
  BY DEF Init
<1>2. ~overlapped /\ [Next]_vars => ~overlapped'
  <2> SUFFICES ASSUME ~overlapped, [Next]_vars PROVE ~overlapped'
    OBVIOUS
  <2>1. ASSUME NEW w \in Window, OpenDownload(w) PROVE ~overlapped'
    <3>1. pc[w] = "open" /\ overlapped' = \E v \in Window : pc[v] \in Between
      BY <2>1 DEF OpenDownload
    <3>2. \A v \in Window : pc[v] \notin Between
      BY <3>1 DEF Between
    <3> QED
      BY <3>1, <3>2
  <2>2. ASSUME NEW w \in Window, Call(w) \/ (\E c \in Config[w] : Initialize(w, c)) \/ ServerStops(w)
                                 \/ AdapterStops(w) \/ Crash(w)
        PROVE UNCHANGED overlapped
    BY <2>2 DEF Call, AskServer, AskDebugger, Begin, ResolveServer, StartServer, StartAdapter,
       SystemFails, Initialize, ServerStops, AdapterStops, Crash
  <2>3. ASSUME NEW w \in Window, FetchProxy(w), ~OpenDownload(w) PROVE UNCHANGED overlapped
    BY <2>3 DEF FetchProxy, LookForProxy, OpenFails, FinishDownload, BreakDownload, Verify,
       VerifyFails, Discard, MakeExecutable, Rename, StepFails, Trouble
  <2> QED
    BY <2>1, <2>2, <2>3 DEF Next, vars
<1>3. Inv /\ ~overlapped => (Exists => Whole(file["installed"]))
  BY DEF Inv, Checked, Exists
<1> QED
  BY <1>1, <1>2, <1>3, InvAlways, PTL DEF Spec

\* However the steps of the download fail, in whichever windows, a call fails and
\* the server runs without the proxy for the reasons given only.
THEOREM NoCauselessOutcome == Spec => []OutcomeHasCause
<1>1. Inv => OutcomeHasCause
  BY DEF Inv
<1> QED
  BY <1>1, InvAlways, PTL
=============================================================================
