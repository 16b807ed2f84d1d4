-------------------------------- MODULE Wire --------------------------------
(***************************************************************************)
(* The pipes between client, proxy and server (proxy/src/frame.rs) and the *)
(* threads of proxy/src/main.rs that write to them under mutexes. A pipe   *)
(* has room for Capacity tokens; a frame is two of them, its header and    *)
(* its body, and a frame without Content-Length is one that no reader      *)
(* understands. Who writes waits for room, who reads waits for tokens.     *)
(*                                                                         *)
(* Which answers are rewritten, of which a worker may die, and who waits   *)
(* for which call, is Proxy's.                                             *)
(***************************************************************************)
EXTENDS Naturals, Sequences, SequencesExt

CONSTANTS
    ClientFrame,   \* frames the client writes
    CallFrame,     \* frames written by threads of their own (call_server)
    ServerFrame,   \* frames the server writes
    Kind,          \* Kind[f] of the frames of client and server; an answer to a
                   \* request of the proxy and a copyToClipboard are swallowed
    Asked,         \* Asked[f]: the frame the client answers with f, or None
    Message,       \* importLog frames with a message
    Failed,        \* importLog frames that report a failure
    CallAfter,     \* CallAfter[f]: the call a frame gives rise to, or None
    Reply,         \* Reply[f]: the frames the server writes after reading f
    Worker,
    Capacity,
    None, Torn

Pipe == {"cin", "sin", "sout", "cout"}
Line == ServerFrame \X {"log", "show"}
Frame == ClientFrame \cup CallFrame \cup ServerFrame \cup Line
Token == Frame \X {"header", "body", "other"}
Thread == {"client", "reader", "main", "server", "pump"} \cup Worker \cup CallFrame

ASSUME CapacityAssumption == Capacity \in Nat \ {0}
ASSUME KindAssumption ==
    /\ Kind \in [ClientFrame \cup ServerFrame ->
                    {"plain", "log", "nav", "swallowed", "broken"}]
    /\ \A f \in ClientFrame : Kind[f] \in {"plain", "swallowed"}
ASSUME ScriptAssumption ==
    /\ CallAfter \in [ClientFrame \cup ServerFrame -> CallFrame \cup {None}]
    /\ Asked \in [ClientFrame -> ServerFrame \cup {None}]
    /\ Reply \in [ClientFrame \cup CallFrame -> Seq(ServerFrame)]
    /\ None \notin Frame \cup Thread
ASSUME ThreadAssumption ==
    /\ CallFrame \cap ({"client", "reader", "main", "server", "pump"} \cup Worker) = {}
    /\ Worker \cap ({"client", "reader", "main", "server", "pump"} \cup Pipe) = {}
ASSUME LineAssumption == ServerFrame \cap Line = {}

VARIABLES
    pipe,      \* pipe[p]: the tokens on the way
    header,    \* header[p]: the frame whose header the reader of p has read
    locked,    \* <<p, t>>: thread t holds the mutex of pipe p
    out,       \* out[t]: the frames t has in hand, each with its pipe
    halfway,   \* threads that have written a header and not yet the body
    spawning,  \* spawning[t]: the call t starts a thread for, when out is empty
    queue,     \* work_tx to work_rx
    begun,     \* frames the client, the server and the callers have begun
    ended,     \* pipes whose reader has given up, and workers that have died
    gone,      \* "no", "server" (it has exited) or "proxy" (both have)
    sent, got  \* history: sent[p], got[p]: the frames written to and read from p

vars == <<pipe, header, locked, out, halfway, spawning, queue, begun, ended, gone, sent, got>>

Init ==
    /\ pipe = [p \in Pipe |-> <<>>] /\ header = [p \in Pipe |-> None]
    /\ locked = {} /\ halfway = {}
    /\ out = [t \in Thread |-> <<>>] /\ spawning = [t \in Thread |-> None]
    /\ queue = <<>> /\ begun = {} /\ ended = {} /\ gone = "no"
    /\ sent = [p \in Pipe |-> <<>>] /\ got = [p \in Pipe |-> <<>>]

Running(t) ==
    CASE t \in {"client", "reader"} -> TRUE
      [] t = "server" -> gone = "no"
      [] OTHER -> gone # "proxy"

Idle(t) == Running(t) /\ out[t] = <<>> /\ spawning[t] = None

To(p, frames) == [i \in DOMAIN frames |-> <<p, frames[i]>>]

-----------------------------------------------------------------------------
(* write_frame, under the mutex of the pipe.                                *)

Target(t) == Head(out[t])[1]
ThisFrame(t) == Head(out[t])[2]

\* Bug: no mutex.
AnyTime(p) == TRUE

Free(p) == \A t \in Thread : <<p, t>> \notin locked

Lock(t) ==
    /\ Running(t) /\ out[t] # <<>> /\ <<Target(t), t>> \notin locked /\ Free(Target(t))
    /\ locked' = locked \cup {<<Target(t), t>>}
    /\ UNCHANGED <<pipe, header, out, halfway, spawning, queue, begun, ended, gone, sent, got>>

Writing(t) == Running(t) /\ out[t] # <<>> /\ <<Target(t), t>> \in locked

\* Nobody reads the pipe any more: the server has exited, or the reader ended.
Deaf(p) == p \in ended \/ (p = "sin" /\ gone # "no") \/ (p = "cin" /\ gone = "proxy")

Room(p) == ~Deaf(p) /\ Len(pipe[p]) < Capacity

Put(t, part) == pipe' = [pipe EXCEPT ![Target(t)] = Append(@, <<ThisFrame(t), part>>)]

Broken(f) == f \in ServerFrame /\ Kind[f] = "broken"

WriteHeader(t) ==
    /\ Writing(t) /\ t \notin halfway /\ Room(Target(t)) /\ ~Broken(ThisFrame(t))
    /\ Put(t, "header")
    /\ halfway' = halfway \cup {t}
    /\ sent' = [sent EXCEPT ![Target(t)] = Append(@, ThisFrame(t))]
    /\ UNCHANGED <<header, locked, out, spawning, queue, begun, ended, gone, got>>

Release(t) ==
    /\ locked' = locked \ {<<Target(t), t>>}
    /\ out' = [out EXCEPT ![t] = Tail(@)]
    /\ halfway' = halfway \ {t}

WriteBody(t) ==
    /\ Writing(t) /\ t \in halfway /\ Room(Target(t))
    /\ Put(t, "body")
    /\ Release(t)
    /\ UNCHANGED <<header, spawning, queue, begun, ended, gone, sent, got>>

\* A header block without a length (external: the server's mistake).
WriteBroken(t) ==
    /\ Writing(t) /\ Room(Target(t)) /\ Broken(ThisFrame(t))
    /\ Put(t, "other")
    /\ Release(t)
    /\ UNCHANGED <<header, spawning, queue, begun, ended, gone, sent, got>>

\* The error is ignored; the frame is lost.
WriteFails(t) ==
    /\ Writing(t) /\ Deaf(Target(t))
    /\ Release(t)
    /\ UNCHANGED <<pipe, header, spawning, queue, begun, ended, gone, sent, got>>

-----------------------------------------------------------------------------
(* What the readers do with a frame.                                        *)

Reader(p) ==
    CASE p = "cin" -> "main" [] p = "sin" -> "server" [] p = "sout" -> "pump"
      [] p = "cout" -> "reader"

\* handle_import_log: a log line for a message, a pop-up for a failure.
Lines(f) ==
    (IF f \in Message THEN <<<<f, "log">>>> ELSE <<>>)
        \o (IF f \in Failed THEN <<<<f, "show">>>> ELSE <<>>)

\* The frames the pump writes to the client itself.
Relayed(f) ==
    CASE Kind[f] = "plain" -> <<f>>
      [] Kind[f] = "log" -> Lines(f)
      [] OTHER -> <<>>

\* The frames the main thread passes on to the server.
Forwarded(f) == IF Kind[f] = "swallowed" THEN <<>> ELSE <<f>>

\* Bug: every answer goes through the workers.
AllToWorkers(f) == Kind[f] \in {"nav", "plain"}

ToWorkers(f) == Kind[f] = "nav"

\* What the reader of p has to write after the frame f, or to start.
Handle(p, f) ==
    CASE p = "cin" ->
            /\ out' = [out EXCEPT !["main"] = To("sin", Forwarded(f))]
            /\ spawning' = [spawning EXCEPT !["main"] = CallAfter[f]]
            /\ UNCHANGED queue
      [] p = "sin" ->
            /\ out' = [out EXCEPT !["server"] = To("sout", Reply[f])]
            /\ UNCHANGED <<spawning, queue>>
      [] p = "sout" /\ ToWorkers(f) ->
            /\ queue' = Append(queue, f)
            /\ UNCHANGED <<out, spawning>>
      [] p = "sout" /\ ~ToWorkers(f) ->
            /\ out' = [out EXCEPT !["pump"] = To("cout", Relayed(f))]
            /\ spawning' = [spawning EXCEPT !["pump"] = CallAfter[f]]
            /\ UNCHANGED queue
      [] OTHER -> UNCHANGED <<out, spawning, queue>>

-----------------------------------------------------------------------------
(* read_frame.                                                              *)

\* The client reads in a thread of its own; the others read when they have
\* nothing to write.
Reading(p) ==
    /\ pipe[p] # <<>> /\ ~Deaf(p)
    /\ Idle(Reader(p))

Next1(p) == Head(pipe[p])

ReadHeader(p) ==
    /\ Reading(p) /\ header[p] = None /\ Next1(p)[2] = "header"
    /\ header' = [header EXCEPT ![p] = Next1(p)[1]]
    /\ pipe' = [pipe EXCEPT ![p] = Tail(@)]
    /\ UNCHANGED <<locked, out, halfway, spawning, queue, begun, ended, gone, sent, got>>

\* read_exact takes as many bytes as the header says, whosever they are; what
\* is no frame is not understood.
ReadBody(p) ==
    /\ Reading(p) /\ header[p] # None
    /\ header' = [header EXCEPT ![p] = None]
    /\ pipe' = [pipe EXCEPT ![p] = Tail(@)]
    /\ IF Next1(p) = <<header[p], "body">>
         THEN got' = [got EXCEPT ![p] = Append(@, header[p])] /\ Handle(p, header[p])
         ELSE got' = [got EXCEPT ![p] = Append(@, Torn)] /\ UNCHANGED <<out, spawning, queue>>
    /\ UNCHANGED <<locked, halfway, begun, ended, gone, sent>>

GiveUp(p) == ended \cup {p}

\* No Content-Length: the loop of the reader ends.
ReadBroken(p) ==
    /\ Reading(p) /\ header[p] = None /\ Next1(p)[2] # "header"
    /\ pipe' = [pipe EXCEPT ![p] = Tail(@)]
    /\ ended' = GiveUp(p)
    /\ UNCHANGED <<header, locked, out, halfway, spawning, queue, begun, gone, sent, got>>

-----------------------------------------------------------------------------
(* Threads that begin a frame.                                              *)

Begin(t, p, f) ==
    /\ out' = [out EXCEPT ![t] = To(p, <<f>>)]
    /\ begun' = begun \cup {f}

ClientWrites(f) ==
    /\ Idle("client") /\ f \notin begun
    /\ Asked[f] # None => Asked[f] \in Range(got["cout"])
    /\ Begin("client", "cin", f)
    /\ UNCHANGED <<pipe, header, locked, halfway, spawning, queue, ended, gone, sent, got>>

\* What is not a reply to something the server has read: it writes when it
\* likes, but does not read while it does (external).
Unprompted == {f \in ServerFrame : \A g \in DOMAIN Reply : f \notin Range(Reply[g])}

ServerWrites(f) ==
    /\ Idle("server") /\ f \notin begun
    /\ Begin("server", "sout", f)
    /\ UNCHANGED <<pipe, header, locked, halfway, spawning, queue, ended, gone, sent, got>>

\* Bug: the thread makes the call itself.
CallHere(t, c) == t

CallThread(t, c) == c

\* After the frame has been dealt with, the thread for its call is started.
Spawn(t) ==
    /\ Running(t) /\ out[t] = <<>> /\ spawning[t] # None
    /\ Begin(CallThread(t, spawning[t]), "sin", spawning[t])
    /\ spawning' = [spawning EXCEPT ![t] = None]
    /\ UNCHANGED <<pipe, header, locked, halfway, queue, ended, gone, sent, got>>

Work(w) ==
    /\ w \in Worker \ ended /\ Idle(w) /\ queue # <<>>
    /\ out' = [out EXCEPT ![w] = To("cout", <<Head(queue)>>)]
    /\ queue' = Tail(queue)
    /\ UNCHANGED <<pipe, header, locked, halfway, spawning, begun, ended, gone, sent, got>>

\* The rewrite of an answer panics: the worker and the answer are lost.
Panic(w) ==
    /\ w \in Worker \ ended /\ Idle(w) /\ queue # <<>>
    /\ queue' = Tail(queue)
    /\ ended' = ended \cup {w}
    /\ UNCHANGED <<pipe, header, locked, out, halfway, spawning, begun, gone, sent, got>>

\* The server exits between two frames (external); the proxy exits some time
\* after, whatever its threads have in hand.
ServerExits ==
    /\ Idle("server")
    /\ gone' = "server"
    /\ UNCHANGED <<pipe, header, locked, out, halfway, spawning, queue, begun, ended, sent, got>>

ProxyExits ==
    /\ gone = "server"
    /\ gone' = "proxy"
    /\ UNCHANGED <<pipe, header, locked, out, halfway, spawning, queue, begun, ended, sent, got>>

-----------------------------------------------------------------------------
Write(t) == Lock(t) \/ WriteHeader(t) \/ WriteBody(t) \/ WriteBroken(t) \/ WriteFails(t)

Read(p) == ReadHeader(p) \/ ReadBody(p) \/ ReadBroken(p)

Next ==
    \/ \E t \in Thread : Write(t) \/ Spawn(t)
    \/ \E p \in Pipe : Read(p)
    \/ \E w \in Worker : Work(w) \/ Panic(w)
    \/ \E f \in ClientFrame : ClientWrites(f)
    \/ \E f \in Unprompted : ServerWrites(f)
    \/ ServerExits \/ ProxyExits

Spec == Init /\ [][Next]_vars

\* What a thread does next; it never has the choice.
Step(t) == Write(t) \/ Spawn(t) \/ Work(t) \/ \E p \in Pipe : t = Reader(p) /\ Read(p)

\* Threads run; the client reads what comes, and the server what it has room
\* to answer.
FairSpec == Spec /\ \A t \in Thread : WF_vars(Step(t))

-----------------------------------------------------------------------------
\* Type invariant: the pipes, their ends and the threads.
TypeOK ==
    /\ pipe \in [Pipe -> Seq(Token)] /\ \A p \in Pipe : Len(pipe[p]) <= Capacity
    /\ header \in [Pipe -> Frame \cup {None}]
    /\ locked \subseteq Pipe \X Thread
    /\ out \in [Thread -> Seq(Pipe \X Frame)] /\ halfway \subseteq Thread
    /\ spawning \in [Thread -> CallFrame \cup {None}]
    /\ queue \in Seq(ServerFrame)
    /\ begun \subseteq ClientFrame \cup CallFrame \cup ServerFrame
    /\ ended \subseteq Pipe \cup Worker /\ gone \in {"no", "server", "proxy"}
    /\ sent \in [Pipe -> Seq(Frame)] /\ got \in [Pipe -> Seq(Frame \cup {Torn})]

Channels == INSTANCE Channel

\* Refinement: on every pipe frames arrive whole and in order, although several
\* threads write, in pieces, to a pipe that may be full, and the process may end
\* in the middle of a frame.
WholeFrames == Channels!Spec

\* The frames of s without the answers that go through a worker, and the frames
\* the pump makes of those of s.
Direct(f) == IF f \in ServerFrame /\ Kind[f] = "nav" THEN <<>> ELSE <<f>>
DirectFrames(s) == FlattenSeq([i \in DOMAIN s |-> Direct(s[i])])
RelayedFrames(s) == FlattenSeq([i \in DOMAIN s |-> Relayed(s[i])])

\* Safety: what the pump relays itself, log lines expanded, reaches the client
\* in the order of the server, with nothing missing in between; only answers
\* that went through a worker may be overtaken.
RelayInOrder == IsPrefix(DirectFrames(got["cout"]), RelayedFrames(got["sout"]))

Delivered(f) ==
    \/ f \in ServerFrame /\ Broken(f)
    \/ f \in ServerFrame /\ "sout" \in ended
    \/ f \in ServerFrame /\ ToWorkers(f) /\ Worker \cap ended # {}
    \/ /\ f \in ServerFrame
       /\ Range(IF ToWorkers(f) THEN <<f>> ELSE Relayed(f)) \subseteq Range(got["cout"])
    \/ f \in ClientFrame /\ f \in Range(got["cin"]) /\ Forwarded(f) = <<>>
    \/ f \in Range(got["sin"])

\* Liveness: nobody waits for room for ever. What the server writes comes to the
\* client unless a worker has died, what the client writes to the proxy or the
\* server, and what the callers write to the server, although it does not read
\* while it writes, as long as it lives and makes no mistake.
NoStandstill == []<>(gone # "no" \/ \A f \in begun : Delivered(f))
=============================================================================
