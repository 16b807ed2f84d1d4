----------------------------- MODULE Decompile -----------------------------
(***************************************************************************)
(* The decompile workers of proxy/src/main.rs and the cache they share:    *)
(* how a worker waits for an answer under the mutex of the queue, how      *)
(* materialize looks for a file, asks the backend, creates, writes and     *)
(* seals it, and what a panic or the end of the process leaves behind.     *)
(*                                                                         *)
(* Proxy treats each URI in one or two steps; here the other worker and    *)
(* the end of the process come between any two calls of the file system.   *)
(* The cache directory outlives the process.                               *)
(***************************************************************************)
EXTENDS Naturals, Sequences

CONSTANTS
    Worker,
    Request,      \* navigation requests whose answers are handed over
    Uri,          \* archive URIs (jar:, jrt:)
    PanicUri,     \* those percent_decode slices inside a character
    Links,        \* Links[r]: the archive URIs in the answer, as traversed
    MaxRestarts,  \* bound on the ends of the process
    None

Language == {"java", "kotlin", "other"}
Extension == {"java", "kt"}
Path == Uri \X Extension

ASSUME UriAssumption == PanicUri \subseteq Uri
ASSUME LinksAssumption == Links \in [Request -> Seq(Uri)]
ASSUME NoneAssumption == None \notin Worker /\ None \notin Request /\ None \notin Path
ASSUME RestartAssumption == MaxRestarts \in Nat

VARIABLES
    state,     \* state[r]: new, queued, held by a worker, given or lost
    settled,   \* settled[r]: the files its archive URIs are replaced by, so far
               \* (None: left as it is)
    queue,     \* work_tx to work_rx
    guard,     \* the worker that holds the mutex around work_rx
    stage,     \* stage[w]: where the worker is
    job,       \* job[w]: the request whose answer it holds, or has died of
    path,      \* path[w]: the file it creates
    file,      \* file[p]: absent, partial or whole
    opener,    \* opener[p]: the worker that truncated it last
    sealed,    \* files made read-only
    failed,    \* history: URIs for which a call, an open or a write has failed
    cut,       \* history: files whose writing was given up
    restarts

answers == <<state, settled>>
cache == <<file, opener, sealed, cut>>
vars == <<answers, queue, guard, stage, job, path, cache, failed, restarts>>

Init ==
    /\ state = [r \in Request |-> "new"] /\ settled = [r \in Request |-> <<>>]
    /\ queue = <<>> /\ guard = None
    /\ stage = [w \in Worker |-> "idle"] /\ job = [w \in Worker |-> None]
    /\ path = [w \in Worker |-> None]
    /\ file = [p \in Path |-> "absent"] /\ opener = [p \in Path |-> None]
    /\ sealed = {} /\ failed = {} /\ cut = {} /\ restarts = 0

Goto(w, s) == stage' = [stage EXCEPT ![w] = s]

-----------------------------------------------------------------------------
(* The queue.                                                               *)

Enqueue(r) ==
    /\ state[r] = "new"
    /\ state' = [state EXCEPT ![r] = "queued"]
    /\ queue' = Append(queue, r)
    /\ UNCHANGED <<settled, guard, stage, job, path, cache, failed, restarts>>

LockQueue(w) ==
    /\ stage[w] = "idle" /\ guard = None
    /\ guard' = w
    /\ Goto(w, "receiving")
    /\ UNCHANGED <<answers, queue, job, path, cache, failed, restarts>>

\* Bug: the guard lives as long as the answer is worked on.
GuardKept(w) == w

\* The guard is a temporary of the let: gone when recv has returned.
GuardAfter(w) == None

Receive(w) ==
    /\ stage[w] = "receiving" /\ queue # <<>>
    /\ queue' = Tail(queue)
    /\ guard' = GuardAfter(w)
    /\ state' = [state EXCEPT ![Head(queue)] = "held"]
    /\ job' = [job EXCEPT ![w] = Head(queue)]
    /\ Goto(w, "looking")
    /\ UNCHANGED <<settled, path, cache, failed, restarts>>

-----------------------------------------------------------------------------
(* materialize, for one archive URI after the other.                        *)

AtLink(w) == stage[w] = "looking" /\ Len(settled[job[w]]) < Len(Links[job[w]])

ThisUri(w) == Links[job[w]][Len(settled[job[w]]) + 1]

Settle(w, r) ==
    /\ settled' = [settled EXCEPT ![job[w]] = Append(@, r)]
    /\ Goto(w, "looking")

\* cache_path panics; the thread is gone with the answer it holds.
Panic(w) ==
    /\ AtLink(w) /\ ThisUri(w) \in PanicUri
    /\ state' = [state EXCEPT ![job[w]] = "lost"]
    /\ Goto(w, "dead")
    /\ UNCHANGED <<settled, queue, guard, job, path, cache, failed, restarts>>

\* Bug: a file the other worker is about to create counts as well.
Announced(u) ==
    {p \in {u} \X Extension : file[p] # "absent" \/ \E w \in Worker : path[w] = p}

Existing(u) == {p \in {u} \X Extension : file[p] # "absent"}

\* The java file is looked for first.
Found(u) ==
    IF <<u, "java">> \in Existing(u) THEN <<u, "java">> ELSE <<u, "kt">>

Hit(w) ==
    /\ AtLink(w) /\ ThisUri(w) \notin PanicUri /\ Existing(ThisUri(w)) # {}
    /\ Settle(w, Found(ThisUri(w)))
    /\ UNCHANGED <<state, queue, guard, job, path, cache, failed, restarts>>

Miss(w) ==
    /\ AtLink(w) /\ ThisUri(w) \notin PanicUri /\ Existing(ThisUri(w)) = {}
    /\ Goto(w, "calling")
    /\ UNCHANGED <<answers, queue, guard, job, path, cache, failed, restarts>>

ExtensionOf(l) == IF l = "kotlin" THEN "kt" ELSE "java"

\* decompile answers with code; without a language it is java.
CallAnswered(w, l) ==
    /\ stage[w] = "calling"
    /\ path' = [path EXCEPT ![w] = <<ThisUri(w), ExtensionOf(l)>>]
    /\ Goto(w, "opening")
    /\ UNCHANGED <<answers, queue, guard, job, cache, failed, restarts>>

\* Bug: the path is given to the client although nothing was written.
PathAnyway(w) == <<ThisUri(w), "java">>

Unresolved(w) == None

GiveUp(w) ==
    /\ failed' = failed \cup {ThisUri(w)}
    /\ Settle(w, Unresolved(w))
    /\ path' = [path EXCEPT ![w] = None]

\* An error, a time-out, or no code in the result.
CallFails(w) ==
    /\ stage[w] = "calling"
    /\ GiveUp(w)
    /\ UNCHANGED <<state, queue, guard, job, cache, restarts>>

\* fs::write: the file is created or truncated ...
Open(w) ==
    /\ stage[w] = "opening" /\ path[w] \notin sealed
    /\ file' = [file EXCEPT ![path[w]] = "partial"]
    /\ opener' = [opener EXCEPT ![path[w]] = w]
    /\ Goto(w, "writing")
    /\ UNCHANGED <<answers, queue, guard, job, path, sealed, cut, failed, restarts>>

\* (no directory, no right to write, or the other worker has sealed it)
OpenFails(w) ==
    /\ stage[w] = "opening"
    /\ GiveUp(w)
    /\ UNCHANGED <<state, queue, guard, job, cache, restarts>>

\* Bug: one write, which may be short.
ShortWrite(w) == {"partial", "whole"}

\* Who truncated it last has written all of it; of another, the beginning may
\* be gone.
Written(w) ==
    IF opener[path[w]] = w THEN {"whole"} ELSE {file[path[w]], "whole"}

\* ... and written ...
WriteAll(w) ==
    /\ stage[w] = "writing"
    /\ \E content \in Written(w) : file' = [file EXCEPT ![path[w]] = content]
    /\ Goto(w, "sealing")
    /\ UNCHANGED <<answers, queue, guard, job, path, opener, sealed, cut, failed, restarts>>

\* ... as far as the disk allows: what is there stays there.
WriteFails(w) ==
    /\ stage[w] = "writing"
    /\ cut' = cut \cup {path[w]}
    /\ GiveUp(w)
    /\ UNCHANGED <<state, queue, guard, job, file, opener, sealed, restarts>>

\* An error of set_permissions is ignored.
Seal(w) ==
    /\ stage[w] = "sealing"
    /\ sealed' \in {sealed, sealed \cup {path[w]}}
    /\ Settle(w, path[w])
    /\ path' = [path EXCEPT ![w] = None]
    /\ UNCHANGED <<state, queue, guard, job, file, opener, cut, failed, restarts>>

FinishJob(w) ==
    /\ stage[w] = "looking" /\ Len(settled[job[w]]) = Len(Links[job[w]])
    /\ state' = [state EXCEPT ![job[w]] = "given"]
    /\ job' = [job EXCEPT ![w] = None]
    /\ Goto(w, "idle")
    /\ UNCHANGED <<settled, queue, guard, path, cache, failed, restarts>>

-----------------------------------------------------------------------------
BeingWritten == {path[w] : w \in {v \in Worker : stage[v] = "writing"}}

\* The client goes, or the server: process::exit ends the threads where they
\* are. The next process finds the cache.
Restart ==
    /\ restarts < MaxRestarts
    /\ restarts' = restarts + 1
    /\ state' = [r \in Request |->
                    IF state[r] \in {"queued", "held"} THEN "lost" ELSE state[r]]
    /\ queue' = <<>> /\ guard' = None
    /\ stage' = [w \in Worker |-> "idle"] /\ job' = [w \in Worker |-> None]
    /\ path' = [w \in Worker |-> None]
    /\ cut' = cut \cup BeingWritten
    /\ UNCHANGED <<settled, file, opener, sealed, failed>>

Materialize(w) ==
    \/ Panic(w) \/ Hit(w) \/ Miss(w)
    \/ \E l \in Language : CallAnswered(w, l)
    \/ CallFails(w) \/ Open(w) \/ OpenFails(w) \/ WriteAll(w) \/ WriteFails(w) \/ Seal(w)

WorkerStep(w) == LockQueue(w) \/ Receive(w) \/ Materialize(w) \/ FinishJob(w)

Next ==
    \/ \E r \in Request : Enqueue(r)
    \/ \E w \in Worker : WorkerStep(w)
    \/ Restart

Spec == Init /\ [][Next]_vars

\* The threads run, and call_server returns after the time-out at the latest.
FairSpec == Spec /\ \A w \in Worker : WF_vars(WorkerStep(w))

-----------------------------------------------------------------------------
Served == Path \cup {None}

WorkerType ==
    /\ guard \in Worker \cup {None}
    /\ stage \in [Worker -> {"idle", "receiving", "looking", "calling", "opening",
                             "writing", "sealing", "dead"}]
    /\ job \in [Worker -> Request \cup {None}]
    /\ path \in [Worker -> Path \cup {None}]

\* Type invariant: the answers, the workers and the cache.
TypeOK ==
    /\ state \in [Request -> {"new", "queued", "held", "given", "lost"}]
    /\ settled \in [Request -> Seq(Served)]
    /\ queue \in Seq(Request)
    /\ WorkerType
    /\ file \in [Path -> {"absent", "partial", "whole"}]
    /\ opener \in [Path -> Worker \cup {None}]
    /\ sealed \subseteq Path /\ failed \subseteq Uri /\ cut \subseteq Path
    /\ restarts \in 0..MaxRestarts

\* Safety: whichever worker got there first, a URI of an answer is replaced by
\* a file of that URI that is in the cache, and it is left as it is only if a
\* call, an open or a write for it has failed.
LinksExact ==
    \A r \in Request : \A i \in DOMAIN settled[r] :
        IF settled[r][i] = None THEN Links[r][i] \in failed
                                 ELSE settled[r][i] \in Existing(Links[r][i])

\* Safety: two workers may create the same file at the same time, one truncating
\* what the other has written; still a file is incomplete only while who
\* truncated it last is writing it, or because a writing was given up.
PartialHasCause ==
    \A p \in Path : file[p] = "partial" => p \in cut \cup BeingWritten

\* Safety, as the comment of materialize has it: the client is sent to a file
\* that is, or is about to become, the decompiled source.
ServedWhole ==
    \A r \in Request : state[r] = "given" =>
        \A i \in DOMAIN settled[r] :
            settled[r][i] # None =>
                file[settled[r][i]] = "whole" \/ settled[r][i] \in BeingWritten

FilesOf(u) == {u} \X Extension
Stored == {p \in Path : file[p] # "absent"}

Handing == INSTANCE Workers WITH Job <- Request, File <- Path, links <- Links,
    stored <- Stored

\* Refinement: the workers give each answer once, complete, with files that
\* are there.
WorkersSafety == Handing!Spec

\* Liveness: a panic costs the answer that caused it, no other, as long as one
\* worker is left.
SurvivorDelivers ==
    \A r \in Request :
        state[r] = "queued" ~>
            state[r] \in {"given", "lost"} \/ \A w \in Worker : stage[w] = "dead"
=============================================================================
