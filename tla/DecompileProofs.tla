-------------------------- MODULE DecompileProofs --------------------------
(***************************************************************************)
(* The decompile workers, for any number of workers, answers, archive URIs *)
(* and restarts: types, what an answer's links become, what leaves a file  *)
(* incomplete, which file the client may find so, and that the workers     *)
(* implement Workers.                                                      *)
(***************************************************************************)
EXTENDS Decompile, TLAPS

Stages == {"idle", "receiving", "looking", "calling", "opening", "writing", "sealing", "dead"}
Busy == {"looking", "calling", "opening", "writing", "sealing"}
Calling == {"calling", "opening", "writing", "sealing"}
Creating == {"opening", "writing", "sealing"}

-----------------------------------------------------------------------------
(* The queue, the workers and the answers they hold.                        *)

\* What is queued is queued once; what a worker works on is its own.
QueueHolds ==
    /\ \A i \in DOMAIN queue : state[queue[i]] = "queued"
    /\ \A i, j \in DOMAIN queue : queue[i] = queue[j] => i = j

JobsHeld ==
    /\ \A w \in Worker : stage[w] \in Busy => job[w] \in Request /\ state[job[w]] = "held"
    /\ \A v, w \in Worker : stage[v] \in Busy /\ stage[w] \in Busy /\ job[v] = job[w] => v = w

LinkLeft ==
    \A w \in Worker : stage[w] \in Calling => Len(settled[job[w]]) < Len(Links[job[w]])

PathOfLink ==
    \A w \in Worker : stage[w] \in Creating =>
        /\ path[w] \in {ThisUri(w)} \X Extension
        /\ stage[w] # "opening" => file[path[w]] # "absent"

SettledWithin == \A r \in Request : Len(settled[r]) <= Len(Links[r])

Held == QueueHolds /\ JobsHeld /\ LinkLeft /\ PathOfLink /\ SettledWithin

Inv == TypeOK /\ Held /\ LinksExact

USE DEF Path, Extension, Language, Served, WorkerType, answers, cache

LEMMA InvInit == Init => Inv
<1> SUFFICES ASSUME Init PROVE Inv
  OBVIOUS
<1>1. TypeOK
  BY RestartAssumption DEF Init, TypeOK
<1>2. Held
  BY LinksAssumption DEF Init, Held, QueueHolds, JobsHeld, LinkLeft, PathOfLink,
     SettledWithin, Busy, Calling, Creating
<1>3. LinksExact
  BY DEF Init, LinksExact
<1> QED
  BY <1>1, <1>2, <1>3 DEF Inv

\* The archive URI a busy worker is at.
LEMMA UriAt ==
    ASSUME Inv, NEW w \in Worker, stage[w] \in Calling \/ AtLink(w)
    PROVE /\ job[w] \in Request /\ state[job[w]] = "held" /\ stage[w] \in Busy
          /\ Len(settled[job[w]]) < Len(Links[job[w]])
          /\ Len(settled[job[w]]) \in Nat
          /\ ThisUri(w) \in Uri
<1> USE DEF Inv, TypeOK, Held, JobsHeld, LinkLeft, AtLink, Busy, Calling
<1>1. job[w] \in Request /\ state[job[w]] = "held" /\ stage[w] \in Busy
  OBVIOUS
<1>2. settled[job[w]] \in Seq(Served) /\ Links[job[w]] \in Seq(Uri)
  BY <1>1, LinksAssumption
<1>3. Len(settled[job[w]]) < Len(Links[job[w]])
  OBVIOUS
<1> QED
  BY <1>1, <1>2, <1>3 DEF ThisUri

-----------------------------------------------------------------------------
(* Settling a link: common to a hit, a failure and a file just sealed.      *)

LEMMA SettleTypes ==
    ASSUME Inv, NEW w \in Worker, stage[w] \in Calling \/ AtLink(w), NEW r \in Served,
           Settle(w, r)
    PROVE /\ settled' \in [Request -> Seq(Served)]
          /\ stage' \in [Worker -> Stages]
          /\ SettledWithin'
          /\ Len(settled'[job[w]]) = Len(settled[job[w]]) + 1
          /\ settled'[job[w]][Len(settled[job[w]]) + 1] = r
          /\ \A i \in DOMAIN settled[job[w]] : settled'[job[w]][i] = settled[job[w]][i]
          /\ \A q \in Request \ {job[w]} : settled'[q] = settled[q]
<1>1. job[w] \in Request /\ Len(settled[job[w]]) < Len(Links[job[w]])
  BY UriAt
<1>2. settled \in [Request -> Seq(Served)] /\ stage \in [Worker -> Stages]
  BY DEF Inv, TypeOK, Stages
<1>3. settled' = [settled EXCEPT ![job[w]] = Append(settled[job[w]], r)]
  BY <1>1, <1>2 DEF Settle
<1>4. settled[job[w]] \in Seq(Served)
  BY <1>1, <1>2
<1>5. settled'[job[w]] = Append(settled[job[w]], r)
  BY <1>1, <1>2, <1>3
<1>6. Append(settled[job[w]], r) \in Seq(Served)
  BY <1>4
<1>7. Links[job[w]] \in Seq(Uri)
  BY <1>1, LinksAssumption
<1>8. SettledWithin'
  BY <1>1, <1>2, <1>3, <1>4, <1>5, <1>7 DEF Inv, Held, SettledWithin
<1>9. stage' \in [Worker -> Stages]
  BY <1>2 DEF Settle, Goto, Stages
<1> QED
  BY <1>1, <1>2, <1>3, <1>4, <1>5, <1>6, <1>8, <1>9

\* Whoever settles a link keeps Held: the others' answers are not touched.
LEMMA SettleHeld ==
    ASSUME Inv, NEW w \in Worker, stage[w] \in Calling \/ AtLink(w), NEW r \in Served,
           Settle(w, r), UNCHANGED <<state, queue, job>>,
           \A v \in Worker \ {w} : path'[v] = path[v],
           \A p \in Path : file'[p] = "absent" <=> file[p] = "absent"
    PROVE Held'
<1>1. job[w] \in Request /\ stage[w] \in Busy
  BY UriAt
<1>2. SettledWithin' /\ \A q \in Request \ {job[w]} : settled'[q] = settled[q]
  BY SettleTypes
<1>3. stage' = [stage EXCEPT ![w] = "looking"]
  BY DEF Settle, Goto
<1>4. \A v \in Worker \ {w} : stage'[v] = stage[v]
  BY <1>3 DEF Inv, TypeOK
<1>5. stage'[w] = "looking"
  BY <1>3 DEF Inv, TypeOK
<1>6. QueueHolds' /\ JobsHeld'
  BY <1>1, <1>4, <1>5 DEF Inv, Held, QueueHolds, JobsHeld, Busy
<1>7. \A v \in Worker \ {w} : stage[v] \in Busy => settled'[job[v]] = settled[job[v]]
  BY <1>1, <1>2 DEF Inv, Held, JobsHeld, Busy
<1>8. LinkLeft'
  BY <1>4, <1>5, <1>7 DEF Inv, Held, LinkLeft, Busy, Calling
<1>9. \A v \in Worker \ {w} : stage[v] \in Creating =>
        path[v] \in Path /\ ThisUri(v)' = ThisUri(v)
  <2> SUFFICES ASSUME NEW v \in Worker \ {w}, stage[v] \in Creating
               PROVE path[v] \in Path /\ ThisUri(v)' = ThisUri(v)
    OBVIOUS
  <2>1. ThisUri(v) \in Uri
    BY UriAt DEF Calling, Creating
  <2>2. path[v] \in {ThisUri(v)} \X Extension
    BY DEF Inv, Held, PathOfLink
  <2> QED
    BY <1>7, <2>1, <2>2 DEF ThisUri, Busy, Creating
<1>10. PathOfLink'
  BY <1>4, <1>5, <1>9 DEF Inv, Held, PathOfLink, Creating
<1> QED
  BY <1>2, <1>6, <1>8, <1>10 DEF Held

LEMMA SettleExact ==
    ASSUME Inv, NEW w \in Worker, stage[w] \in Calling \/ AtLink(w), NEW r \in Served,
           Settle(w, r), failed \subseteq failed',
           \A p \in Path : file'[p] = "absent" <=> file[p] = "absent",
           r = None => ThisUri(w) \in failed',
           r # None => r \in Existing(ThisUri(w))
    PROVE LinksExact'
<1> SUFFICES ASSUME NEW q \in Request, NEW i \in DOMAIN settled'[q]
             PROVE IF settled'[q][i] = None THEN Links[q][i] \in failed'
                                            ELSE settled'[q][i] \in Existing(Links[q][i])'
  BY DEF LinksExact
<1>0. job[w] \in Request /\ settled \in [Request -> Seq(Served)]
  BY UriAt DEF Inv, TypeOK
<1>1. \A p \in Path : file'[p] # "absent" <=> file[p] # "absent"
  OBVIOUS
<1>2. \A u \in Uri : Existing(u)' = Existing(u)
  BY <1>1 DEF Existing
<1>3. ASSUME i \in DOMAIN settled[q], settled'[q][i] = settled[q][i] PROVE
         IF settled'[q][i] = None THEN Links[q][i] \in failed'
                                   ELSE settled'[q][i] \in Existing(Links[q][i])'
  <2>1. Links[q] \in Seq(Uri) /\ i \in 1..Len(Links[q])
    BY <1>0, <1>3, LinksAssumption DEF Inv, Held, SettledWithin
  <2>2. Links[q][i] \in Uri
    BY <2>1
  <2> QED
    BY <1>2, <1>3, <2>2 DEF Inv, LinksExact
<1>4. CASE q # job[w]
  BY <1>3, <1>4, SettleTypes
<1>5. CASE q = job[w] /\ i \in DOMAIN settled[q]
  BY <1>3, <1>5, SettleTypes
<1>6. CASE q = job[w] /\ i \notin DOMAIN settled[q]
  <2>1. settled[q] \in Seq(Served) /\ settled'[q] \in Seq(Served)
    BY <1>0, SettleTypes
  <2>2. i = Len(settled[q]) + 1
    BY <1>6, <2>1, SettleTypes
  <2>3. settled'[q][i] = r /\ Links[q][i] = ThisUri(w) /\ ThisUri(w) \in Uri
    BY <1>6, <2>2, SettleTypes, UriAt DEF ThisUri
  <2> QED
    BY <1>2, <2>3
<1> QED
  BY <1>4, <1>5, <1>6

-----------------------------------------------------------------------------
(* The steps.                                                               *)

\* A step that settles nothing and keeps the files keeps LinksExact.
LEMMA ExactKept ==
    ASSUME Inv, UNCHANGED settled, failed \subseteq failed',
           \A p \in Path : file[p] # "absent" => file'[p] # "absent"
    PROVE LinksExact'
<1> SUFFICES ASSUME NEW q \in Request, NEW i \in DOMAIN settled[q]
             PROVE IF settled[q][i] = None THEN Links[q][i] \in failed'
                                            ELSE settled[q][i] \in Existing(Links[q][i])'
  BY DEF LinksExact
<1>1. settled[q] \in Seq(Served) /\ Links[q] \in Seq(Uri) /\ Len(settled[q]) <= Len(Links[q])
  BY LinksAssumption DEF Inv, TypeOK, Held, SettledWithin
<1>2. Links[q][i] \in Uri
  BY <1>1
<1>3. Existing(Links[q][i]) \subseteq Existing(Links[q][i])'
  BY <1>2 DEF Existing
<1> QED
  BY <1>3 DEF Inv, LinksExact

LEMMA EnqueueStep == ASSUME Inv, NEW q \in Request, Enqueue(q) PROVE Inv'
<1> USE DEF Inv, TypeOK
<1>1. LinksExact'
  BY ExactKept DEF Enqueue
<1>2. TypeOK'
  BY DEF Enqueue
<1>3. queue' = Append(queue, q) /\ queue \in Seq(Request)
  BY DEF Enqueue
<1>4. \A i \in DOMAIN queue : queue[i] # q
  BY DEF Enqueue, Held, QueueHolds
<1>5. QueueHolds'
  BY <1>3, <1>4 DEF Enqueue, Held, QueueHolds
<1>6. UNCHANGED <<settled, stage, job, path, file>>
  BY DEF Enqueue
<1>7. JobsHeld'
  BY <1>6 DEF Enqueue, Held, JobsHeld
<1>8. (LinkLeft /\ PathOfLink /\ SettledWithin)'
  BY <1>6 DEF Held, LinkLeft, PathOfLink, SettledWithin, ThisUri
<1> QED
  BY <1>1, <1>2, <1>5, <1>7, <1>8 DEF Held

LEMMA LockStep == ASSUME Inv, NEW w \in Worker, LockQueue(w) PROVE Inv'
<1> USE DEF Inv, TypeOK, Goto, LockQueue
<1>1. LinksExact'
  BY ExactKept
<1>2. TypeOK'
  OBVIOUS
<1>3. Held'
  BY DEF Held, QueueHolds, JobsHeld, LinkLeft, PathOfLink, SettledWithin, ThisUri, Busy,
     Calling, Creating
<1> QED
  BY <1>1, <1>2, <1>3

LEMMA ReceiveStep == ASSUME Inv, NEW w \in Worker, Receive(w) PROVE Inv'
<1> USE DEF Inv, TypeOK, Goto
<1>1. LinksExact'
  BY ExactKept DEF Receive
<1>2. queue \in Seq(Request) /\ queue # <<>> /\ Head(queue) \in Request
  BY DEF Receive
<1>3. TypeOK'
  BY <1>2 DEF Receive, GuardAfter
<1>4. queue' = Tail(queue) /\ state' = [state EXCEPT ![Head(queue)] = "held"]
  BY DEF Receive
<1>5. \A i \in DOMAIN queue' : i + 1 \in DOMAIN queue /\ queue'[i] = queue[i + 1]
  BY <1>2, <1>4
<1>6. state[Head(queue)] = "queued" /\ \A i \in DOMAIN queue' : queue'[i] # Head(queue)
  <2>1. 1 \in DOMAIN queue /\ Head(queue) = queue[1]
    BY <1>2
  <2>2. \A i \in DOMAIN queue' : i \in Nat \ {0}
    BY <1>2, <1>4
  <2> QED
    BY <1>5, <2>1, <2>2 DEF Held, QueueHolds
<1>7. \A i \in DOMAIN queue' : state'[queue'[i]] = "queued"
  BY <1>2, <1>4, <1>5, <1>6 DEF Held, QueueHolds
<1>8. \A i, j \in DOMAIN queue' : queue'[i] = queue'[j] => i = j
  <2>1. \A i \in DOMAIN queue' : i \in Nat
    BY <1>2, <1>4
  <2>2. \A i, j \in DOMAIN queue' : queue'[i] = queue'[j] => i + 1 = j + 1
    BY <1>5 DEF Held, QueueHolds
  <2> QED
    BY <2>1, <2>2
<1>9. QueueHolds'
  BY <1>7, <1>8 DEF QueueHolds
<1>10. JobsHeld'
  BY <1>2, <1>6 DEF Receive, Held, JobsHeld, Busy
<1>11. (LinkLeft /\ PathOfLink /\ SettledWithin)'
  BY DEF Receive, Held, LinkLeft, PathOfLink, SettledWithin, ThisUri, Calling, Creating
<1> QED
  BY <1>1, <1>3, <1>9, <1>10, <1>11 DEF Held

LEMMA FoundExists ==
    ASSUME NEW u \in Uri, Existing(u) # {}
    PROVE Found(u) \in Existing(u) /\ Found(u) \in Path
  BY DEF Found, Existing

LEMMA SettleSteps ==
    ASSUME Inv, NEW w \in Worker,
           Hit(w) \/ CallFails(w) \/ OpenFails(w) \/ WriteFails(w) \/ Seal(w)
    PROVE Inv'
<1>1. CASE Hit(w)
  <2>1. Found(ThisUri(w)) \in Existing(ThisUri(w)) /\ Found(ThisUri(w)) \in Path
    BY <1>1, UriAt, FoundExists DEF Hit
  <2>2. Settle(w, Found(ThisUri(w))) /\ AtLink(w)
        /\ UNCHANGED <<state, queue, guard, job, path, cache, failed, restarts>>
    BY <1>1 DEF Hit
  <2>3. TypeOK'
    BY <2>1, <2>2, SettleTypes DEF Inv, TypeOK, Stages
  <2>4. Held'
    BY <2>1, <2>2, SettleHeld
  <2>5. Found(ThisUri(w)) # None
    BY <2>1, NoneAssumption
  <2>6. LinksExact'
    BY <2>1, <2>2, <2>5, SettleExact
  <2> QED
    BY <2>3, <2>4, <2>6 DEF Inv
<1>2. CASE CallFails(w) \/ OpenFails(w) \/ WriteFails(w)
  <2>1. /\ stage[w] \in Calling
        /\ Settle(w, None) /\ failed' = failed \cup {ThisUri(w)}
        /\ path' = [path EXCEPT ![w] = None]
        /\ UNCHANGED <<state, queue, guard, job, file, opener, sealed, restarts>>
        /\ cut' = cut \/ (cut' = cut \cup {path[w]} /\ stage[w] = "writing")
    BY <1>2 DEF CallFails, OpenFails, WriteFails, GiveUp, Unresolved, Calling
  <2>2. ThisUri(w) \in Uri
    BY <2>1, UriAt
  <2>3. cut' \subseteq Path
    BY <2>1, <2>2 DEF Inv, TypeOK, Held, PathOfLink, Creating
  <2>4. TypeOK'
    BY <2>1, <2>2, <2>3, SettleTypes DEF Inv, TypeOK, Stages
  <2>5. \A v \in Worker \ {w} : path'[v] = path[v]
    BY <2>1 DEF Inv, TypeOK
  <2>6. Held'
    BY <2>1, <2>5, SettleHeld
  <2>7. LinksExact'
    BY <2>1, SettleExact
  <2> QED
    BY <2>4, <2>6, <2>7 DEF Inv
<1>3. CASE Seal(w)
  <2>1. /\ stage[w] = "sealing" /\ stage[w] \in Calling
        /\ Settle(w, path[w]) /\ path' = [path EXCEPT ![w] = None]
        /\ UNCHANGED <<state, queue, guard, job, file, opener, cut, failed, restarts>>
        /\ sealed' = sealed \/ sealed' = sealed \cup {path[w]}
    BY <1>3 DEF Seal, Calling
  <2>2. ThisUri(w) \in Uri
    BY <2>1, UriAt
  <2>3. path[w] \in {ThisUri(w)} \X Extension /\ file[path[w]] # "absent"
    BY <2>1 DEF Inv, Held, PathOfLink, Creating
  <2>4. path[w] \in Path /\ path[w] \in Existing(ThisUri(w)) /\ path[w] # None
    BY <2>2, <2>3, NoneAssumption DEF Existing
  <2>5. TypeOK'
    BY <2>1, <2>4, SettleTypes DEF Inv, TypeOK, Stages
  <2>6. \A v \in Worker \ {w} : path'[v] = path[v]
    BY <2>1 DEF Inv, TypeOK
  <2>7. Held'
    BY <2>1, <2>4, <2>6, SettleHeld
  <2>8. LinksExact'
    BY <2>1, <2>4, SettleExact
  <2> QED
    BY <2>5, <2>7, <2>8 DEF Inv
<1> QED
  BY <1>1, <1>2, <1>3

LEMMA FileSteps ==
    ASSUME Inv, NEW w \in Worker, NEW l \in Language,
           Miss(w) \/ CallAnswered(w, l) \/ Open(w) \/ WriteAll(w)
    PROVE Inv'
<1> USE DEF Inv, TypeOK, Goto
<1>1. stage[w] \in Calling \/ AtLink(w)
  BY DEF Miss, CallAnswered, Open, WriteAll, Calling
<1>2. ThisUri(w) \in Uri /\ job[w] \in Request /\ stage[w] \in Busy
      /\ Len(settled[job[w]]) < Len(Links[job[w]])
  BY <1>1, UriAt
<1>3. stage[w] \in Creating => path[w] \in Path
  BY <1>2 DEF Held, PathOfLink
<1>4. UNCHANGED <<settled, state, queue, job>> /\ failed' = failed
  BY DEF Miss, CallAnswered, Open, WriteAll
<1>5. \A p \in Path : file[p] # "absent" => file'[p] # "absent"
  <2>1. CASE Open(w)
    BY <2>1 DEF Open
  <2>2. CASE WriteAll(w)
    BY <2>2 DEF WriteAll, Written
  <2>3. CASE Miss(w) \/ CallAnswered(w, l)
    BY <2>3 DEF Miss, CallAnswered
  <2> QED
    BY <2>1, <2>2, <2>3
<1>6. LinksExact'
  BY <1>4, <1>5, ExactKept
<1>7. TypeOK'
  <2>1. CASE Miss(w)
    BY <2>1 DEF Miss
  <2>2. CASE CallAnswered(w, l)
    BY <1>2, <2>2 DEF CallAnswered, ExtensionOf
  <2>3. CASE Open(w)
    BY <1>3, <2>3 DEF Open, Creating
  <2>4. CASE WriteAll(w)
    <3>1. path[w] \in Path
      BY <1>3, <2>4 DEF WriteAll, Creating
    <3>2. Written(w) \subseteq {"absent", "partial", "whole"}
      BY <3>1 DEF Written
    <3> QED
      BY <2>4, <3>1, <3>2 DEF WriteAll
  <2> QED
    BY <2>1, <2>2, <2>3, <2>4
<1>8. \A v \in Worker : ThisUri(v)' = ThisUri(v)
  BY <1>4 DEF ThisUri
<1>9. \A v \in Worker \ {w} : stage'[v] = stage[v] /\ path'[v] = path[v]
  BY DEF Miss, CallAnswered, Open, WriteAll
<1>10. stage'[w] \in Calling
  BY DEF Miss, CallAnswered, Open, WriteAll, Calling
<1>11. (QueueHolds /\ JobsHeld /\ LinkLeft /\ SettledWithin)'
  <2>1. \A v \in Worker : stage'[v] \in Busy => stage[v] \in Busy
    BY <1>2, <1>9
  <2>2. \A v \in Worker : stage'[v] \in Calling => v = w \/ stage[v] \in Calling
    BY <1>9
  <2> QED
    BY <1>2, <1>4, <2>1, <2>2 DEF Held, QueueHolds, JobsHeld, LinkLeft, SettledWithin
<1>12. stage'[w] \in Creating => path'[w] \in {ThisUri(w)} \X Extension
                                 /\ (stage'[w] # "opening" => file'[path'[w]] # "absent")
  <2>1. CASE Miss(w)
    BY <2>1 DEF Miss, Creating
  <2>2. CASE CallAnswered(w, l)
    BY <1>2, <2>2 DEF CallAnswered, ExtensionOf
  <2>3. CASE Open(w)
    BY <1>2, <1>3, <2>3 DEF Open, Held, PathOfLink, Creating
  <2>4. CASE WriteAll(w)
    BY <1>2, <1>3, <1>5, <2>4 DEF WriteAll, Held, PathOfLink, Creating
  <2> QED
    BY <2>1, <2>2, <2>3, <2>4
<1>13. PathOfLink'
  <2> SUFFICES ASSUME NEW v \in Worker, stage'[v] \in Creating
               PROVE /\ path'[v] \in {ThisUri(v)} \X Extension
                     /\ stage'[v] # "opening" => file'[path'[v]] # "absent"
    BY <1>8 DEF PathOfLink
  <2>1. CASE v = w
    BY <1>12, <2>1
  <2>2. CASE v # w
    <3>1. stage[v] \in Creating /\ path'[v] = path[v] /\ stage'[v] = stage[v]
      BY <1>9, <2>2
    <3>2. ThisUri(v) \in Uri
      BY <3>1, UriAt DEF Calling, Creating
    <3> QED
      BY <1>5, <3>1, <3>2 DEF Held, PathOfLink
  <2> QED
    BY <2>1, <2>2
<1> QED
  BY <1>6, <1>7, <1>11, <1>13 DEF Held

LEMMA EndSteps ==
    ASSUME Inv, NEW w \in Worker, Panic(w) \/ FinishJob(w)
    PROVE Inv'
<1> USE DEF Inv, TypeOK, Goto
<1>1. job[w] \in Request /\ state[job[w]] = "held" /\ stage[w] \in Busy
  BY DEF Panic, FinishJob, AtLink, Held, JobsHeld, Busy
<1>2. /\ UNCHANGED <<settled, queue, path, file, failed>>
      /\ state' = [state EXCEPT ![job[w]] = "lost"] \/ state' = [state EXCEPT ![job[w]] = "given"]
      /\ stage' = [stage EXCEPT ![w] = "dead"] \/ stage' = [stage EXCEPT ![w] = "idle"]
      /\ job' = job \/ job' = [job EXCEPT ![w] = None]
  BY DEF Panic, FinishJob
<1>3. LinksExact'
  BY <1>2, ExactKept
<1>4. TypeOK'
  BY <1>1 DEF Panic, FinishJob
<1>5. \A v \in Worker \ {w} : stage'[v] = stage[v] /\ job'[v] = job[v]
  BY <1>2
<1>6. stage'[w] \notin Busy
  BY <1>2 DEF Busy
<1>7. QueueHolds'
  BY <1>1, <1>2 DEF Held, QueueHolds
<1>8. JobsHeld'
  <2>1. \A v \in Worker : stage'[v] \in Busy => v # w
    BY <1>6
  <2>2. \A v \in Worker \ {w} : stage[v] \in Busy => job[v] # job[w]
    BY <1>1 DEF Held, JobsHeld
  <2>3. \A v \in Worker \ {w} : stage[v] \in Busy => state'[job[v]] = state[job[v]]
    BY <1>2, <2>2 DEF Held, JobsHeld
  <2> QED
    BY <1>5, <2>1, <2>3 DEF Held, JobsHeld
<1>9. (LinkLeft /\ PathOfLink /\ SettledWithin)'
  BY <1>2, <1>5, <1>6 DEF Held, LinkLeft, PathOfLink, SettledWithin, ThisUri, Busy, Calling,
     Creating
<1> QED
  BY <1>3, <1>4, <1>7, <1>8, <1>9 DEF Held

LEMMA WritersPath ==
    ASSUME Inv
    PROVE BeingWritten \subseteq Path
  BY UriAt DEF BeingWritten, Inv, Held, PathOfLink, Creating, Calling

LEMMA RestartStep == ASSUME Inv, Restart PROVE Inv'
<1>1. TypeOK'
  BY WritersPath, RestartAssumption DEF Inv, TypeOK, Restart
<1>2. Held'
  BY DEF Inv, Held, Restart, QueueHolds, JobsHeld, LinkLeft, PathOfLink, SettledWithin,
     Busy, Calling, Creating
<1>3. LinksExact'
  BY ExactKept DEF Restart
<1> QED
  BY <1>1, <1>2, <1>3 DEF Inv

LEMMA InvNext == Inv /\ [Next]_vars => Inv'
<1> SUFFICES ASSUME Inv, [Next]_vars PROVE Inv'
  OBVIOUS
<1>1. ASSUME NEW r \in Request, Enqueue(r) PROVE Inv'
  BY <1>1, EnqueueStep
<1>2. ASSUME NEW w \in Worker, Materialize(w) PROVE Inv'
  BY <1>2, SettleSteps, FileSteps, EndSteps DEF Materialize
<1>3. ASSUME NEW w \in Worker, LockQueue(w) \/ Receive(w) PROVE Inv'
  BY <1>3, LockStep, ReceiveStep
<1>4. ASSUME NEW w \in Worker, FinishJob(w) PROVE Inv'
  BY <1>4, EndSteps
<1>5. CASE UNCHANGED vars
  BY <1>5 DEF vars, Inv, TypeOK, Held, QueueHolds, JobsHeld, LinkLeft, PathOfLink, SettledWithin,
     LinksExact, Existing, ThisUri
<1> QED
  BY <1>1, <1>2, <1>3, <1>4, <1>5, RestartStep DEF Next, WorkerStep

LEMMA DecompileInvariant == Spec => []Inv
  BY InvInit, InvNext, PTL DEF Spec

\* Types of the workers, their answers and the cache, for any number of them.
THEOREM DecompileTypeCorrect == Spec => []TypeOK
<1>1. Inv => TypeOK
  BY DEF Inv
<1> QED
  BY <1>1, DecompileInvariant, PTL

\* Whatever fails and whichever worker is first, an archive URI is replaced by a
\* file of that URI that is in the cache, and left as it is only after a failure.
THEOREM LinksAreExact == Spec => []LinksExact
<1>1. Inv => LinksExact
  BY DEF Inv
<1> QED
  BY <1>1, DecompileInvariant, PTL

-----------------------------------------------------------------------------
(* Incomplete files. Of several workers that write a file, the one that has  *)
(* truncated it last makes it whole.                                         *)

LastOpenerWrites ==
    \A p \in Path : file[p] = "partial" =>
        \/ p \in cut
        \/ /\ opener[p] \in Worker
           /\ stage[opener[p]] = "writing" /\ path[opener[p]] = p

LEMMA OpenerInit == Init => LastOpenerWrites
  BY DEF Init, LastOpenerWrites

LEMMA OpenerNext == Inv /\ LastOpenerWrites /\ [Next]_vars => LastOpenerWrites'
<1> SUFFICES ASSUME Inv, LastOpenerWrites, [Next]_vars PROVE LastOpenerWrites'
  OBVIOUS
<1> USE DEF LastOpenerWrites, Goto, Inv, TypeOK
<1>1. ASSUME NEW r \in Request, Enqueue(r) PROVE LastOpenerWrites'
  BY <1>1 DEF Enqueue
<1>2. ASSUME NEW w \in Worker, LockQueue(w) \/ Receive(w) \/ Panic(w) \/ Miss(w) \/ FinishJob(w)
      PROVE LastOpenerWrites'
  BY <1>2 DEF LockQueue, Receive, Panic, AtLink, Miss, FinishJob
<1>3. ASSUME NEW w \in Worker, Hit(w) PROVE LastOpenerWrites'
  BY <1>3 DEF Hit, AtLink, Settle
<1>4. ASSUME NEW w \in Worker, NEW l \in Language, CallAnswered(w, l) PROVE LastOpenerWrites'
  BY <1>4 DEF CallAnswered
<1>5. ASSUME NEW w \in Worker, CallFails(w) \/ OpenFails(w) PROVE LastOpenerWrites'
  BY <1>5 DEF CallFails, OpenFails, GiveUp, Settle
<1>6. ASSUME NEW w \in Worker, Open(w) PROVE LastOpenerWrites'
  BY <1>6 DEF Open
<1>7. ASSUME NEW w \in Worker, WriteAll(w) PROVE LastOpenerWrites'
  <2> SUFFICES ASSUME NEW p \in Path, file'[p] = "partial"
               PROVE \/ p \in cut
                     \/ /\ opener[p] \in Worker
                        /\ stage'[opener[p]] = "writing" /\ path[opener[p]] = p
    BY <1>7 DEF WriteAll
  <2>1. CASE p # path[w]
    BY <1>7, <2>1 DEF WriteAll
  <2>2. CASE p = path[w]
    BY <1>7, <2>2 DEF WriteAll, Written
  <2> QED
    BY <2>1, <2>2
<1>8. ASSUME NEW w \in Worker, WriteFails(w) PROVE LastOpenerWrites'
  BY <1>8 DEF WriteFails, GiveUp, Settle
<1>9. ASSUME NEW w \in Worker, Seal(w) PROVE LastOpenerWrites'
  BY <1>9 DEF Seal, Settle
<1>10. CASE Restart
  BY <1>10 DEF Restart, BeingWritten
<1>11. CASE UNCHANGED vars
  BY <1>11 DEF vars
<1> QED
  BY <1>1, <1>2, <1>3, <1>4, <1>5, <1>6, <1>7, <1>8, <1>9, <1>10, <1>11
     DEF Next, WorkerStep, Materialize

\* However many workers truncate and write the same file, it is incomplete only
\* while one of them writes it, or because a writing was given up.
THEOREM NoCauselessPartial == Spec => []PartialHasCause
<1>1. LastOpenerWrites => PartialHasCause
  BY DEF LastOpenerWrites, PartialHasCause, BeingWritten
<1> QED
  BY <1>1, DecompileInvariant, OpenerInit, OpenerNext, PTL DEF Spec

\* What the comment of materialize promises of the answers given to the client
\* holds file by file, and not only as long as every writing ends: a file that
\* an answer names is whole, or is being written, unless a writing of this very
\* file was given up (by a full disk, or by the end of a process, now or in an
\* earlier one). ServedWhole, without this exception, is false.
THEOREM ServedUnlessGivenUp ==
    Spec => [](\A r \in Request : state[r] = "given" =>
                  \A i \in DOMAIN settled[r] : settled[r][i] # None =>
                      \/ file[settled[r][i]] = "whole"
                      \/ settled[r][i] \in cut \cup BeingWritten)
<1> DEFINE Kept ==
        \A r \in Request : state[r] = "given" =>
            \A i \in DOMAIN settled[r] : settled[r][i] # None =>
                \/ file[settled[r][i]] = "whole"
                \/ settled[r][i] \in cut \cup BeingWritten
<1>1. Inv /\ PartialHasCause => Kept
  <2> SUFFICES ASSUME Inv, PartialHasCause,
                      NEW r \in Request, NEW i \in DOMAIN settled[r], settled[r][i] # None
               PROVE file[settled[r][i]] = "whole" \/ settled[r][i] \in cut \cup BeingWritten
    OBVIOUS
  <2>1. settled[r][i] \in Path /\ file[settled[r][i]] # "absent"
    <3>1. settled[r][i] \in Existing(Links[r][i])
      BY DEF Inv, LinksExact
    <3>2. settled[r] \in Seq(Served)
      BY DEF Inv, TypeOK
    <3> QED
      BY <3>1, <3>2 DEF Existing
  <2>2. file[settled[r][i]] \in {"absent", "partial", "whole"}
    BY <2>1 DEF Inv, TypeOK
  <2> QED
    BY <2>1, <2>2 DEF PartialHasCause
<1>2. Spec => []Kept
  <2> HIDE DEF Kept
  <2> QED
    BY <1>1, DecompileInvariant, NoCauselessPartial, PTL
<1> QED
  BY <1>2

-----------------------------------------------------------------------------
(* The refinement of Workers.                                               *)

LEMMA HandingInit == Init => Handing!Init
  BY LinksAssumption DEF Init, Handing!Init, Stored

LEMMA StoredKept == UNCHANGED file => UNCHANGED Stored
  BY DEF Stored

LEMMA SettleRefines ==
    ASSUME Inv, NEW w \in Worker, NEW r \in Served, stage[w] \in Calling \/ AtLink(w),
           Settle(w, r), UNCHANGED <<state, file>>,
           r # None => r \in Existing(ThisUri(w))
    PROVE Handing!Next
<1>1. job[w] \in Request /\ ThisUri(w) = Links[job[w]][Len(settled[job[w]]) + 1]
  BY UriAt DEF ThisUri
<1>2. r # None => r \in FilesOf(ThisUri(w)) \cap Stored
  BY UriAt DEF Existing, FilesOf, Stored
<1>3. Handing!Settle(job[w], r)
  BY <1>1, <1>2, UriAt, StoredKept DEF Settle, Handing!Settle
<1> QED
  BY <1>1, <1>3 DEF Handing!Next

LEMMA HandingNext == Inv /\ [Next]_vars => [Handing!Next]_(Handing!vars)
<1> SUFFICES ASSUME Inv, [Next]_vars PROVE Handing!Next \/ UNCHANGED <<state, settled, Stored>>
  BY DEF Handing!vars
<1> USE StoredKept DEF Inv, TypeOK
<1>1. ASSUME NEW r \in Request, Enqueue(r) PROVE Handing!Next
  BY <1>1, LinksAssumption DEF Enqueue, Handing!Next, Handing!Put, Handing!Move
<1>2. ASSUME NEW w \in Worker, LockQueue(w) \/ Miss(w) PROVE UNCHANGED <<state, settled, Stored>>
  BY <1>2 DEF LockQueue, Miss
<1>3. ASSUME NEW w \in Worker, Receive(w) PROVE Handing!Next
  <2>1. Head(queue) \in Request /\ Head(queue) = queue[1] /\ 1 \in DOMAIN queue
    BY <1>3 DEF Receive
  <2>2. state[Head(queue)] = "queued"
    BY <2>1 DEF Held, QueueHolds
  <2>3. Handing!Take(Head(queue))
    BY <1>3, <2>2 DEF Receive, Handing!Take, Handing!Move
  <2> QED
    BY <2>1, <2>3 DEF Handing!Next
<1>4. ASSUME NEW w \in Worker, Panic(w) PROVE Handing!Next
  <2>1. job[w] \in Request /\ Handing!Lose(job[w])
    BY <1>4, UriAt DEF Panic, Handing!Lose, Handing!Move
  <2> QED
    BY <2>1 DEF Handing!Next
<1>5. ASSUME NEW w \in Worker, Hit(w) PROVE Handing!Next
  <2>1. Found(ThisUri(w)) \in Existing(ThisUri(w)) /\ Found(ThisUri(w)) \in Served
    BY <1>5, UriAt, FoundExists DEF Hit
  <2> QED
    BY <1>5, <2>1, SettleRefines DEF Hit
<1>6. ASSUME NEW w \in Worker, NEW l \in Language, CallAnswered(w, l)
      PROVE UNCHANGED <<state, settled, Stored>>
  BY <1>6 DEF CallAnswered
<1>7. ASSUME NEW w \in Worker, CallFails(w) \/ OpenFails(w) \/ WriteFails(w) PROVE Handing!Next
  <2>1. stage[w] \in Calling /\ Settle(w, None) /\ UNCHANGED <<state, file>>
    BY <1>7 DEF CallFails, OpenFails, WriteFails, GiveUp, Unresolved, Calling
  <2> QED
    BY <2>1, SettleRefines
<1>8. ASSUME NEW w \in Worker, Open(w) PROVE Handing!Next
  <2>1. path[w] \in Path
    BY <1>8, UriAt DEF Open, Held, PathOfLink, Calling, Creating
  <2>2. Stored' = Stored \cup {path[w]}
    BY <1>8, <2>1 DEF Open, Stored
  <2> QED
    BY <1>8, <2>1, <2>2 DEF Open, Handing!Next, Handing!Store
<1>9. ASSUME NEW w \in Worker, WriteAll(w) PROVE UNCHANGED <<state, settled, Stored>>
  <2>1. file[path[w]] # "absent"
    BY <1>9 DEF WriteAll, Held, PathOfLink, Creating
  <2>2. \A p \in Path : file'[p] # "absent" <=> file[p] # "absent"
    BY <1>9, <2>1 DEF WriteAll, Written
  <2> QED
    BY <1>9, <2>2 DEF WriteAll, Stored
<1>10. ASSUME NEW w \in Worker, Seal(w) PROVE Handing!Next
  <2>1. stage[w] \in Calling /\ Settle(w, path[w]) /\ UNCHANGED <<state, file>>
    BY <1>10 DEF Seal, Calling
  <2>2. path[w] \in {ThisUri(w)} \X Extension /\ file[path[w]] # "absent" /\ ThisUri(w) \in Uri
    BY <1>10, <2>1, UriAt DEF Seal, Held, PathOfLink, Creating
  <2>3. path[w] \in Existing(ThisUri(w)) /\ path[w] \in Served
    BY <2>2 DEF Existing
  <2> QED
    BY <2>1, <2>3, SettleRefines
<1>11. ASSUME NEW w \in Worker, FinishJob(w) PROVE Handing!Next
  <2>1. job[w] \in Request /\ state[job[w]] = "held"
    BY <1>11 DEF FinishJob, Held, JobsHeld, Busy
  <2>2. Handing!Give(job[w])
    BY <1>11, <2>1 DEF FinishJob, Handing!Give, Handing!Move
  <2> QED
    BY <2>1, <2>2 DEF Handing!Next
<1>12. CASE Restart
  BY <1>12 DEF Restart, Handing!Next, Handing!End
<1>13. CASE UNCHANGED vars
  BY <1>13 DEF vars
<1> QED
  BY <1>1, <1>2, <1>3, <1>4, <1>5, <1>6, <1>7, <1>8, <1>9, <1>10, <1>11, <1>12, <1>13
     DEF Next, WorkerStep, Materialize

\* The workers implement Workers: an answer is given once, when all its archive
\* URIs are settled, with files that are in the cache and stay there, however
\* the file operations interleave and whenever the process ends.
THEOREM WorkersImplemented == Spec => WorkersSafety
  BY DecompileInvariant, HandingInit, HandingNext, PTL DEF Spec, Handing!Spec, WorkersSafety
=============================================================================
