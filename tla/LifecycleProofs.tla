--------------------------- MODULE LifecycleProofs ---------------------------
(***************************************************************************)
(* The cache clear, for any number of proxies and requests: what holds     *)
(* whatever dies or leaves, and what holds until the host leaves, a server *)
(* dies unasked, or five deletions in a row fail.                          *)
(***************************************************************************)
EXTENDS Lifecycle, TLAPS

USE DEF Instance, DeleteAttempts

-----------------------------------------------------------------------------
(* Types. A deletion that is being tried has an attempt left, and a request  *)
(* that was accepted knows its instance.                                    *)

AttemptLeft ==
    \A i \in Instance : reaper[i] \in {"waiting", "deleting"} => tries[i] < DeleteAttempts

AcceptedSomewhere == \A r \in Request : Accepted(r) => request[r].at \in Instance

TypeInv == TypeOK /\ AttemptLeft /\ AcceptedSomewhere

LEMMA LifecycleInit == Init => TypeInv
<1> SUFFICES ASSUME Init PROVE TypeInv
  OBVIOUS
<1>1. busy \in 0..MaxBusy /\ tries \in [Instance -> 0..DeleteAttempts]
  BY BusyAssumption DEF Init
<1>2. request \in [Request -> [stage : {"new", "refused", "calling", "notifying", "over"},
                               at : Instance \cup {0}]]
  BY DEF Init
<1>3. TypeOK
  BY <1>1, <1>2 DEF Init, TypeOK
<1> QED
  BY <1>3 DEF Init, TypeInv, AttemptLeft, AcceptedSomewhere, Accepted

LEMMA ThreadTypes ==
    ASSUME TypeInv, NEW r \in Request, NEW i \in Instance,
           Stopping(r) \/ ClearCaches(r, i)
    PROVE TypeInv'
<1> USE DEF TypeInv, TypeOK, AttemptLeft, AcceptedSomewhere, Accepted, processes, clearing
<1>1. CASE ClearCaches(r, i)
  <2>1. UNCHANGED <<processes, reaper, tries, index, busy, indexDir, session, disturbed>>
    BY <1>1 DEF ClearCaches
  <2>2. CASE Stage(r, "refused") /\ UNCHANGED <<latch, condemned>>
    BY <2>1, <2>2 DEF Stage
  <2>3. CASE /\ request' = [request EXCEPT ![r] = [stage |-> "calling", at |-> i]]
             /\ latch' = latch \cup {i}
             /\ condemned' = IF index \/ reaper[i] # "crashing" THEN condemned \cup {r}
                             ELSE condemned
    BY <2>1, <2>3
  <2> QED
    BY <1>1, <2>2, <2>3 DEF ClearCaches
<1>2. CASE EndShutdownCall(r)
  BY <1>2 DEF EndShutdownCall, Stage
<1>3. CASE SendExit(r)
  <2>1. request[r].at \in Instance
    BY <1>3 DEF SendExit
  <2> QED
    BY <1>3, <2>1 DEF SendExit, Stage, ExitSent
<1> QED
  BY <1>1, <1>2, <1>3 DEF Stopping

LEMMA ProcessTypes ==
    ASSUME TypeInv, NEW i \in Instance,
           HostStarts(i) \/ StartControl(i) \/ ServerIndexes(i) \/ LearnIndexDir(i)
             \/ ServerExits(i) \/ HostQuits(i) \/ MainExits(i) \/ Reaping(i)
    PROVE TypeInv'
<1> USE BusyAssumption
        DEF TypeInv, TypeOK, AttemptLeft, AcceptedSomewhere, Accepted, processes, clearing
<1>1. CASE HostStarts(i) \/ StartControl(i) \/ ServerIndexes(i) \/ LearnIndexDir(i)
  BY <1>1 DEF HostStarts, StartControl, ServerIndexes, LearnIndexDir
<1>2. CASE ServerExits(i) \/ HostQuits(i) \/ MainExits(i)
  BY <1>2 DEF ServerExits, HostQuits, MainExits
<1>3. CASE Reap(i) \/ DeleteIndex(i)
  BY <1>3 DEF Reap, DeleteIndex, Reaper
<1>4. CASE DeleteFails(i)
  BY <1>4 DEF DeleteFails, Reaper, LastAttempt
<1>5. CASE ReaperExits(i)
  BY <1>5 DEF ReaperExits, ExitCode
<1> QED
  BY <1>1, <1>2, <1>3, <1>4, <1>5 DEF Reaping

LEMMA LifecycleNext == TypeInv /\ [Next]_vars => TypeInv'
<1> SUFFICES ASSUME TypeInv, [Next]_vars PROVE TypeInv'
  OBVIOUS
<1>1. CASE UNCHANGED vars
  BY <1>1 DEF vars, processes, clearing, TypeInv, TypeOK, AttemptLeft, AcceptedSomewhere,
              Accepted
<1>2. Instance # {}
  BY InstanceAssumption
<1> QED
  BY <1>1, <1>2, ThreadTypes, ProcessTypes DEF Next

LEMMA TypeInvariant == Spec => []TypeInv
  BY LifecycleInit, LifecycleNext, PTL DEF Spec

\* Type correctness of the lifecycle: processes, threads and shared files are
\* always in one of the states the actions speak of.
THEOREM LifecycleTypeCorrect == Spec => []TypeOK
<1>1. TypeInv => TypeOK
  BY DEF TypeInv
<1> QED
  BY <1>1, TypeInvariant, PTL

-----------------------------------------------------------------------------
(* One proxy at a time, and a deletion that somebody asked for.              *)

OneAfterTheOther ==
    \A i, j \in Instance : i < j /\ proxy[j] # "unborn" => proxy[i] = "exited"

AskedFor ==
    \A i \in Instance :
        Up(i) /\ (reaper[i] = "deleting" \/ (reaper[i] = "waiting" /\ i \in latch))
            => i \in indexDir /\ condemned # {}

FreshProcess ==
    \A i \in Instance : proxy[i] \in {"unborn", "starting"} =>
        i \notin indexDir /\ i \notin latch /\ reaper[i] = "waiting"

Demanded == OneAfterTheOther /\ FreshProcess /\ AskedFor

LEMMA DemandedInit == Init => Demanded
  BY DEF Init, Demanded, OneAfterTheOther, FreshProcess, AskedFor, Up

LEMMA DemandedNext == TypeOK /\ Demanded /\ [Next]_vars => Demanded'
<1> SUFFICES ASSUME TypeOK, Demanded, [Next]_vars PROVE Demanded'
  OBVIOUS
<1> USE DEF TypeOK, Demanded, OneAfterTheOther, FreshProcess, AskedFor, Up,
            processes, clearing
<1>1. ASSUME NEW i \in Instance, HostStarts(i) PROVE Demanded'
  BY <1>1 DEF HostStarts
<1>2. ASSUME NEW i \in Instance, StartControl(i) PROVE Demanded'
  BY <1>2 DEF StartControl
<1>3. ASSUME NEW i \in Instance, ServerIndexes(i) \/ LearnIndexDir(i) PROVE Demanded'
  BY <1>3 DEF ServerIndexes, LearnIndexDir
<1>4. ASSUME NEW i \in Instance, ServerExits(i) \/ HostQuits(i) \/ MainExits(i)
      PROVE Demanded'
  <2>1. CASE ServerExits(i)
    BY <2>1 DEF ServerExits
  <2>2. CASE HostQuits(i)
    BY <2>2 DEF HostQuits
  <2>3. CASE MainExits(i)
    BY <2>3 DEF MainExits
  <2> QED
    BY <1>4, <2>1, <2>2, <2>3
<1>5. ASSUME NEW i \in Instance, Reap(i) PROVE Demanded'
  BY <1>5 DEF Reap, Reaper, ClearAsked
<1>6. ASSUME NEW i \in Instance, DeleteIndex(i) PROVE Demanded'
  BY <1>6 DEF DeleteIndex, Reaper
<1>7. ASSUME NEW i \in Instance, DeleteFails(i) PROVE Demanded'
  BY <1>7 DEF DeleteFails, Reaper
<1>8. ASSUME NEW i \in Instance, ReaperExits(i) PROVE Demanded'
  BY <1>8 DEF ReaperExits
<1>9. ASSUME NEW r \in Request, Stopping(r) PROVE Demanded'
  BY <1>9 DEF Stopping, EndShutdownCall, SendExit
<1>10. ASSUME NEW r \in Request, NEW i \in Instance, ClearCaches(r, i) PROVE Demanded'
  BY <1>10 DEF ClearCaches
<1>11. CASE UNCHANGED vars
  BY <1>11 DEF vars
<1> QED
  BY <1>1, <1>2, <1>3, <1>4, <1>5, <1>6, <1>7, <1>8, <1>9, <1>10, <1>11 DEF Next, Reaping

\* At most one proxy of the project runs, and it is about to delete the index it
\* knows of only after a request.
THEOREM DemandedInvariant == Spec => [](TypeOK /\ Demanded)
  BY DemandedInit, DemandedNext, LifecycleTypeCorrect, PTL DEF Spec

\* Whatever dies or leaves, an index is deleted only after a clear was accepted.
THEOREM NoUnaskedDeletion == Spec => DeletedOnDemand
<1>1. TypeOK /\ Demanded /\ [Next]_vars => [index /\ ~index' => condemned # {}]_vars
  <2> SUFFICES ASSUME TypeOK, Demanded, Next, index, ~index' PROVE condemned # {}
    OBVIOUS
  <2>1. PICK i \in Instance : DeleteIndex(i)
    BY DEF Next, HostStarts, StartControl, ServerIndexes, LearnIndexDir, ServerExits,
       HostQuits, MainExits, Reaping, Reap, DeleteFails, ReaperExits, Stopping,
       EndShutdownCall, SendExit, ClearCaches, clearing
  <2> QED
    BY <2>1 DEF DeleteIndex, Demanded, AskedFor, Up
<1> QED
  BY <1>1, DemandedInvariant, PTL DEF Spec, DeletedOnDemand

-----------------------------------------------------------------------------
(* As long as nothing disturbs: the host stays, the server exits only when    *)
(* it is told, and files are not in use for all five attempts.               *)

Promised(i) == \E r \in Request : Accepted(r) /\ request[r].at = i

ToldForAReason == \A i \in told : proxy[i] = "exited" \/ Promised(i)

ExitsWhenTold == \A i \in Instance : server[i] = "exited" => i \in told

LatchHeld ==
    \A i \in Instance : Promised(i) =>
        proxy[i] \in {"up", "exited"} /\ (Up(i) /\ reaper[i] = "waiting" => i \in latch)

AlwaysCleared ==
    /\ \A i \in Instance : reaper[i] # "relaying"
    /\ \A i \in Instance : reaper[i] = "crashing" /\ Up(i) => ~index /\ condemned = {}
    /\ \A i \in Instance : proxy[i] = "exited" => code[i] = 1

ServerHasProxy ==
    \A i \in Instance : server[i] = "running" =>
        proxy[i] \in {"starting", "up"} /\ reaper[i] = "waiting"

ClearInHand ==
    condemned # {} => \E i \in Instance : Up(i) /\ reaper[i] \in {"waiting", "deleting"}

Calm ==
    /\ eof = {}
    /\ ToldForAReason /\ ExitsWhenTold /\ LatchHeld
    /\ AlwaysCleared /\ ServerHasProxy /\ ClearInHand

Undisturbed == disturbed = {} => Calm

LEMMA CalmInit == Init => Calm
<1> SUFFICES ASSUME Init PROVE Calm
  OBVIOUS
<1>1. \A i \in Instance : ~Promised(i)
  BY DEF Init, Promised, Accepted
<1> QED
  BY <1>1 DEF Init, Calm, ToldForAReason, ExitsWhenTold, LatchHeld, AlwaysCleared,
     ServerHasProxy, ClearInHand, Up

LEMMA OneRuns ==
    ASSUME OneAfterTheOther, NEW i \in Instance, NEW j \in Instance,
           proxy[i] \notin {"unborn", "exited"}, proxy[j] # "exited"
    PROVE  j = i \/ proxy[j] = "unborn"
<1>1. i < j \/ j < i \/ i = j
  BY InstanceAssumption
<1> QED
  BY <1>1 DEF OneAfterTheOther

LEMMA CalmNext ==
    /\ TypeInv /\ OneAfterTheOther /\ FreshProcess /\ Calm /\ disturbed' = {}
    /\ [Next]_vars
    => Calm'
<1> SUFFICES ASSUME TypeInv, OneAfterTheOther, FreshProcess, Calm, disturbed' = {}, [Next]_vars
             PROVE  Calm'
  OBVIOUS
<1> USE DEF TypeInv, TypeOK, Calm, ToldForAReason, ExitsWhenTold, LatchHeld, AlwaysCleared,
            ServerHasProxy, ClearInHand, Up, processes, clearing
<1>0. ASSUME UNCHANGED request, NEW i PROVE Promised(i)' <=> Promised(i)
  BY <1>0 DEF Promised, Accepted
<1>1. ASSUME NEW i \in Instance, HostStarts(i) PROVE Calm'
  BY <1>0, <1>1 DEF HostStarts, FreshProcess
<1>2. ASSUME NEW i \in Instance, StartControl(i) PROVE Calm'
  <2>1. ~Promised(i)
    BY <1>2 DEF StartControl
  <2> QED
    BY <1>0, <1>2, <2>1 DEF StartControl, FreshProcess
<1>3. ASSUME NEW i \in Instance, ServerIndexes(i) PROVE Calm'
  BY <1>0, <1>3, OneRuns DEF ServerIndexes
<1>4. ASSUME NEW i \in Instance, LearnIndexDir(i) PROVE Calm'
  BY <1>0, <1>4 DEF LearnIndexDir
<1>5. ASSUME NEW i \in Instance, ServerExits(i) PROVE Calm'
  BY <1>0, <1>5 DEF ServerExits
<1>6. ASSUME NEW i \in Instance, HostQuits(i) \/ MainExits(i) PROVE Calm'
  BY <1>6 DEF HostQuits, MainExits
<1>7. ASSUME NEW i \in Instance, Reap(i) PROVE Calm'
  BY <1>0, <1>7 DEF Reap, Reaper, ClearAsked, Reapable
<1>8. ASSUME NEW i \in Instance, DeleteIndex(i) PROVE Calm'
  BY <1>0, <1>8 DEF DeleteIndex, Reaper
<1>9. ASSUME NEW i \in Instance, DeleteFails(i) PROVE Calm'
  <2>1. LastAttempt(i) => ~index
    BY <1>9 DEF DeleteFails, LastAttempt
  <2> QED
    BY <1>0, <1>9, <2>1 DEF DeleteFails, Reaper
<1>10. ASSUME NEW i \in Instance, ReaperExits(i) PROVE Calm'
  BY <1>0, <1>10 DEF ReaperExits, ExitCode
<1>11. ASSUME NEW r \in Request, EndShutdownCall(r) PROVE Calm'
  <2>1. \A j : Promised(j)' <=> Promised(j)
    BY <1>11 DEF EndShutdownCall, Stage, Promised, Accepted
  <2> QED
    BY <1>11, <2>1 DEF EndShutdownCall
<1>12. ASSUME NEW r \in Request, SendExit(r) PROVE Calm'
  <2>1. \A j : Promised(j)' <=> Promised(j)
    BY <1>12 DEF SendExit, Stage, Promised, Accepted
  <2>2. Promised(request[r].at)
    BY <1>12 DEF SendExit, Promised, Accepted
  <2> QED
    BY <1>12, <2>1, <2>2 DEF SendExit, ExitSent
<1>13. ASSUME NEW r \in Request, NEW i \in Instance, ClearCaches(r, i) PROVE Calm'
  <2>1. \A j : Promised(j)' => Promised(j) \/ (j = i /\ i \in latch')
    BY <1>13 DEF ClearCaches, Stage, Promised, Accepted
  <2>2. \A j : Promised(j) => Promised(j)'
    BY <1>13 DEF ClearCaches, Stage, Promised, Accepted
  <2>3. latch \subseteq latch' /\ Up(i)
    BY <1>13 DEF ClearCaches
  <2>4. condemned' = condemned \/ index \/ reaper[i] # "crashing"
    BY <1>13 DEF ClearCaches
  <2>5. UNCHANGED <<processes, reaper, tries, index, busy>>
    BY <1>13 DEF ClearCaches
  <2>6. CASE condemned' = condemned
    BY <2>1, <2>2, <2>3, <2>5, <2>6
  <2>7. CASE reaper[i] \in {"waiting", "deleting"}
    <3>1. \A j \in Instance : Up(j) => j = i
      BY <2>3, OneRuns
    <3>2. AlwaysCleared'
      BY <2>5, <2>7, <3>1
    <3> QED
      BY <2>1, <2>2, <2>3, <2>5, <2>7, <3>2
  <2>8. index \/ reaper[i] # "crashing" => reaper[i] \in {"waiting", "deleting"}
    BY <2>3
  <2> QED
    BY <2>4, <2>6, <2>7, <2>8
<1>14. CASE UNCHANGED vars
  BY <1>0, <1>14 DEF vars
<1> QED
  BY <1>1, <1>2, <1>3, <1>4, <1>5, <1>6, <1>7, <1>8, <1>9, <1>10, <1>11, <1>12, <1>13, <1>14
     DEF Next, Reaping, Stopping

LEMMA DisturbancesStay == [Next]_vars => disturbed \subseteq disturbed'
  BY DEF Next, HostStarts, StartControl, ServerIndexes, LearnIndexDir, ServerExits,
     HostQuits, MainExits, Reaping, Reap, DeleteIndex, DeleteFails, ReaperExits, Stopping,
     EndShutdownCall, SendExit, ClearCaches, vars

\* Until something disturbs, a server has its proxy, exits because a clear was
\* promised, and the proxy then deletes the index and exits as after a crash.
THEOREM CalmInvariant == Spec => [](TypeInv /\ Demanded /\ Undisturbed)
<1>1. Init => Undisturbed
  BY CalmInit DEF Undisturbed
<1>2. TypeInv /\ Demanded /\ Undisturbed /\ [Next]_vars => Undisturbed'
  BY CalmNext, DisturbancesStay DEF Demanded, Undisturbed
<1> QED
  BY <1>1, <1>2, TypeInvariant, DemandedInvariant, PTL DEF Spec

\* Until something disturbs, a proxy that promised a restart ends with the code of
\* a crash.
THEOREM CrashIsSeen == Spec => []PromisedCrash
<1>1. TypeInv /\ Undisturbed => PromisedCrash
  BY DEF TypeInv, AcceptedSomewhere, Undisturbed, Calm, AlwaysCleared, PromisedCrash
<1> QED
  BY <1>1, CalmInvariant, PTL

\* Until something disturbs, no server is running when the index is deleted.
THEOREM ClosedIndex == Spec => ReleasedBeforeDelete
<1>1. TypeInv /\ Demanded /\ Undisturbed /\ [Next]_vars
        => [index /\ ~index' /\ disturbed = {} => \A i \in Instance : server[i] # "running"]_vars
  <2> SUFFICES ASSUME TypeInv, Demanded, Undisturbed, Next, index, ~index', disturbed = {},
                      NEW j \in Instance
               PROVE  server[j] # "running"
    OBVIOUS
  <2>1. PICK i \in Instance : DeleteIndex(i)
    BY DEF Next, HostStarts, StartControl, ServerIndexes, LearnIndexDir, ServerExits,
       HostQuits, MainExits, Reaping, Reap, DeleteFails, ReaperExits, Stopping,
       EndShutdownCall, SendExit, ClearCaches, clearing
  <2>2. j = i \/ proxy[j] \in {"unborn", "exited"}
    BY <2>1, OneRuns DEF DeleteIndex, Up, Demanded
  <2> QED
    BY <2>1, <2>2 DEF DeleteIndex, Undisturbed, Calm, ServerHasProxy
<1> QED
  BY <1>1, CalmInvariant, PTL DEF Spec, ReleasedBeforeDelete

\* Until something disturbs, the server that is started after a promised clear
\* finds no index of before the request.
THEOREM NewIndex == Spec => FreshRestart
<1>1. TypeInv /\ Demanded /\ Undisturbed /\ [Next]_vars
        => [\A i \in Instance : StartsOnOld(i) => disturbed # {}]_vars
  <2> SUFFICES ASSUME TypeInv, Demanded, Undisturbed, Next, NEW i \in Instance,
                      server[i] = "unborn", server'[i] = "running", disturbed = {}
               PROVE  condemned = {}
    BY DEF StartsOnOld
  <2>1. HostStarts(i)
    BY DEF Next, HostStarts, StartControl, ServerIndexes, LearnIndexDir, ServerExits,
       HostQuits, MainExits, Reaping, Reap, DeleteIndex, DeleteFails, ReaperExits, Stopping,
       EndShutdownCall, SendExit, ClearCaches, clearing, processes, TypeInv, TypeOK
  <2>2. ASSUME NEW j \in Instance PROVE ~Up(j)
    <3>1. i < j \/ j < i \/ i = j
      BY InstanceAssumption
    <3> QED
      BY <2>1, <3>1 DEF HostStarts, Up, Demanded, OneAfterTheOther
  <2> QED
    BY <2>2 DEF Undisturbed, Calm, ClearInHand
<1> QED
  BY <1>1, CalmInvariant, PTL DEF Spec, FreshRestart
=============================================================================
