---------------------------- MODULE InstallProofs ----------------------------
(***************************************************************************)
(* Installation, for any number of processes and crashes: the types, what  *)
(* the lock gives until an installer that still runs loses it, also to who *)
(* goes on after a crash, and what a process that reports success can rely *)
(* on.                                                                     *)
(***************************************************************************)
EXTENDS Install, TLAPS

USE DEF Attempts

-----------------------------------------------------------------------------
(* Types.                                                                   *)

LEMMA InstallTypesInit == Init => TypeOK
<1> SUFFICES ASSUME Init PROVE TypeOK
  OBVIOUS
<1>1. pc \in [Installer -> Inside \cup {"idle", "waiting", "stealing", "ok", "failed"}]
  BY DEF Init
<1>2. attempt \in [Installer -> 0..Attempts] /\ result \in [Installer -> {"ok", "failed"}]
  BY DEF Init
<1>3. crashes \in 0..MaxCrashes
  BY CrashAssumption DEF Init
<1> QED
  BY <1>1, <1>2, <1>3 DEF Init, TypeOK

LEMMA LockTypes ==
    ASSUME TypeOK, NEW i \in Installer,
           Resolve(i) \/ Acquire(i) \/ CannotLock(i) \/ SeeStale(i) \/ RemoveStale(i)
             \/ StaleStays(i) \/ TimedOut(i) \/ Release(i) \/ Crash(i)
    PROVE TypeOK'
<1> USE DEF TypeOK, locking, staging, Goto, Inside
<1>1. CASE Resolve(i)
  BY <1>1 DEF Resolve
<1>2. CASE Acquire(i)
  BY <1>2 DEF Acquire
<1>3. CASE CannotLock(i) \/ SeeStale(i) \/ RemoveStale(i) \/ StaleStays(i) \/ TimedOut(i)
  BY <1>3 DEF CannotLock, SeeStale, RemoveStale, StaleStays, TimedOut, GiveUp, Unlock
<1>4. CASE Release(i)
  <2>1. /\ lock' \in Installer \cup {None} /\ stale' \in BOOLEAN /\ early' \subseteq Installer
        /\ kept' \subseteq {"archive", "extract", "lock"}
    BY <1>4 DEF Release, DropLock, Unlock
  <2>2. /\ pc' \in [Installer -> Inside \cup {"idle", "waiting", "stealing", "ok", "failed"}]
        /\ attempt' \in [Installer -> 0..Attempts] /\ result' \in [Installer -> {"ok", "failed"}]
    BY <1>4 DEF Release, Forget
  <2> QED
    BY <1>4, <2>1, <2>2 DEF Release
<1>5. CASE Crash(i)
  BY <1>5, CrashAssumption DEF Crash, Forget
<1> QED
  BY <1>1, <1>2, <1>3, <1>4, <1>5

LEMMA StepTypes ==
    ASSUME TypeOK, NEW i \in Installer,
           Stage(i) \/ Download(i) \/ Verify(i) \/ Unpack(i) \/ CleanUp(i)
    PROVE TypeOK'
<1> USE DEF TypeOK, locking, staging, Goto, Decide, Inside
<1>1. CASE Stage(i)
  <2>1. /\ pc' \in [Installer -> Inside \cup {"idle", "waiting", "stealing", "ok", "failed"}]
        /\ attempt' \in [Installer -> 0..Attempts] /\ result' \in [Installer -> {"ok", "failed"}]
    BY <1>1 DEF Stage
  <2>2. /\ kept' \subseteq {"archive", "extract", "lock"}
        /\ extract' \in {"absent", "empty", "partial", "whole"}
    BY <1>1 DEF Stage
  <2> QED
    BY <1>1, <2>1, <2>2 DEF Stage
<1>2. CASE StartDownload(i)
  BY <1>2 DEF StartDownload, Tarring
<1>3. ASSUME NEW content \in {"complete", "corrupt"}, EndDownload(i, content) PROVE TypeOK'
  BY <1>3 DEF EndDownload
<1>4. CASE FailDownload(i)
  BY <1>4 DEF FailDownload, MoreAttempts
<1>5. CASE Verify(i)
  BY <1>5 DEF Verify, RemoveArchive
<1>6. CASE StartTar(i)
  BY <1>6 DEF StartTar
<1>7. CASE EndTar(i)
  BY <1>7 DEF EndTar
<1>8. CASE FailTar(i)
  BY <1>8 DEF FailTar
<1>9. CASE MoveServer(i)
  BY <1>9 DEF MoveServer, Renamed, AfterMoveError, LauncherExists, Tarring
<1>10. CASE MakeExecutable(i)
  BY <1>10 DEF MakeExecutable
<1>11. CASE CleanUp(i)
  BY <1>11 DEF CleanUp, RemoveArchive, RemoveStaging, Tarring
<1> QED
  BY <1>1, <1>2, <1>3, <1>4, <1>5, <1>6, <1>7, <1>8, <1>9, <1>10, <1>11 DEF Download, Unpack

LEMMA InstallTypesNext == TypeOK /\ [Next]_vars => TypeOK'
<1> SUFFICES ASSUME TypeOK, [Next]_vars PROVE TypeOK'
  OBVIOUS
<1>1. ASSUME NEW i \in Installer, Resolve(i) \/ CannotLock(i) \/ Step(i) \/ Crash(i)
      PROVE TypeOK'
  BY <1>1, LockTypes, StepTypes DEF Step
<1>2. CASE LockAges
  BY <1>2 DEF LockAges, TypeOK, staging
<1>3. CASE UNCHANGED vars
  BY <1>3 DEF vars, locking, staging, TypeOK
<1> QED
  BY <1>1, <1>2, <1>3 DEF Next

\* Type correctness of the installation: the shared directory and the processes
\* are always in one of the states the actions speak of.
THEOREM InstallTypeCorrect == Spec => []TypeOK
  BY InstallTypesInit, InstallTypesNext, PTL DEF Spec

-----------------------------------------------------------------------------
(* Until a running installer loses its lock. Only the process that made the *)
(* lock directory is inside, and who writes to the archive is there; where  *)
(* one has died, the next takes over its lock, and the files it has left do *)
(* not spoil what the next one makes.                                       *)

\* What the owner finds at each point.
Staged(i) ==
    /\ pc[i] \in Inside \ {"locked", "moved", "cleaning", "releasing"} => server = "absent"
    /\ pc[i] = "downloading" => writing = {i}
    /\ pc[i] \in {"verified", "extracting"} => archive = "complete"
    /\ pc[i] = "extracted" => extract = "whole"

\* Where nobody has died the lock has an owner inside, or one that could not
\* remove it, and so it is with what is left over.
Tidy ==
    /\ (\A i \in Installer : pc[i] \notin Inside) => Left \subseteq kept
    /\ \A i \in Installer : lock = i => pc[i] \in Inside \/ "lock" \in kept
    /\ \A i \in Installer : pc[i] \in {"locked", "releasing"} => Left \subseteq kept

OwnerInside ==
    /\ \A i \in Installer : pc[i] \in Inside => lock = i
    /\ \A i \in writing : pc[i] = "downloading"

Alone ==
    /\ OwnerInside
    /\ \A i \in Installer : Staged(i)
    /\ server # "partial"
    /\ crashes = 0 => Tidy

UntilTakeover == ~takenOver => Alone

LEMMA AloneInit == Init => UntilTakeover
  BY NobodyAssumption DEF Init, UntilTakeover, Alone, OwnerInside, Tidy, Left, Staged, Inside

LEMMA LockAlone ==
    ASSUME TypeOK, Alone, ~takenOver', NEW i \in Installer,
           Resolve(i) \/ Acquire(i) \/ CannotLock(i) \/ SeeStale(i) \/ RemoveStale(i)
             \/ StaleStays(i) \/ TimedOut(i) \/ Release(i) \/ Crash(i)
    PROVE Alone'
<1> USE NobodyAssumption
    DEF TypeOK, Alone, OwnerInside, Tidy, Left, Staged, Inside,
        locking, staging, Goto
<1>1. CASE Resolve(i)
  BY <1>1 DEF Resolve
<1>2. CASE Acquire(i)
  BY <1>2 DEF Acquire, Creatable
<1>3. CASE SeeStale(i) \/ StaleStays(i)
  BY <1>3 DEF SeeStale, StaleStays
<1>4. CASE RemoveStale(i)
  <2>1. lock \notin Installing /\ lock' = None /\ pc[i] = "stealing"
    BY <1>4 DEF RemoveStale, Unlock
  <2>2. \A j \in Installer : pc[j] \notin Inside
    BY <2>1 DEF Installing
  <2> QED
    BY <1>4, <2>1, <2>2 DEF RemoveStale, Unlock
<1>5. CASE CannotLock(i) \/ TimedOut(i)
  BY <1>5 DEF CannotLock, TimedOut, GiveUp
<1>7. CASE Release(i)
  <2>1. CASE Unlock
    BY <1>7, <2>1 DEF Release, Unlock
  <2>2. CASE kept' = kept \cup {"lock"} /\ UNCHANGED <<lock, stale, early>>
    BY <1>7, <2>2 DEF Release
  <2> QED
    BY <1>7, <2>1, <2>2 DEF Release, DropLock
<1>6. CASE Crash(i)
  BY <1>6, CrashAssumption DEF Crash
<1> QED
  BY <1>1, <1>2, <1>3, <1>4, <1>5, <1>6, <1>7

LEMMA StepAlone ==
    ASSUME TypeOK, Alone, ~takenOver', NEW i \in Installer,
           Stage(i) \/ Download(i) \/ Verify(i) \/ Unpack(i) \/ CleanUp(i)
    PROVE Alone'
<1> USE NobodyAssumption
    DEF TypeOK, Alone, OwnerInside, Tidy, Left, Staged, Inside,
        locking, staging, Goto
<1>1. CASE Stage(i)
  BY <1>1 DEF Stage, Decide, WonByAnother, LauncherExists
<1>2. CASE StartDownload(i)
  BY <1>2 DEF StartDownload
<1>3. ASSUME NEW content \in {"complete", "corrupt"}, EndDownload(i, content) PROVE Alone'
  BY <1>3 DEF EndDownload
<1>4. CASE FailDownload(i)
  BY <1>4 DEF FailDownload
<1>5. CASE Verify(i)
  BY <1>5 DEF Verify, ChecksumFits, RemoveArchive
<1>6. CASE StartTar(i)
  BY <1>6 DEF StartTar
<1>7. CASE EndTar(i)
  BY <1>7 DEF EndTar, Tarring
<1>8. CASE FailTar(i)
  BY <1>8 DEF FailTar
<1>9. CASE MoveServer(i)
  BY <1>9 DEF MoveServer, Renamed, AfterMoveError, LauncherExists
<1>10. CASE MakeExecutable(i)
  BY <1>10 DEF MakeExecutable
<1>11. CASE CleanUp(i)
  BY <1>11 DEF CleanUp, RemoveArchive, RemoveStaging
<1> QED
  BY <1>1, <1>2, <1>3, <1>4, <1>5, <1>6, <1>7, <1>8, <1>9, <1>10, <1>11 DEF Download, Unpack

LEMMA AloneNext == TypeOK /\ UntilTakeover /\ [Next]_vars => UntilTakeover'
<1> SUFFICES ASSUME TypeOK, UntilTakeover, [Next]_vars, ~takenOver' PROVE Alone'
  BY DEF UntilTakeover
<1>1. ~takenOver
  <2>1. ASSUME NEW i \in Installer, Resolve(i) \/ CannotLock(i) \/ Step(i) \/ Crash(i)
        PROVE ~takenOver
    BY <2>1 DEF Resolve, CannotLock, Step, Crash, Acquire, SeeStale, RemoveStale, StaleStays,
       TimedOut, Release, Stage, Download, StartDownload, FailDownload, EndDownload, Verify,
       Unpack, StartTar, EndTar, FailTar, MoveServer, MakeExecutable, CleanUp, locking, TypeOK
  <2> QED
    BY <2>1 DEF Next, LockAges, vars, locking
<1>2. Alone
  BY <1>1 DEF UntilTakeover
<1>3. ASSUME NEW i \in Installer, Resolve(i) \/ CannotLock(i) \/ Step(i) \/ Crash(i)
      PROVE Alone'
  BY <1>2, <1>3, LockAlone, StepAlone DEF Step
<1>4. CASE LockAges
  BY <1>2, <1>4 DEF LockAges, staging, Alone, OwnerInside, Tidy, Left, Staged
<1>5. CASE UNCHANGED vars
  BY <1>2, <1>5 DEF vars, locking, staging, Alone, OwnerInside, Tidy, Left, Staged
<1> QED
  BY <1>3, <1>4, <1>5 DEF Next

\* The invariant of an installation until a running installer loses its lock: the
\* owner of the lock, and nobody else, is inside, and whatever those who died have
\* left, it finds its own work at every step.
THEOREM AloneInvariant == Spec => [](TypeOK /\ UntilTakeover)
  BY AloneInit, AloneNext, InstallTypesInit, InstallTypesNext, PTL DEF Spec

\* Until a running installer loses its lock, at most one process is between acquire
\* and drop, however many there are, whoever dies, whose lock is taken over then,
\* and however slow they are.
THEOREM OneInstaller == Spec => []ExclusiveUntilTakeover
<1>1. UntilTakeover => ExclusiveUntilTakeover
  BY DEF UntilTakeover, Alone, OwnerInside, ExclusiveUntilTakeover, Exclusive, Installing
<1> QED
  BY <1>1, AloneInvariant, PTL

\* Until then the directory that later starts accept is whole, although downloads
\* fail, archives are corrupt, tar is cut short, installers die and others go on
\* from the archive and the staging directory they left.
THEOREM WholeServer == Spec => []ServerWhole
<1>1. UntilTakeover => ServerWhole
  BY DEF UntilTakeover, Alone, ServerWhole
<1> QED
  BY <1>1, AloneInvariant, PTL

\* When nobody installs and nobody has died, a lock, an archive or a staging
\* directory is left only where the last attempt to remove it has failed, on
\* whichever path the installers came out.
THEOREM NothingLeftBehind == Spec => []NothingLeft
<1>1. TypeOK /\ UntilTakeover => NothingLeft
  BY DEF TypeOK, UntilTakeover, Alone, OwnerInside, Tidy, NothingLeft, Installing
<1> QED
  BY <1>1, AloneInvariant, PTL

\* Until a running installer loses its lock the archive is downloaded only while there
\* is no server: who comes late finds the launcher under the lock.
THEOREM DownloadedOnce == Spec => OneDownload
<1>1. TypeOK /\ UntilTakeover /\ [Next]_vars
        => [\A i \in Installer :
               pc[i] = "download" /\ pc'[i] = "downloading" /\ ~takenOver
                 => ~LauncherExists]_vars
  BY DEF UntilTakeover, Alone, Staged, Inside, LauncherExists
<1> QED
  BY <1>1, AloneInvariant, PTL DEF Spec, OneDownload

-----------------------------------------------------------------------------
(* Without any condition: a server directory never goes away, so a process   *)
(* that has seen or made one can rely on it.                                *)

LEMMA ServerKept == TypeOK /\ [Next]_vars /\ LauncherExists => server' = server
<1> SUFFICES ASSUME TypeOK, Next, LauncherExists PROVE server' = server
  BY DEF vars
<1>1. ASSUME NEW i \in Installer, Step(i) PROVE server' = server
  BY <1>1 DEF Step, Acquire, SeeStale, RemoveStale, StaleStays, TimedOut, Release, Stage,
     Download, StartDownload, FailDownload, EndDownload, Verify, Unpack, StartTar, EndTar,
     FailTar, MoveServer, MakeExecutable, CleanUp, Renamed
<1> QED
  BY <1>1 DEF Next, Resolve, CannotLock, Crash, LockAges

\* Once installed, a server directory is never replaced or taken away under a
\* running server, whatever locks are taken over and whoever dies.
THEOREM InstalledStays == Spec => ServerStays
<1>1. TypeOK /\ [Next]_vars => [LauncherExists => server' = server]_vars
  BY ServerKept
<1> QED
  BY <1>1, InstallTypeCorrect, PTL DEF Spec, ServerStays

\* A result of "ok" that is still to be returned has a launcher behind it.
DecidedExists ==
    \A i \in Installer :
        pc[i] = "moved" \/ (pc[i] \in {"cleaning", "releasing"} /\ result[i] = "ok")
            => LauncherExists

Resolved == ResolvedExists /\ DecidedExists

LEMMA ResolvedInit == Init => Resolved
  BY DEF Init, Resolved, ResolvedExists, DecidedExists

LEMMA ResolvedStep ==
    ASSUME TypeOK, Resolved, NEW i \in Installer, Step(i)
    PROVE Resolved'
<1> USE DEF Resolved, ResolvedExists, DecidedExists, LauncherExists, TypeOK, Goto, Decide
<1>1. CASE \/ Acquire(i) \/ SeeStale(i) \/ RemoveStale(i) \/ StaleStays(i) \/ TimedOut(i)
           \/ Release(i) \/ CleanUp(i)
  BY <1>1 DEF Acquire, SeeStale, RemoveStale, StaleStays, TimedOut, GiveUp, Release, Forget,
     CleanUp
<1>2. CASE Stage(i)
  BY <1>2 DEF Stage, WonByAnother
<1>3. CASE Download(i) \/ Verify(i)
  BY <1>3 DEF Download, StartDownload, FailDownload, EndDownload, Verify
<1>4. CASE StartTar(i) \/ EndTar(i) \/ FailTar(i)
  BY <1>4 DEF StartTar, EndTar, FailTar
<1>5. CASE MoveServer(i)
  BY <1>5 DEF MoveServer, AfterMoveError, Renamed
<1>6. CASE MakeExecutable(i)
  BY <1>6 DEF MakeExecutable
<1> QED
  BY <1>1, <1>2, <1>3, <1>4, <1>5, <1>6 DEF Step, Unpack

LEMMA ResolvedNext == TypeOK /\ Resolved /\ [Next]_vars => Resolved'
<1> SUFFICES ASSUME TypeOK, Resolved, [Next]_vars PROVE Resolved'
  OBVIOUS
<1> USE DEF Resolved, ResolvedExists, DecidedExists, LauncherExists
<1>1. ASSUME NEW i \in Installer, Resolve(i) \/ CannotLock(i) \/ Crash(i) PROVE Resolved'
  BY <1>1 DEF Resolve, CannotLock, GiveUp, Crash, Forget, Goto, TypeOK
<1>2. CASE LockAges \/ UNCHANGED vars
  BY <1>2 DEF LockAges, vars
<1> QED
  BY <1>1, <1>2, ResolvedStep DEF Next

\* A process that reports success has a launcher to start, also when a race for
\* the directory was lost, a lock was taken over or somebody died.
THEOREM SuccessIsReal == Spec => []ResolvedExists
<1>1. Resolved => ResolvedExists
  BY DEF Resolved
<1> QED
  BY <1>1, ResolvedInit, ResolvedNext, InstallTypeCorrect, PTL DEF Spec
=============================================================================
