------------------------------- MODULE Install -------------------------------
(***************************************************************************)
(* Acquisition of the backend (extension/src/server.rs): extension         *)
(* processes that share the working directory, each resolving the server   *)
(* directory and installing it under a lock directory.                     *)
(*                                                                         *)
(* The file system is shared: the lock, the downloaded archive, the        *)
(* staging directory and the server directory have one path each. Where    *)
(* the launcher is in a directory but other files are not, it is "partial".*)
(***************************************************************************)
EXTENDS Naturals

CONSTANTS
    Installer,   \* extension processes
    MaxCrashes,  \* bound on crashes
    None

Attempts == 3

ASSUME CrashAssumption == MaxCrashes \in Nat
ASSUME NobodyAssumption == None \notin Installer

VARIABLES
    pc,        \* where each process is in resolve_server_dir
    attempt,   \* attempt[i]: the download attempt of i
    result,    \* result[i]: what i returns after cleaning up
    lock,      \* the process that made the lock directory
    stale,     \* the lock directory is older than LOCK_STALE_AFTER
    early,     \* processes that wait since before the lock was made
    takenOver, \* history: a lock was removed as stale while its owner installed
    kept,      \* history: what the last one to install could not remove
    archive,   \* the file at archive_path
    writing,   \* processes downloading into that very file
    extract,   \* the staging directory
    cut,       \* processes whose tar has lost its input or its directory
    server,    \* servers/<version>
    crashes

locking == <<lock, stale, early, takenOver, kept>>
staging == <<archive, writing, extract, cut>>
vars == <<pc, attempt, result, locking, staging, server, crashes>>

Init ==
    /\ pc = [i \in Installer |-> "idle"]
    /\ attempt = [i \in Installer |-> 0]
    /\ result = [i \in Installer |-> "failed"]
    /\ lock = None /\ stale = FALSE /\ early = {} /\ takenOver = FALSE /\ kept = {}
    /\ archive = "absent" /\ writing = {}
    /\ extract = "absent" /\ cut = {}
    /\ server = "absent" /\ crashes = 0

Goto(i, label) == pc' = [pc EXCEPT ![i] = label]

Decide(i, r) == result' = [result EXCEPT ![i] = r]

\* The local state is gone.
Forget(i) ==
    attempt' = [attempt EXCEPT ![i] = 0] /\ result' = [result EXCEPT ![i] = "failed"]

LauncherExists == server # "absent"

\* The stretch of download_and_install that runs under the lock.
Inside == {"locked", "download", "downloading", "downloaded", "verified",
           "extracting", "extracted", "moved", "cleaning", "releasing"}

Installing == {i \in Installer : pc[i] \in Inside}

Tarring == {i \in Installer : pc[i] = "extracting"}

\* The extension is asked for the command of the server.
Resolve(i) ==
    /\ pc[i] \in {"idle", "ok", "failed"}
    /\ IF LauncherExists THEN Goto(i, "ok") ELSE Goto(i, "waiting")
    /\ UNCHANGED <<attempt, result, locking, staging, server, crashes>>

-----------------------------------------------------------------------------
(* InstallLock.                                                             *)

\* Bug: create_dir_all, which accepts a directory that is there already.
AnyDirectory == TRUE

\* create_dir fails when the directory exists.
Creatable == lock = None

Acquire(i) ==
    /\ pc[i] = "waiting" /\ Creatable
    /\ lock' = i /\ stale' = FALSE
    /\ early' = {j \in Installer \ {i} : pc[j] \in {"waiting", "stealing"}}
    /\ Goto(i, "locked")
    /\ UNCHANGED <<attempt, result, takenOver, kept, staging, server, crashes>>

GiveUp(i) == Goto(i, "failed") /\ early' = early \ {i}

\* The directory of the locks cannot be made, or create_dir fails for another
\* reason than a lock until the deadline has passed.
CannotLock(i) ==
    /\ pc[i] = "waiting"
    /\ GiveUp(i)
    /\ UNCHANGED <<attempt, result, lock, stale, takenOver, kept, staging, server, crashes>>

\* Bug: a lock left by a crash is never taken over.
NeverStale == FALSE

IsStale == lock # None /\ stale

SeeStale(i) ==
    /\ pc[i] = "waiting" /\ IsStale
    /\ Goto(i, "stealing")
    /\ UNCHANGED <<attempt, result, locking, staging, server, crashes>>

Unlock == lock' = None /\ stale' = FALSE /\ early' = {} /\ kept' = kept \ {"lock"}

\* remove_dir_all of whatever lock directory there is by now.
RemoveStale(i) ==
    /\ pc[i] = "stealing"
    /\ takenOver' = (takenOver \/ lock \in Installing)
    /\ Unlock
    /\ Goto(i, "waiting")
    /\ UNCHANGED <<attempt, result, staging, server, crashes>>

\* The error of remove_dir_all is ignored: around again, at once, and past the
\* look at the deadline.
StaleStays(i) ==
    /\ pc[i] = "stealing" /\ lock # None
    /\ Goto(i, "waiting")
    /\ UNCHANGED <<attempt, result, locking, staging, server, crashes>>

\* LOCK_WAIT_TIMEOUT is LOCK_STALE_AFTER, and staleness is looked at first: only
\* who has waited longer than the lock exists can time out.
TimedOut(i) ==
    /\ pc[i] = "waiting" /\ lock # None /\ ~IsStale /\ i \in early
    /\ GiveUp(i)
    /\ UNCHANGED <<attempt, result, lock, stale, takenOver, kept, staging, server, crashes>>

\* Ten minutes pass, whatever the owner of the lock does.
LockAges ==
    /\ lock # None /\ ~stale
    /\ stale' = TRUE
    /\ UNCHANGED <<pc, attempt, result, lock, early, takenOver, kept, staging, server, crashes>>

\* Drop: remove_dir, also of a lock directory made by another process; its error
\* is ignored.
DropLock ==
    \/ Unlock
    \/ lock # None /\ kept' = kept \cup {"lock"} /\ UNCHANGED <<lock, stale, early>>

Release(i) ==
    /\ pc[i] = "releasing"
    /\ DropLock
    /\ Goto(i, result[i])
    /\ Forget(i)
    /\ UNCHANGED <<takenOver, staging, server, crashes>>

-----------------------------------------------------------------------------
(* download_and_install.                                                    *)

\* Bug: the launcher is not looked for again under the lock.
NoRecheck == FALSE

WonByAnother == LauncherExists

Stage(i) ==
    /\ pc[i] = "locked"
    /\ \/ /\ WonByAnother
          /\ Decide(i, "ok") /\ Goto(i, "releasing")
          /\ UNCHANGED <<attempt, kept, staging>>
       \/ /\ ~WonByAnother
          /\ extract' = IF extract = "absent" THEN "empty" ELSE extract
          /\ attempt' = [attempt EXCEPT ![i] = 1]
          /\ kept' = {}
          /\ Goto(i, "download")
          /\ UNCHANGED <<result, archive, writing, cut>>
       \/ /\ ~WonByAnother
          /\ Decide(i, "failed") /\ Goto(i, "releasing")
          /\ UNCHANGED <<attempt, kept, staging>>
    /\ UNCHANGED <<lock, stale, early, takenOver, server, crashes>>

\* The host creates or truncates the file, then writes to it.
StartDownload(i) ==
    /\ pc[i] = "download"
    /\ archive' = "partial"
    /\ writing' = (IF archive = "absent" THEN {} ELSE writing) \cup {i}
    /\ cut' = IF archive = "absent" THEN cut ELSE cut \cup Tarring
    /\ Goto(i, "downloading")
    /\ UNCHANGED <<attempt, result, locking, extract, server, crashes>>

EndDownload(i, content) ==
    /\ pc[i] = "downloading"
    /\ archive' = IF i \notin writing THEN archive
                  ELSE IF writing = {i} THEN content ELSE "partial"
    /\ writing' = writing \ {i}
    /\ attempt' = [attempt EXCEPT ![i] = 0]
    /\ Goto(i, "downloaded")
    /\ UNCHANGED <<result, locking, extract, cut, server, crashes>>

MoreAttempts(i) == attempt[i] < Attempts

\* remove_file, whose error is ignored.
RemoveArchive(fails) ==
    IF fails THEN archive # "absent" /\ UNCHANGED <<archive, writing>>
             ELSE archive' = "absent" /\ writing' = {}

FailDownload(i) ==
    /\ pc[i] = "downloading"
    /\ \/ archive' = "absent" /\ writing' = {}
       \/ archive # "absent" /\ archive' = archive /\ writing' = writing \ {i}
    /\ IF MoreAttempts(i)
         THEN /\ attempt' = [attempt EXCEPT ![i] = @ + 1]
              /\ Goto(i, "download") /\ UNCHANGED result
         ELSE /\ attempt' = [attempt EXCEPT ![i] = 0]
              /\ Decide(i, "failed") /\ Goto(i, "cleaning")
    /\ UNCHANGED <<locking, extract, cut, server, crashes>>

\* Bug: the checksum is not compared.
AnyChecksum == archive # "absent"

ChecksumFits == archive = "complete"

\* The archive is read as it is now; a wrong one is removed if it can be.
Verify(i) ==
    /\ pc[i] = "downloaded"
    /\ IF ChecksumFits
         THEN Goto(i, "verified") /\ UNCHANGED <<archive, writing, result>>
         ELSE /\ \E fails \in BOOLEAN : RemoveArchive(fails)
              /\ Decide(i, "failed") /\ Goto(i, "cleaning")
    /\ UNCHANGED <<attempt, locking, extract, cut, server, crashes>>

StartTar(i) ==
    /\ pc[i] = "verified"
    /\ IF archive = "absent" \/ extract = "absent"
         THEN /\ Decide(i, "failed") /\ Goto(i, "cleaning")
              /\ UNCHANGED <<extract, cut>>
         ELSE /\ extract' = "partial"
              /\ cut' = IF archive = "partial" THEN cut \cup {i} ELSE cut \ {i}
              /\ Goto(i, "extracting") /\ UNCHANGED result
    /\ UNCHANGED <<attempt, locking, archive, writing, server, crashes>>

\* What tar leaves behind is whole if nobody else unpacks into it and what it
\* unpacked was.
EndTar(i) ==
    /\ pc[i] = "extracting" /\ i \notin cut
    /\ extract' = IF Tarring = {i} /\ archive # "corrupt" THEN "whole" ELSE "partial"
    /\ Goto(i, "extracted")
    /\ UNCHANGED <<attempt, result, locking, archive, writing, cut, server, crashes>>

FailTar(i) ==
    /\ pc[i] = "extracting"
    /\ extract' = IF extract = "whole" THEN "partial" ELSE extract
    /\ cut' = cut \ {i}
    /\ Decide(i, "failed") /\ Goto(i, "cleaning")
    /\ UNCHANGED <<attempt, locking, archive, writing, server, crashes>>

\* Bug: an existing server directory is replaced.
RenameOver == extract

\* rename fails on a directory that is not empty.
Renamed == IF LauncherExists THEN server ELSE extract

\* Bug: an error of rename is taken for a lost race without looking.
MoveErrorIgnored == "moved"

AfterMoveError == "cleaning"

\* The directory with the launcher is moved into place; a partial one may lack
\* it. An error of rename is no error if there is a launcher by now.
MoveServer(i) ==
    /\ pc[i] = "extracted"
    /\ \/ /\ extract \in {"partial", "whole"}
          /\ server' = Renamed
          /\ extract' = IF LauncherExists THEN extract ELSE "empty"
          /\ cut' = IF LauncherExists THEN cut ELSE cut \cup Tarring
          /\ Goto(i, "moved") /\ UNCHANGED result
       \/ /\ extract # "whole" \/ ~LauncherExists
          /\ Decide(i, "failed") /\ Goto(i, AfterMoveError)
          /\ UNCHANGED <<server, extract, cut>>
    /\ UNCHANGED <<attempt, locking, archive, writing, crashes>>

\* Until then the launcher has the mode tar gave it. The server stays if this
\* fails.
MakeExecutable(i) ==
    /\ pc[i] = "moved"
    /\ \E r \in {"ok", "failed"} : Decide(i, r)
    /\ Goto(i, "cleaning")
    /\ UNCHANGED <<attempt, locking, staging, server, crashes>>

\* Bug: the staging directory is left behind.
LeaveStaging(fails) == UNCHANGED <<extract, cut>>

\* remove_dir_all, which may fail before or after it has removed something.
RemoveStaging(fails) ==
    \/ ~fails /\ extract' = "absent" /\ cut' = cut \cup Tarring
    \/ fails /\ extract # "absent" /\ UNCHANGED <<extract, cut>>
    \/ fails /\ extract = "whole" /\ extract' = "partial" /\ cut' = cut \cup Tarring

\* What there is besides the server.
Left ==
    (IF archive = "absent" THEN {} ELSE {"archive"})
    \cup (IF extract = "absent" THEN {} ELSE {"extract"})

\* Neither error is looked at.
CleanUp(i) ==
    /\ pc[i] = "cleaning"
    /\ \E failed \in SUBSET {"archive", "extract"} :
          /\ RemoveArchive("archive" \in failed)
          /\ RemoveStaging("extract" \in failed)
          /\ kept' = (kept \cap {"lock"}) \cup failed
    /\ Goto(i, "releasing")
    /\ UNCHANGED <<attempt, result, lock, stale, early, takenOver, server, crashes>>

\* The process is killed; what it has on disk stays.
Crash(i) ==
    /\ crashes < MaxCrashes /\ pc[i] \in Inside \cup {"waiting", "stealing"}
    /\ crashes' = crashes + 1
    /\ Goto(i, "idle")
    /\ Forget(i)
    /\ early' = early \ {i} /\ writing' = writing \ {i} /\ cut' = cut \ {i}
    /\ UNCHANGED <<lock, stale, takenOver, kept, archive, extract, server>>

-----------------------------------------------------------------------------
Download(i) ==
    \/ StartDownload(i) \/ FailDownload(i)
    \/ \E content \in {"complete", "corrupt"} : EndDownload(i, content)

Unpack(i) ==
    StartTar(i) \/ EndTar(i) \/ FailTar(i) \/ MoveServer(i) \/ MakeExecutable(i)

Step(i) ==
    \/ Acquire(i) \/ SeeStale(i) \/ RemoveStale(i) \/ StaleStays(i) \/ TimedOut(i)
    \/ Stage(i) \/ Download(i) \/ Verify(i) \/ Unpack(i)
    \/ CleanUp(i) \/ Release(i)

Next ==
    \/ \E i \in Installer : Resolve(i) \/ CannotLock(i) \/ Step(i) \/ Crash(i)
    \/ LockAges

Spec == Init /\ [][Next]_vars

\* A running process goes on, and time passes. The deadline is a point in time,
\* so who passed it gives up at a lock it cannot take over. Nobody has to start.
FairSpec ==
    /\ Spec
    /\ WF_vars(LockAges)
    /\ \A i \in Installer : SF_vars(Step(i)) /\ SF_vars(TimedOut(i))

-----------------------------------------------------------------------------
\* Type invariant: the shared directory and the processes.
TypeOK ==
    /\ pc \in [Installer -> Inside \cup {"idle", "waiting", "stealing", "ok", "failed"}]
    /\ attempt \in [Installer -> 0..Attempts]
    /\ result \in [Installer -> {"ok", "failed"}]
    /\ lock \in Installer \cup {None} /\ stale \in BOOLEAN /\ early \subseteq Installer
    /\ takenOver \in BOOLEAN /\ kept \subseteq {"archive", "extract", "lock"}
    /\ archive \in {"absent", "partial", "complete", "corrupt"}
    /\ writing \subseteq Installer
    /\ extract \in {"absent", "empty", "partial", "whole"} /\ cut \subseteq Installer
    /\ server \in {"absent", "partial", "whole"}
    /\ crashes \in 0..MaxCrashes

\* Safety: one process at a time is between acquire and drop.
Exclusive == \A i, j \in Installing : i = j

\* Safety: neither slow installers nor crashes let two processes in, nor does the
\* takeover of a lock whose owner has died; only the removal of a lock whose owner
\* still installs may.
ExclusiveUntilTakeover == ~takenOver => Exclusive

\* Safety: until a running installer loses its lock, a server directory that the
\* next start would accept is whole, also if an installer died half way and
\* another has gone on from the files it left.
ServerWhole == ~takenOver => server # "partial"

\* Safety: a process that reports success has a launcher to start.
ResolvedExists == \A i \in Installer : pc[i] = "ok" => LauncherExists

\* Action property: once installed, a server directory is never replaced or
\* taken away under the feet of a running server.
ServerStays == [][LauncherExists => server' = server]_vars

\* Action property: until a running installer loses its lock, the archive is not
\* downloaded again once the server is there.
OneDownload ==
    [][\A i \in Installer :
          pc[i] = "download" /\ pc'[i] = "downloading" /\ ~takenOver => ~LauncherExists]_vars

\* Safety: when nobody installs, what is left of an installation is what the last
\* attempt of its owner to remove it has failed for: on every path out of an
\* installation, the archive, the staging directory and the lock are removed if
\* they can be, unless somebody died.
NothingLeft ==
    Installing = {} /\ crashes = 0 /\ ~takenOver
        => (IF lock = None THEN {} ELSE {"lock"}) \cup Left \subseteq kept

\* Action property: a waiting process removes a lock directory only if that one,
\* and not a newer one, is older than LOCK_STALE_AFTER.
OnlyStaleRemoved ==
    [][\A i \in Installer :
          pc[i] = "stealing" /\ lock # None /\ lock' = None => stale]_vars

\* Liveness: whoever waits for the lock, be it left over by a crash, gets a
\* server directory or an error, unless it crashes itself, or fails for ever to
\* remove a lock that is stale: then it neither sleeps nor looks at the deadline.
WaitEnds ==
    \A i \in Installer :
        \/ pc[i] = "waiting" ~> pc[i] \in {"ok", "failed", "idle"}
        \/ []<><<StaleStays(i)>>_vars
=============================================================================
