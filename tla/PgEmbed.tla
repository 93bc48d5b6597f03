------------------------------ MODULE PgEmbed ------------------------------
(***************************************************************************)
(* The lifecycle of one PgEmbed value (src/src/postgres.rs) and of the     *)
(* cluster directory it owns: new, setup, init_db, start_db, stop_db,      *)
(* stop_db_sync and drop, each driving one child process (initdb or        *)
(* pg_ctl) that changes the cluster directory and the postmaster on its    *)
(* own.  Methods take &mut self, so one call is in progress at a time; the *)
(* child processes and the server run concurrently with it, and a child    *)
(* outlives a call that timed out or whose future was dropped, because the *)
(* executor never kills it.                                                *)
(*                                                                         *)
(* What a call does between two awaits that matter to the others is one    *)
(* step: the call starts by setting its flags and spawning the child, and  *)
(* returns by reading the child's exit status.                             *)
(***************************************************************************)
EXTENDS Naturals, FiniteSets, PgTypes

CONSTANTS
    Jobs,    \* slots for child processes that have not been reaped (a bound)
    None,    \* no child process
    Faults   \* the kinds of fault the environment may produce

FaultKinds == {
    "interrupt",  \* the timeout elapses, the future is dropped, wait() errs
    "crash",      \* the Rust process ends without running destructors
    "postgres",   \* a program cannot be spawned, fails by itself or gives up
    "clean_dir",  \* remove_dir_all of the cluster directory fails half-way
    "clean_pw",   \* remove_file of the password file fails
    "late" }      \* a file operation of a dropped setup outlives the value

ASSUME JobsAssumption   == None \notin Jobs
ASSUME FaultsAssumption == Faults \subseteq FaultKinds

VARIABLES
    alive,         \* is there a PgEmbed value
    persistent,    \* pg_settings.persistent
    status,        \* *server_status
    shuttingDown,  \* shutting_down
    call,          \* the method in progress
    child,         \* the child process it waits for
    cmd,           \* the command a child process runs
    at,            \* how far the child process is
    cluster,       \* contents of database_dir
    pwFile,        \* does pw_file_path exist
    late,          \* a File::create of it that no call waits for is still to run
    server,        \* the postmaster
    pidFile,       \* is its postmaster.pid in database_dir
    faults         \* the kinds of fault that have happened (history)

embed == <<alive, persistent, status, shuttingDown>>
waits == <<call, child>>
jobs  == <<cmd, at>>
pw    == <<pwFile, late>>
disk  == <<cluster, pw>>
pgsrv == <<server, pidFile>>
vars  == <<embed, waits, jobs, disk, pgsrv, faults>>

AsyncCalls == {"init_db", "start_db", "stop_db"}
SyncCalls  == {"stop_db_sync", "drop"}

\* PG_VERSION is in the directory iff the cluster is "partial" or "ready".
ClusterStates == {"absent", "empty", "debris", "partial", "ready"}

Progress == {"spawned", "running", "doomed", "ok", "failed"}

TypeOK ==
    /\ alive \in BOOLEAN /\ persistent \in BOOLEAN /\ shuttingDown \in BOOLEAN
    /\ status \in PgServerStatus
    /\ call \in AsyncCalls \union SyncCalls \union {"idle"}
    /\ child \in Jobs \union {None}
    /\ call = "idle" => child = None
    /\ call \notin {"idle", "drop"} => child # None
    /\ cmd \in [Jobs -> Commands \union {"none"}]
    /\ at \in [Jobs -> Progress \union {"none"}]
    /\ \A j \in Jobs : cmd[j] = "none" <=> at[j] = "none"
    /\ child # None => cmd[child] # "none"
    /\ cluster \in ClusterStates /\ pwFile \in BOOLEAN /\ late \in BOOLEAN
    /\ server \in {"down", "starting", "up", "stopping"} /\ pidFile \in BOOLEAN
    /\ faults \subseteq Faults

Init ==
    /\ alive = FALSE /\ persistent = TRUE /\ shuttingDown = FALSE
    /\ status = "Uninitialized" /\ call = "idle" /\ child = None
    /\ cmd = [j \in Jobs |-> "none"] /\ at = [j \in Jobs |-> "none"]
    /\ cluster \in {"absent", "empty", "ready"} /\ pwFile = FALSE /\ late = FALSE
    /\ server = "down" /\ pidFile = FALSE /\ faults = {}

Fault(kind) == kind \in Faults /\ faults' = faults \union {kind}
Idle == alive /\ call = "idle"

----------------------------------------------------------------------------
(* Child processes as the crate sees them *)

\* AsyncCommandExecutor::new: the process runs from here on.
Spawn(c) ==
    \E j \in Jobs :
        /\ cmd[j] = "none"
        /\ cmd' = [cmd EXCEPT ![j] = c]
        /\ at' = [at EXCEPT ![j] = "spawned"]
        /\ child' = j

\* A call that runs a command: it waits for the child it spawned, or returns
\* the process type's error at once if there is no child to wait for.
Run(method, c) ==
    \/ Spawn(c) /\ call' = method /\ UNCHANGED faults
    \/ Fault("postgres") /\ UNCHANGED <<waits, jobs>>

Is(j, c, step) == cmd[j] = c /\ at[j] = step
Exited(j) == at[j] \in {"ok", "failed"}
Reap(j) == /\ cmd' = [cmd EXCEPT ![j] = "none"]
           /\ at' = [at EXCEPT ![j] = "none"]

----------------------------------------------------------------------------
(* The methods of PgEmbed *)

New(keep) ==
    /\ ~alive
    /\ alive' = TRUE /\ persistent' = keep
    /\ status' = "Uninitialized" /\ shuttingDown' = FALSE
    /\ cluster' = IF cluster = "absent" THEN "empty" ELSE cluster
    /\ UNCHANGED <<waits, jobs, pw, pgsrv, faults>>

\* init_db sets the status before it spawns initdb.
BeginInitDb ==
    /\ status' = "Initializing"
    /\ Run("init_db", "initdb")

InitDb ==
    /\ Idle
    /\ BeginInitDb
    /\ UNCHANGED <<alive, persistent, shuttingDown, disk, pgsrv>>

\* Mutant: any directory counts as an initialised cluster.
DbFilesExist_anyDir == cluster # "absent"

\* db_files_exist after a successful acquisition: that initdb is in the cache,
\* its other conjunct, is settled (PgAccess has the cache).
DbFilesExist == cluster \in {"partial", "ready"}

\* setup: acquiring the binaries or writing the password file may fail; then
\* the cluster is taken as it is if PG_VERSION is there, and initialised if not.
SetupError ==
    /\ Idle
    /\ pwFile' = TRUE \/ UNCHANGED pwFile
    /\ UNCHANGED <<embed, waits, jobs, cluster, late, pgsrv, faults>>

\* The future of setup is dropped before init_db: the file is there or not, or
\* its File::create still waits for the blocking pool, which runs it all the
\* same (one such creation at a time: a bound).
SetupInterrupt ==
    /\ Idle /\ Fault("interrupt")
    /\ \/ pwFile' \in {pwFile, TRUE} /\ UNCHANGED late
       \/ late' = TRUE /\ UNCHANGED pwFile
    /\ UNCHANGED <<embed, waits, jobs, cluster, pgsrv>>

Setup ==
    /\ Idle
    /\ pwFile' = TRUE
    /\ \/ /\ DbFilesExist
          /\ status' = "Initialized"
          /\ UNCHANGED <<waits, jobs, faults>>
       \/ /\ ~DbFilesExist
          /\ BeginInitDb
    /\ UNCHANGED <<alive, persistent, shuttingDown, cluster, late, pgsrv>>

\* Mutant: a restart leaves shutting_down set by the stop before it.
StartDb_keepsFlag ==
    /\ Idle
    /\ status' = "Starting"
    /\ Run("start_db", "start")
    /\ UNCHANGED <<alive, persistent, shuttingDown, disk, pgsrv>>

StartDb ==
    /\ Idle
    /\ status' = "Starting" /\ shuttingDown' = FALSE
    /\ Run("start_db", "start")
    /\ UNCHANGED <<alive, persistent, disk, pgsrv>>

StopDb ==
    /\ Idle
    /\ status' = "Stopping" /\ shuttingDown' = TRUE
    /\ Run("stop_db", "stop")
    /\ UNCHANGED <<alive, persistent, disk, pgsrv>>

\* stop_db_sync leaves server_status alone.
StopDbSync ==
    /\ Idle
    /\ shuttingDown' = TRUE
    /\ Run("stop_db_sync", "stop")
    /\ UNCHANGED <<alive, persistent, status, disk, pgsrv>>

\* Mutant: the exit code of the child is not looked at.
Return_ignoresExit ==
    /\ call \in AsyncCalls /\ Exited(child)
    /\ status' = StatusExit(cmd[child])
    /\ Reap(child) /\ call' = "idle" /\ child' = None
    /\ UNCHANGED <<alive, persistent, shuttingDown, disk, pgsrv, faults>>

\* Mutant: only a successful child ends the wait.
Return_onSuccess ==
    /\ call \in AsyncCalls /\ at[child] = "ok"
    /\ status' = StatusExit(cmd[child])
    /\ Reap(child) /\ call' = "idle" /\ child' = None
    /\ UNCHANGED <<alive, persistent, shuttingDown, disk, pgsrv, faults>>

\* run_process: the status moves only if the child succeeded.
Return ==
    /\ call \in AsyncCalls /\ Exited(child)
    /\ status' = IF at[child] = "ok" THEN StatusExit(cmd[child]) ELSE status
    /\ Reap(child) /\ call' = "idle" /\ child' = None
    /\ UNCHANGED <<alive, persistent, shuttingDown, disk, pgsrv, faults>>

\* Mutant: the child of the interrupted call is still held.
Interrupt_keepsChild ==
    /\ call \in AsyncCalls
    /\ Fault("interrupt")
    /\ call' = "idle"
    /\ UNCHANGED <<embed, child, jobs, disk, pgsrv>>

\* The deadline passes or the caller drops the future: the Child is dropped
\* without being killed.
Interrupt ==
    /\ call \in AsyncCalls
    /\ Fault("interrupt")
    /\ IF Exited(child) THEN Reap(child) ELSE UNCHANGED jobs
    /\ call' = "idle" /\ child' = None
    /\ UNCHANGED <<embed, disk, pgsrv>>

\* Mutant: the pipes are not read, so nothing waits for pg_ctl.
SyncReturn_noWait ==
    /\ call = "stop_db_sync"
    /\ IF Exited(child) THEN Reap(child) ELSE UNCHANGED jobs
    /\ call' = "idle" /\ child' = None
    /\ UNCHANGED <<embed, disk, pgsrv, faults>>

\* handle_process_io_sync: the pipes reach their end, and the exit status is not
\* read.
SyncReturn ==
    /\ call = "stop_db_sync" /\ Exited(child)
    /\ Reap(child) /\ call' = "idle" /\ child' = None
    /\ UNCHANGED <<embed, disk, pgsrv, faults>>

----------------------------------------------------------------------------
(* Removal of the cluster directory and of the password file *)

\* What remove_dir_all leaves when it gives up half-way.
Leftovers == [ absent  |-> {"absent"},
               empty   |-> {"empty"},
               debris  |-> {"empty", "debris"},
               partial |-> {"empty", "debris", "partial"},
               ready   |-> {"empty", "debris", "partial", "ready"} ]

\* Either removal may fail, or both.
CleanFaults == {"clean_dir", "clean_pw"}
Failing(removals) == /\ removals \subseteq Faults
                     /\ faults' = faults \union removals

\* An initdb whose files are taken from under it cannot succeed any more.
Doom(step) == [j \in Jobs |-> IF cmd[j] = "initdb" /\ step[j] = "running"
                              THEN "doomed" ELSE step[j]]

RemoveDir(step) ==
    /\ cluster' = "absent" /\ pidFile' = FALSE
    /\ at' = Doom(step)

RemoveDirError(step) ==
    /\ cluster' \in Leftovers[cluster]
    /\ pidFile' = FALSE \/ UNCHANGED pidFile
    /\ \/ at' = Doom(step)
       \/ at' = step /\ cluster' = cluster

\* Mutant: and_then in place of and, so a failed removal skips the next one.
Clean_firstError(step) ==
    \E removals \in SUBSET CleanFaults :
        /\ Failing(removals)
        /\ IF "clean_dir" \in removals
           THEN RemoveDirError(step) ELSE RemoveDir(step)
        /\ pwFile' = (pwFile /\ (removals # {} \/ cluster = "absent"))

\* clean: the password file is removed whatever became of the directory.
Clean(step) ==
    \E removals \in SUBSET CleanFaults :
        /\ Failing(removals)
        /\ IF "clean_dir" \in removals
           THEN RemoveDirError(step) ELSE RemoveDir(step)
        /\ pwFile' = (pwFile /\ "clean_pw" \in removals)

\* clean_up, the helper that takes paths: it stops at the first error, a missing
\* directory included.  Callers use it on the directory of a server that is
\* down, or without a PgEmbed value.
CleanUp ==
    /\ call = "idle" /\ (alive => server = "down")
    /\ \E removals \in SUBSET CleanFaults :
          /\ Failing(removals)
          /\ IF "clean_dir" \in removals
             THEN RemoveDirError(at) ELSE RemoveDir(at)
          /\ pwFile' = (pwFile /\ (removals # {} \/ cluster = "absent"))
    /\ UNCHANGED <<embed, waits, cmd, late, server>>

\* Mutant: the drop trusts server_status rather than shutting_down.
DropBegin_ifStarted ==
    /\ Idle
    /\ call' = "drop"
    /\ shuttingDown' = TRUE
    /\ IF status = "Started" /\ ~shuttingDown
       THEN Spawn("stop") ELSE UNCHANGED <<child, jobs>>
    /\ UNCHANGED <<alive, persistent, status, disk, pgsrv, faults>>

\* Drop::drop: stop unless shutting_down, then clean unless persistent; the
\* outcome of the stop is only logged.
DropBegin ==
    /\ Idle
    /\ call' = "drop"
    /\ shuttingDown' = TRUE
    /\ \/ ~shuttingDown /\ Spawn("stop") /\ UNCHANGED faults
       \/ ~shuttingDown /\ Fault("postgres") /\ UNCHANGED <<child, jobs>>
       \/ shuttingDown /\ UNCHANGED <<child, jobs, faults>>
    /\ UNCHANGED <<alive, persistent, status, disk, pgsrv>>

\* The value and its fields are gone (persistent says what it was).
Gone ==
    /\ alive' = FALSE /\ call' = "idle" /\ child' = None
    /\ status' = "Uninitialized" /\ shuttingDown' = FALSE

\* The child that a call waited for is reaped.
Reaped == [j \in Jobs |-> IF j = child THEN "none" ELSE at[j]]

\* Mutant: persistent is forgotten.
DropEnd_always ==
    /\ call = "drop" /\ (child # None => Exited(child))
    /\ Clean(Reaped)
    /\ cmd' = [j \in Jobs |-> IF j = child THEN "none" ELSE cmd[j]]
    /\ Gone
    /\ UNCHANGED <<persistent, late, server>>

DropEnd ==
    /\ call = "drop" /\ (child # None => Exited(child))
    /\ \/ /\ persistent /\ at' = Reaped
          /\ UNCHANGED <<cluster, pwFile, pidFile, faults>>
       \/ ~persistent /\ Clean(Reaped)
    /\ cmd' = [j \in Jobs |-> IF j = child THEN "none" ELSE cmd[j]]
    /\ Gone
    /\ UNCHANGED <<persistent, late, server>>

\* The Rust process ends without dropping the value; its children go on, its
\* threads do not.
Crash ==
    /\ alive /\ Fault("crash")
    /\ Gone
    /\ IF child # None /\ Exited(child) THEN Reap(child) ELSE UNCHANGED jobs
    /\ late' = FALSE
    /\ UNCHANGED <<persistent, cluster, pwFile, pgsrv>>

----------------------------------------------------------------------------
(* The blocking pool, initdb, pg_ctl and the postmaster (external) *)

\* A creation that no call waits for, before the value is gone or after.
LateCreate ==
    /\ late
    /\ pwFile' = TRUE /\ late' = FALSE
    /\ IF alive THEN UNCHANGED faults ELSE Fault("late")
    /\ UNCHANGED <<embed, waits, jobs, cluster, pgsrv>>

\* A child that no call waits for is reaped in the background.
Finished(j, result) ==
    [at EXCEPT ![j] = IF j = child THEN result ELSE "none"]
Freed(j) == cmd' = IF j = child THEN cmd ELSE [cmd EXCEPT ![j] = "none"]

Finish(j, result) == Freed(j) /\ at' = Finished(j, result)

Proceed(j) == at' = [at EXCEPT ![j] = "running"] /\ UNCHANGED cmd

\* initdb wants a password file and an empty directory, and writes PG_VERSION
\* long before it is done.
InitdbStart(j) ==
    /\ Is(j, "initdb", "spawned")
    /\ IF pwFile /\ cluster \in {"absent", "empty"}
       THEN Proceed(j) /\ cluster' = "partial"
       ELSE Finish(j, "failed") /\ UNCHANGED cluster
    /\ UNCHANGED <<embed, waits, pw, pgsrv, faults>>

InitdbDone(j) ==
    /\ Is(j, "initdb", "running")
    /\ Finish(j, "ok") /\ cluster' = "ready"
    /\ UNCHANGED <<embed, waits, pw, pgsrv, faults>>

\* An initdb that fails removes what is in the directory.
InitdbFail(j) ==
    /\ cmd[j] = "initdb"
    /\ \/ at[j] = "running" /\ Fault("postgres")
       \/ at[j] = "doomed" /\ UNCHANGED faults
    /\ Freed(j) /\ at' = Doom(Finished(j, "failed"))
    /\ cluster' = IF cluster = "absent" THEN "absent" ELSE "empty"
    /\ pidFile' = FALSE
    /\ UNCHANGED <<embed, waits, pw, server>>

StartBegin(j) ==
    /\ Is(j, "start", "spawned")
    /\ IF cluster = "ready" /\ server = "down"
       THEN Proceed(j) /\ server' = "starting" /\ pidFile' = TRUE
       ELSE Finish(j, "failed") /\ UNCHANGED pgsrv
    /\ UNCHANGED <<embed, waits, disk, faults>>

\* pg_ctl start -w reports what became of the postmaster.
StartEnd(j) ==
    /\ Is(j, "start", "running")
    /\ \/ server = "up" /\ pidFile /\ Finish(j, "ok")
       \/ (server = "down" \/ ~pidFile) /\ Finish(j, "failed")
    /\ UNCHANGED <<embed, waits, disk, pgsrv, faults>>

StopBegin(j) ==
    /\ Is(j, "stop", "spawned")
    /\ IF pidFile
       THEN Proceed(j) /\ server' = "stopping"
       ELSE Finish(j, "failed") /\ UNCHANGED server
    /\ UNCHANGED <<embed, waits, disk, pidFile, faults>>

\* pg_ctl stop -w waits for the pid file to go, and gives up in the end if it
\* finds that of a later server.
StopEnd(j) ==
    /\ Is(j, "stop", "running")
    /\ \/ ~pidFile /\ Finish(j, "ok")
       \/ pidFile /\ server \in {"starting", "up"} /\ Finish(j, "failed")
    /\ UNCHANGED <<embed, waits, disk, pgsrv, faults>>

\* pg_ctl -w gives up on a server that is slow to start or to stop.
GiveUp(j) ==
    /\ cmd[j] \in {"start", "stop"} /\ at[j] = "running"
    /\ server \in {"starting", "stopping"} /\ Fault("postgres")
    /\ Finish(j, "failed")
    /\ UNCHANGED <<embed, waits, disk, pgsrv>>

ServerUp ==
    /\ server = "starting" /\ server' = "up"
    /\ UNCHANGED <<embed, waits, jobs, disk, pidFile, faults>>

ServerDown ==
    /\ \/ server = "stopping"
       \/ server # "down" /\ ~pidFile  \* the postmaster misses its lock file
    /\ server' = "down" /\ pidFile' = FALSE
    /\ UNCHANGED <<embed, waits, jobs, disk, faults>>

ServerFail ==
    /\ server \in {"starting", "up"} /\ Fault("postgres")
    /\ server' = "down" /\ pidFile' = FALSE
    /\ UNCHANGED <<embed, waits, jobs, disk>>

----------------------------------------------------------------------------
(* The specification *)

Method ==
    \/ \E keep \in BOOLEAN : New(keep)
    \/ SetupError \/ Setup \/ InitDb \/ StartDb \/ StopDb \/ StopDbSync
    \/ DropBegin \/ CleanUp

Returns == Return \/ SyncReturn \/ DropEnd

JobStep(j) ==
    \/ InitdbStart(j) \/ InitdbDone(j) \/ InitdbFail(j)
    \/ StartBegin(j) \/ StartEnd(j)
    \/ StopBegin(j) \/ StopEnd(j)

Next ==
    \/ Method \/ Returns \/ Interrupt \/ SetupInterrupt \/ Crash \/ LateCreate
    \/ \E j \in Jobs : JobStep(j) \/ GiveUp(j)
    \/ ServerUp \/ ServerDown \/ ServerFail

Spec == Init /\ [][Next]_vars

\* The children and the server run, and the runtime polls a call whose child
\* has exited.  Nothing obliges the caller to call, or a fault to happen.
Fairness ==
    /\ WF_vars(Returns)
    /\ WF_vars(ServerUp) /\ WF_vars(ServerDown)
    /\ \A j \in Jobs : WF_vars(JobStep(j))

FairSpec == Spec /\ Fairness

----------------------------------------------------------------------------
(* Properties *)

\* A failing removal is no excuse for a wrong status or a running server.
Undisturbed == faults \subseteq CleanFaults

\* Between calls the status a caller reads agrees with the postmaster: Started
\* (and not stopped synchronously since) means it is up, Stopped that it is
\* down, whatever sequence of calls, failed ones included, led there.
StatusTruthful ==
    Undisturbed /\ Idle =>
        /\ status = "Started" /\ ~shuttingDown => server = "up"
        /\ status = "Stopped" => server = "down"

\* shutting_down suppresses the stop of Drop, so between calls it may be set
\* only when there is no server left to stop.
FlagTruthful ==
    Undisturbed /\ Idle /\ shuttingDown => server = "down"

\* No server outlives the PgEmbed value that started it (Drop for PgEmbed).
NoOrphanServer ==
    Undisturbed /\ ~alive => server = "down"

\* A status that says the cluster was initialised is never shown for a cluster
\* that initdb did not finish (init_db, setup); the directory may have been
\* removed behind the value's back by clean_up.
InitializedMeansReady ==
    faults = {} /\ Idle /\ status \in {"Initialized", "Started", "Stopped"}
        => cluster \in {"ready", "absent"}

\* The password file of a non-persistent value is gone once the value is, even
\* when the stop failed, a child outlives its call or the directory could not be
\* removed (PgAccess::clean attempts both removals).  Three things bring it
\* about that the file stays or comes back: the process ends without the drop,
\* the file cannot be removed, or a setup was dropped in create_password_file
\* and the blocking pool creates the file only after the drop.  A creation that
\* comes any time before the drop does no harm.
PasswordRemoved ==
    ~alive /\ ~persistent /\ faults \intersect {"crash", "clean_pw", "late"} = {}
        => ~pwFile

\* A finished cluster is destroyed only by dropping a non-persistent value or by
\* clean_up, or by an initdb whose directory had been removed under it and
\* initialised again: no other call, and no failure, loses data.
ReadyDataKept ==
    [][cluster = "ready" /\ cluster' # "ready" =>
        \/ call = "drop" /\ ~persistent
        \/ call = "idle" /\ CleanUp
        \/ \E j \in Jobs : at[j] = "doomed" /\ InitdbFail(j)]_vars

\* What a caller knows from the status and from its own stops.
Says == CASE status = "Started" /\ ~shuttingDown -> "running"
          [] status = "Stopped"                   -> "stopped"
          [] OTHER                                -> "nothing"

Managed == INSTANCE ManagedServer WITH
    call      <- IF alive THEN call ELSE "none",
    says      <- Says,
    data      <- cluster = "ready",
    disturbed <- ~Undisturbed

\* The value with its children and its directory is the managed server that
\* the documentation describes, until the first disturbance: over any sequence
\* of calls the server moves only for the call that asks for it, answers are
\* true, a start is refused only for a reason, and the drop leaves no server.
ImplementsServer == Managed!Spec

\* Every call returns: whatever the child does, its exit ends the call.
CallsReturn == call # "idle" ~> call = "idle"

\* README.md:130: "pg_ctl stop is called on drop if the server is still
\* running": a drop that finds the server up waits for a pg_ctl stop.
DropStopsServer ==
    [][call # "drop" /\ call' = "drop" /\ server = "up" => child' # None]_vars

\* pg_access.rs:208-209: a cluster whose files exist "was previously initialised
\* with initdb and does not need to be re-initialised".
SetupAcceptsOnlyComplete ==
    [][Setup /\ status' = "Initialized" => cluster = "ready"]_vars
============================================================================
