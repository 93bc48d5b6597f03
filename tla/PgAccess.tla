------------------------------ MODULE PgAccess ------------------------------
(***************************************************************************)
(* Acquisition of the PostgreSQL binaries: maybe_acquire_postgres          *)
(* (src/src/pg_access.rs) with the download of pg_fetch.rs and the         *)
(* unpacking of pg_unpack.rs, and purge.  Tasks of one process serialise   *)
(* on the static mutex ACQUIRED_PG_BINS, which a task holds from the check *)
(* of the cache to the end of the unpacking; processes share the cache     *)
(* directories and no lock.  The archive is unpacked by a blocking worker, *)
(* which runs to its end even if the task that waits for it is cancelled   *)
(* and has released the mutex.                                             *)
(***************************************************************************)
EXTENDS Naturals, FiniteSets

CONSTANTS
    Tasks,    \* asynchronous tasks that call maybe_acquire_postgres
    Procs,    \* processes
    Dirs,     \* cache directories, one per OS, architecture and version
    Files,    \* the files of a PostgreSQL distribution
    InitDb,   \* bin/initdb, the file pg_executables_cached looks for
    ProcOf,   \* the process of a task
    DirOf,    \* the cache directory of a task
    None,
    Faults    \* the kinds of fault the environment may produce

FaultKinds == {
    "io",       \* the existence check, the request or a write of the jar fails
    "package",  \* the jar is truncated (a background write that failed is not
                \* reported by sync_data), no archive, or without .xz entry
    "unpack",   \* the decompression or the extraction fails half-way
    "cancel",   \* the future of maybe_acquire_postgres is dropped
    "crash",    \* a process ends; a later incarnation takes its name
    "purge" }   \* PgAccess::purge is called

ASSUME TasksAssumption  == /\ ProcOf \in [Tasks -> Procs]
                           /\ DirOf \in [Tasks -> Dirs]
                           /\ None \notin Tasks
ASSUME FilesAssumption  == InitDb \in Files /\ None \notin Files
ASSUME FaultsAssumption == Faults \subseteq FaultKinds

VARIABLES
    pc,      \* where a task is in maybe_acquire_postgres
    ret,     \* how its last call ended
    holder,  \* the owner of a process's mutex
    status,  \* the map the mutex protects
    dirs,    \* the cache directories that exist
    zip,     \* the downloaded jar; a task's name while it writes it
    files,   \* the unpacked files; a task's name while its worker writes one
    work,    \* a task's blocking worker
    todo,    \* the files the worker has still to unpack
    cur,     \* the file it is writing
    faults   \* the kinds of fault that have happened (history)

tasks   == <<pc, ret>>
locks   == <<holder, status>>
workers == <<work, todo, cur>>
cache   == <<dirs, zip, files>>
vars    == <<tasks, locks, workers, cache, faults>>

PgAcquisitionStatus == {"Undefined", "InProgress", "Finished"}
Jars == {"absent", "good", "bad", "noxz"}

ASSUME NamesAssumption == Tasks \intersect (Jars \union {"complete"}) = {}

\* The states in which a task holds the mutex.
Holding == {"check", "request", "stream", "unpack"}

TypeOK ==
    /\ pc \in [Tasks -> Holding \union {"idle", "lock"}]
    /\ ret \in [Tasks -> {"none", "ok", "err"}]
    /\ holder \in [Procs -> Tasks \union {None}]
    /\ status \in [Procs -> [Dirs -> PgAcquisitionStatus]]
    /\ dirs \subseteq Dirs
    /\ zip \in [Dirs -> Jars \union Tasks]
    /\ files \in [Dirs -> [Files -> {"absent", "complete"} \union Tasks]]
    /\ work \in [Tasks -> {"none", "open", "extract", "ok", "err"}]
    /\ todo \in [Tasks -> SUBSET Files]
    /\ cur \in [Tasks -> Files \union {None}]
    /\ faults \subseteq Faults

Installed(d) == \A f \in Files : files[d][f] = "complete"

Init ==
    /\ pc = [t \in Tasks |-> "idle"] /\ ret = [t \in Tasks |-> "none"]
    /\ holder = [p \in Procs |-> None]
    /\ status = [p \in Procs |-> [d \in Dirs |-> "Undefined"]]
    /\ dirs = {} /\ zip = [d \in Dirs |-> "absent"]
    /\ files = [d \in Dirs |-> [f \in Files |-> "absent"]]
    /\ work = [t \in Tasks |-> "none"] /\ todo = [t \in Tasks |-> {}]
    /\ cur = [t \in Tasks |-> None]
    /\ faults = {}

Fault(kind) == kind \in Faults /\ faults' = faults \union {kind}
Goto(t, label) == pc' = [pc EXCEPT ![t] = label]

SetStatus(t, s) ==
    status' = [status EXCEPT ![ProcOf[t]][DirOf[t]] = s]

\* acquisition_status, for a caller that gets the mutex.
AcquisitionStatus(t) == status[ProcOf[t]][DirOf[t]]

\* The end of the call: its result, and the drop of the mutex guard.
Release(t) == holder' = [holder EXCEPT ![ProcOf[t]] = None]
Answer(t, result) ==
    /\ Goto(t, "idle")
    /\ ret' = [ret EXCEPT ![t] = result]
    /\ Release(t)

----------------------------------------------------------------------------
(* The asynchronous task: PgAccess::new and maybe_acquire_postgres *)

\* PgAccess::new creates the cache directory, and only new does: a value made
\* before a purge goes without.  A slot is taken again once its last worker is
\* done (a bound on the number of workers).
Call(t) ==
    /\ pc[t] = "idle" /\ work[t] = "none"
    /\ Goto(t, "lock")
    /\ \/ dirs' = dirs \union {DirOf[t]}
       \/ "purge" \in faults /\ UNCHANGED dirs
    /\ UNCHANGED <<ret, locks, workers, zip, files, faults>>

Lock(t) ==
    /\ pc[t] = "lock" /\ holder[ProcOf[t]] = None
    /\ holder' = [holder EXCEPT ![ProcOf[t]] = t]
    /\ Goto(t, "check")
    /\ UNCHANGED <<ret, status, workers, cache, faults>>

\* Mutant: the cache directory stands for its contents.
PgExecutablesCached_dir(d) == d \in dirs

\* pg_executables_cached: initdb is there, whole or not.
PgExecutablesCached(d) == files[d][InitDb] # "absent"

CheckCached(t) ==
    /\ pc[t] = "check" /\ PgExecutablesCached(DirOf[t])
    /\ Answer(t, "ok")
    /\ UNCHANGED <<status, workers, cache, faults>>

\* Mutant: the lock is not held during the acquisition.
CheckMissing_releases(t) ==
    /\ pc[t] = "check" /\ ~PgExecutablesCached(DirOf[t])
    /\ SetStatus(t, "InProgress")
    /\ Goto(t, "request") /\ Release(t)
    /\ UNCHANGED <<ret, workers, cache, faults>>

CheckMissing(t) ==
    /\ pc[t] = "check" /\ ~PgExecutablesCached(DirOf[t])
    /\ SetStatus(t, "InProgress")
    /\ Goto(t, "request")
    /\ UNCHANGED <<ret, holder, workers, cache, faults>>

\* fetch_postgres_to_file: the response has arrived, which touches nothing that
\* is shared, and the file is created, which takes an existing cache directory.
Request(t) ==
    /\ pc[t] = "request"
    /\ IF DirOf[t] \in dirs
       THEN /\ zip' = [zip EXCEPT ![DirOf[t]] = t]
            /\ Goto(t, "stream")
            /\ UNCHANGED <<ret, holder>>
       ELSE Answer(t, "err") /\ UNCHANGED zip
    /\ UNCHANGED <<status, workers, dirs, files, faults>>

\* The last chunk is written and synced.  A jar that another task truncated in
\* the meantime is left to that task.
Stream(t) ==
    /\ pc[t] = "stream"
    /\ \/ /\ zip' = IF zip[DirOf[t]] = t
                    THEN [zip EXCEPT ![DirOf[t]] = "good"] ELSE zip
          /\ UNCHANGED faults
       \/ /\ Fault("package")
          /\ \E jar \in {"bad", "noxz"} : zip' = [zip EXCEPT ![DirOf[t]] = jar]
    /\ Goto(t, "unpack")
    /\ work' = [work EXCEPT ![t] = "open"]
    /\ UNCHANGED <<ret, locks, todo, cur, dirs, files>>

\* Mutant: the guard outlives an early return.
IoError_keepsLock(t) ==
    /\ pc[t] \in {"check", "request", "stream"} /\ Fault("io")
    /\ Goto(t, "idle") /\ ret' = [ret EXCEPT ![t] = "err"]
    /\ UNCHANGED <<locks, workers, cache>>

\* `?` on the existence check, the request or a chunk.
IoError(t) ==
    /\ pc[t] \in {"check", "request", "stream"} /\ Fault("io")
    /\ Answer(t, "err")
    /\ UNCHANGED <<status, workers, cache>>

\* Mutant: the blocking worker is not awaited.
Return_noAwait(t) ==
    /\ pc[t] = "unpack"
    /\ Answer(t, work[t])
    /\ SetStatus(t, "Finished")
    /\ UNCHANGED <<workers, cache, faults>>

\* Mutant: the map is updated before the result of the unpacking is looked at.
Return_finishedFirst(t) ==
    /\ pc[t] = "unpack" /\ work[t] \in {"ok", "err"}
    /\ Answer(t, work[t])
    /\ SetStatus(t, "Finished")
    /\ work' = [work EXCEPT ![t] = "none"]
    /\ UNCHANGED <<todo, cur, cache, faults>>

\* unpack_postgres has been awaited.
Return(t) ==
    /\ pc[t] = "unpack" /\ work[t] \in {"ok", "err"}
    /\ Answer(t, work[t])
    /\ IF work[t] = "ok" THEN SetStatus(t, "Finished") ELSE UNCHANGED status
    /\ work' = [work EXCEPT ![t] = "none"]
    /\ UNCHANGED <<todo, cur, cache, faults>>

----------------------------------------------------------------------------
(* The blocking worker: unpack_postgres_blocking *)

\* A worker whose task no longer waits ends unnoticed.
WorkerEnds(t, result) ==
    /\ work' = [work EXCEPT ![t] = IF pc[t] = "unpack" THEN result ELSE "none"]
    /\ todo' = [todo EXCEPT ![t] = {}]
    /\ cur' = [cur EXCEPT ![t] = None]

\* Mutant: a jar that cannot be opened is passed over.
Open_lenient(t) ==
    /\ work[t] = "open"
    /\ \/ /\ zip[DirOf[t]] = "good"
          /\ work' = [work EXCEPT ![t] = "extract"]
          /\ todo' = [todo EXCEPT ![t] = Files]
          /\ UNCHANGED cur
       \/ zip[DirOf[t]] # "good" /\ WorkerEnds(t, "ok")
    /\ UNCHANGED <<tasks, locks, cache, faults>>

\* The jar is opened and its .txz entries are read; one without any is accepted.
Open(t) ==
    /\ work[t] = "open"
    /\ \/ /\ zip[DirOf[t]] = "good"
          /\ work' = [work EXCEPT ![t] = "extract"]
          /\ todo' = [todo EXCEPT ![t] = Files]
          /\ UNCHANGED cur
       \/ zip[DirOf[t]] = "noxz" /\ WorkerEnds(t, "ok")
       \/ zip[DirOf[t]] \notin {"good", "noxz"} /\ WorkerEnds(t, "err")
    /\ UNCHANGED <<tasks, locks, cache, faults>>

\* tar creates a file anew, and the directories on the way to it.
Create(t, f) ==
    /\ work[t] = "extract" /\ cur[t] = None /\ f \in todo[t]
    /\ cur' = [cur EXCEPT ![t] = f]
    /\ files' = [files EXCEPT ![DirOf[t]][f] = t]
    /\ dirs' = dirs \union {DirOf[t]}
    /\ UNCHANGED <<tasks, locks, work, todo, zip, faults>>

\* The file is written, unless another worker has replaced it.
Write(t) ==
    /\ work[t] = "extract" /\ cur[t] # None
    /\ files' = IF files[DirOf[t]][cur[t]] = t
                THEN [files EXCEPT ![DirOf[t]][cur[t]] = "complete"] ELSE files
    /\ todo' = [todo EXCEPT ![t] = @ \ {cur[t]}]
    /\ cur' = [cur EXCEPT ![t] = None]
    /\ UNCHANGED <<tasks, locks, work, dirs, zip, faults>>

Unpacked(t) ==
    /\ work[t] = "extract" /\ todo[t] = {}
    /\ WorkerEnds(t, "ok")
    /\ UNCHANGED <<tasks, locks, cache, faults>>

UnpackError(t) ==
    /\ work[t] = "extract" /\ Fault("unpack")
    /\ WorkerEnds(t, "err")
    /\ UNCHANGED <<tasks, locks, cache>>

----------------------------------------------------------------------------
(* Cancellation, crashes and purge *)

\* Mutant: a guard that is not dropped with the future.
Cancel_keepsLock(t) ==
    /\ pc[t] # "idle" /\ Fault("cancel")
    /\ Goto(t, "idle")
    /\ work' = [work EXCEPT ![t] = IF @ \in {"ok", "err"} THEN "none" ELSE @]
    /\ UNCHANGED <<ret, locks, todo, cur, cache>>

\* Mutant: the extraction is aborted with the future.
Cancel_abortsWorker(t) ==
    /\ pc[t] # "idle" /\ Fault("cancel")
    /\ Goto(t, "idle")
    /\ holder' = [p \in Procs |-> IF holder[p] = t THEN None ELSE holder[p]]
    /\ work' = [work EXCEPT ![t] = "none"]
    /\ todo' = [todo EXCEPT ![t] = {}] /\ cur' = [cur EXCEPT ![t] = None]
    /\ UNCHANGED <<ret, status, cache>>

\* The future is dropped: the guard goes, the worker stays.  A creation or a
\* write of the jar that stays too is left out: it can only spoil the jar of a
\* later task, as "package" and a rival of another process do.
Cancel(t) ==
    /\ pc[t] # "idle" /\ Fault("cancel")
    /\ Goto(t, "idle")
    /\ holder' = [p \in Procs |-> IF holder[p] = t THEN None ELSE holder[p]]
    /\ work' = [work EXCEPT ![t] = IF @ \in {"ok", "err"} THEN "none" ELSE @]
    /\ UNCHANGED <<ret, status, todo, cur, cache>>

Crash(p) ==
    LET Of(g, v) == [t \in Tasks |-> IF ProcOf[t] = p THEN v ELSE g[t]]
    IN  /\ Fault("crash")
        /\ pc' = Of(pc, "idle") /\ ret' = Of(ret, "none")
        /\ work' = Of(work, "none") /\ todo' = Of(todo, {})
        /\ cur' = Of(cur, None)
        /\ holder' = [holder EXCEPT ![p] = None]
        /\ status' = [status EXCEPT ![p] = [d \in Dirs |-> "Undefined"]]
        /\ UNCHANGED cache

\* purge takes no lock, ignores errors, and leaves the map as it is: one entry
\* after the other goes while the tasks go on, and it may stop half-way.
Purge ==
    /\ Fault("purge")
    /\ \E d \in Dirs :
          \/ /\ \E f \in Files : files' = [files EXCEPT ![d][f] = "absent"]
             /\ UNCHANGED <<dirs, zip>>
          \/ zip' = [zip EXCEPT ![d] = "absent"] /\ UNCHANGED <<dirs, files>>
          \/ /\ zip[d] = "absent" /\ \A f \in Files : files[d][f] = "absent"
             /\ dirs' = dirs \ {d} /\ UNCHANGED <<zip, files>>
    /\ UNCHANGED <<tasks, locks, workers>>

----------------------------------------------------------------------------
(* The specification *)

TaskStep(t) ==
    \/ CheckCached(t) \/ CheckMissing(t) \/ Request(t) \/ Stream(t)
    \/ IoError(t) \/ Return(t)

WorkerStep(t) ==
    \/ Open(t) \/ (\E f \in Files : Create(t, f)) \/ Write(t) \/ Unpacked(t)

Next ==
    \/ \E t \in Tasks :
          Call(t) \/ Lock(t) \/ TaskStep(t) \/ WorkerStep(t)
            \/ UnpackError(t) \/ Cancel(t)
    \/ \E p \in Procs : Crash(p)
    \/ Purge

Spec == Init /\ [][Next]_vars

\* tokio's mutex is first come first served, hence strong fairness on Lock.
\* Weak fairness on the steps of a task includes the transfer: the code sets no
\* deadline on it, so that every transfer ends is assumed of the network.
Fairness == \A t \in Tasks :
    /\ SF_vars(Lock(t)) /\ WF_vars(TaskStep(t)) /\ WF_vars(WorkerStep(t))

FairSpec == Spec /\ Fairness

----------------------------------------------------------------------------
(* Properties *)

\* The tasks between the check that found nothing and the end of the call, and
\* those whose worker runs although nobody waits for it.
Acquiring(t) == pc[t] \in {"request", "stream", "unpack"} \/ work[t] # "none"

\* Cache directories are not shared between processes.
OneProcess == \A t, u \in Tasks : DirOf[t] = DirOf[u] => ProcOf[t] = ProcOf[u]

\* The mutex belongs to the one task between its lock and its return, and no
\* error, cancellation or crash leaves it taken (the guard of
\* maybe_acquire_postgres).
LockHeldByHolder ==
    \A t \in Tasks : pc[t] \in Holding <=> holder[ProcOf[t]] = t

\* technical-handbook.md:129: the map "prevents two concurrent PgEmbed
\* instances from downloading or unpacking the same binary package
\* simultaneously".
NoConcurrentAcquisition ==
    \A t, u \in Tasks : t # u /\ DirOf[t] = DirOf[u]
        => ~(Acquiring(t) /\ Acquiring(u))

\* ... which it does as long as no caller gives up.
SingleWriter == OneProcess /\ "cancel" \notin faults => NoConcurrentAcquisition

\* Between acquisitions initdb stands for the whole distribution: where
\* pg_executables_cached says yes to a task that holds the lock, every file is
\* whole, unless an earlier acquisition was broken off.
TearFaults == {"unpack", "cancel", "crash", "purge"}
CachedMeansInstalled ==
    OneProcess /\ faults \intersect TearFaults = {} =>
        \A t \in Tasks : pc[t] = "check" /\ PgExecutablesCached(DirOf[t])
            => Installed(DirOf[t])

\* user-handbook.md:255: the package "is only downloaded once": nobody requests
\* or streams a jar whose contents are installed already.
DownloadedOnce ==
    OneProcess /\ "cancel" \notin faults =>
        \A t \in Tasks : pc[t] \in {"request", "stream"} => ~Installed(DirOf[t])

\* The status a caller of acquisition_status reads, the mutex being free:
\* Finished means installed, and InProgress is seen only after a failure.
StatusMeaning ==
    OneProcess /\ faults \intersect {"package", "cancel", "purge"} = {} =>
        \A t \in Tasks : holder[ProcOf[t]] = None =>
            /\ AcquisitionStatus(t) = "Finished" => Installed(DirOf[t])
            /\ AcquisitionStatus(t) = "InProgress" => faults # {}

\* When no worker runs, a distribution is there as a whole or not at all, with
\* any number of processes and cancelled callers: the workers repair what they
\* overwrite.
AllOrNothing ==
    faults \intersect {"unpack", "crash", "purge"} = {} =>
        \A d \in Dirs : (\A t \in Tasks : DirOf[t] = d => work[t] = "none") =>
            Installed(d) \/ \A f \in Files : files[d][f] = "absent"

\* An acquisition that unpacks and returns Ok has installed the distribution:
\* a truncated jar, or one whose last bytes were lost after sync_data, is found
\* out when it is opened.  A jar without any .txz or .xz entry is not
\* (pg_unpack.rs:76), nor is a purge on the way.
OkMeansInstalled ==
    [][OneProcess /\ faults' \intersect {"cancel", "purge"} = {} =>
         \A t \in Tasks :
            /\ pc[t] = "unpack" /\ pc'[t] = "idle" /\ ret'[t] = "ok"
            /\ zip[DirOf[t]] # "noxz"
            => Installed(DirOf[t])]_vars

\* The acquisition implements the abstract cache when nothing tears it.
Cache == INSTANCE BinaryCache WITH
    request   <- [t \in Tasks |-> IF pc[t] = "idle" THEN ret[t] ELSE "pending"],
    installed <- {d \in Dirs : Installed(d)}
ImplementsCache == Cache!Spec

\* Every caller gets its turn and its answer.
CallsReturn == \A t \in Tasks : pc[t] = "lock" ~> pc[t] = "idle"
============================================================================
