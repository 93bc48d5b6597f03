# pg-embed in TLA+

A specification of [pg-embed](../src/README.md), the crate that downloads
PostgreSQL, unpacks it into a cache, initialises a cluster, starts and stops a
server, installs extensions, creates and migrates databases, and cleans up when
its value is dropped. TLC checks the modules on small instances; TLAPS proves
the theorems for all values of the constants.

## 1. The system

| Component | State | Operations | Talks to |
|---|---|---|---|
| `PgEmbed` (`postgres.rs`) | `server_status` (shared mutex), `shutting_down`, `pg_settings` | `new`, `setup`, `init_db`, `start_db`, `stop_db`, `stop_db_sync`, `drop` | `PgAccess`, one child process at a time |
| Acquisition (`pg_access.rs`) | cache directory, the static map `ACQUIRED_PG_BINS` | `maybe_acquire_postgres`, `acquisition_status`, `purge` | `pg_fetch`, `pg_unpack`, the file system |
| Cluster directory and password file (`pg_access.rs`) | the paths of `PgAccess` | `new`, `create_password_file`, `db_files_exist`, `clean`, `clean_up` | the file system, initdb |
| `pg_fetch` | the jar being written | `platform`, `fetch_postgres_to_file`, `fetch_postgres` | a Maven repository over HTTP |
| `pg_unpack` | the extracted files | `unpack_postgres` on a blocking thread | the file system |
| `AsyncCommandExecutor` (`command_executor.rs`) | a spawned child, its pipes, a channel of log lines | `new`, `execute`, `handle_output`, `log_output` | initdb, pg_ctl |
| Extension installation (`pg_access.rs`) | files in the shared cache | `install_extension`, `share_extension_dir` | the file system |
| Database operations (`postgres.rs`) | databases in the server, a pool in `migrate` | `create_database`, `drop_database`, `database_exists`, `migrate` | sqlx |
| `pg_commands`, `pg_enums`, `pg_errors`, `pg_types` | none | argument lists, status and error of each process type, platform detection | |
| initdb, pg_ctl, postmaster (external) | cluster directory, `postmaster.pid`, the running server | | |

### What is hard

* **Children outlive calls.** `execute` drops the `Child` when its timeout
  elapses or its future is dropped, and nothing kills the process. initdb goes on
  writing, pg_ctl goes on starting or stopping, next to the calls that follow.
* **Pipes.** The executor reads the pipes only after the exit; the synchronous
  stop reads them one after the other; and the server that `pg_ctl start` leaves
  behind inherits both.
* **Flags are set before the fact.** `shutting_down` and `server_status` change
  before the child is spawned, and no failure resets them. `Drop` believes
  `shutting_down`.
* **A file stands for a whole.** `PG_VERSION` for a cluster, `bin/initdb` for a
  distribution, a directory under `share` for the layout of a package. A crash,
  a failure or a concurrent writer between the two makes the check wrong.
* **A lock with two holes.** The mutex of `ACQUIRED_PG_BINS` is held over the
  whole acquisition, but only within one process, and a cancelled caller gives it
  back while the blocking worker still unpacks. `install_extension` and `purge`
  write to the same directories and take no lock at all.
* **Background file operations.** `tokio::fs` runs on a pool of threads: a write
  is done when it is buffered, and a creation or a copy goes on after its
  caller was dropped.
* **Partial removal.** `clean` attempts both removals, `clean_up` stops at the
  first error, `purge` ignores errors.

### What makes each component correct

* Lifecycle: the status agrees with the postmaster between calls; no server
  outlives its value; `Drop` may be told not to stop only if there is nothing to
  stop; no finished cluster is lost; the password file goes with the value; every
  call returns.
* Acquisition: one task at a time downloads or unpacks a distribution; what is
  installed is not downloaded again; who is told Ok finds the whole
  distribution; no failure leaves the mutex taken; every caller gets an answer.
* Setup: each cluster gets the password of its own value, the URI of a value
  opens the cluster it was set up on, no password is left behind, and the
  binaries found in the cache are the right ones.
* Executor: an answer comes after the exit and tells how the child exited; no
  line is lost; the server never blocks on a pipe that nobody reads.
* Extensions: an install that succeeds leaves what the server can load, whatever
  failed or cancelled installs left there before.
* Databases: a migrate that succeeds has applied every migration where it was
  asked to; concurrent migrates do not fail each other; every call returns.

`PROJECT.json` lists the hazards line by line with the properties that cover them.

## 2. The modules

| Module | What it is |
|---|---|
| `PgTypes` | statuses, process types, errors; platform detection, the artifact and its place in the cache, as operators |
| `ManagedServer` | what a value promises about its server and its cluster |
| `PgEmbed` | one `PgEmbed` value after another over one cluster directory, with their children and the postmaster; implements `ManagedServer` |
| `Command` | what a caller takes a command to be: one exit, one answer |
| `PgExecutor` | one command, with pipes, reader tasks, channel and log; implements `Command` |
| `BinaryCache` | what the acquisition promises: an atomic cache |
| `PgAccess` | acquisition of the binaries by tasks of one or more processes; implements `BinaryCache` |
| `PgSetup` | several values that share caches and password files |
| `PgExtension` | installs of an extension next to each other, the acquisition and purge |
| `PgDatabases` | the calls that go through sqlx, by several tasks |
| `PgSession` | `PgExtension` and `PgDatabases` side by side: a program from setup to migrate |
| `MC*`, `*.cfg` | instances for TLC |
| `*_proof` | theorems about the module they are named after; `PgCache_proof` continues `PgAccess_proof` |

The modules meet at steps that one takes whole and another opens up. `PgEmbed`
runs several commands and abstracts their output; `PgExecutor` has one command
with its output and implements `Command`, the step `PgEmbed` relies on.
`PgEmbed` and `PgSetup` take the acquisition as one step (`Setup`, `Acquire`);
`PgAccess` opens it and implements `BinaryCache`, which says that it may be taken
so. `PgExtension` takes the unpacking as one step for the same reason.
`PgSession` composes the last two: the server finds an extension where and when
`PgExtension` says it is usable.

Names are those of the source. In each module a method that awaits is a label
(`pc`, `at` or `call`) and one action per await; an action called `...Error` is
the `map_err` or early return of the line it maps to; `Fault(kind)` guards what
the environment may do, and `faults` is a history of what it did.

### PgEmbed and ManagedServer

`alive`, `persistent`, `status` and `shuttingDown` are fields of the struct;
`call` and `child` are the method in progress and the `Child` it waits for. `cmd`
and `at` describe every child that exists, awaited or abandoned; `cluster`,
`pwFile` and `pidFile` are files; `late` is a `File::create` of the password file
whose future was dropped and which the blocking pool has yet to run; `server` is
the postmaster.

Methods take `&mut self`, so one is in progress at a time. A method is two steps,
its beginning (flags, then spawn) and its end (`Return`, `SyncReturn`,
`DropEnd`), with everything else in between: children and server move, the call
is interrupted (`Interrupt`: timeout, dropped future, failed `wait`), or the
process ends (`Crash`). `Run` holds the failed spawn, which returns at once and
leaves the flags as they were set. `setup` sets `Initialized` or goes on as
`init_db`; that it holds `&mut self` throughout is why its steps before the spawn
are one. A setup dropped among those steps is `SetupInterrupt`: the password file
is there, is not, or comes later (`LateCreate`), before the drop or after. `clean_up` is a path helper, called by the application; a precondition
says it is not called on the directory of a running server (as in
`tests/lifecycle.rs`).

The cluster directory is `absent`, `empty`, `debris` (files, no `PG_VERSION`),
`partial` (`PG_VERSION`, initdb not finished) or `ready`. A removal that fails
leaves any of the states it may pass through. An initdb whose files are removed
under it is `doomed`: it cannot succeed any more and, as a failing initdb does,
empties the directory when it gives up - whatever is in it by then.

External programs follow what the crate relies on: `initdb` demands an empty
directory and the password file; `pg_ctl start -w` and `stop -w` return when the
server is up or gone, or give up after their own waiting time (`GiveUp`). A
postmaster that finds its lock file missing stops itself.

Initially there is no value and the directory is absent, empty, or a cluster of
an earlier persistent run.

`ManagedServer` knows no children, flags or files: a call in progress, what the
answers so far tell about the server (`says`), the server, and whether there is a
finished cluster (`data`). The server moves only for the call that asks for it,
answers are true, a start is refused only when the server runs or there is
nothing to start, and the drop returns with the server down.
`ImplementsServer` maps `says` to what `server_status` and `shutting_down`
together stand for, and `data` to a `ready` cluster. The promise lasts until the
first disturbance: an interrupted call, a failed spawn, a crash, or a PostgreSQL
that fails by itself. Failing removals do not end it.

### PgExecutor and Command

A behaviour is about one case: who calls (`async`, the executor; `sync`,
`handle_process_io_sync`), the process type, and the programs of the child and of
the server it may leave behind, each a sequence of lines to a stream, of `ready`
(the server accepts connections) and of `await` (`pg_ctl start -w`). `wrote`
and `took` count the lines that went into and out of a pipe of `Capacity`
lines; a write to a full pipe waits, and a write to a pipe whose read end is
closed ends pg_ctl but neither initdb nor the postmaster, which ignore SIGPIPE.
`reader`, `queued`, `logger` and `logged` are the tasks `command_execution`
leaves behind, the channel between them and the log. `Wait` has the order of the
code: exit first, readers afterwards. `Timeout` drops the child and the read
ends; `Shutdown` is a runtime that goes with its tasks.

`ImplementsCommand` maps the exit status to itself and the state of the call
and its result to an answer: `Command` answers once, after the exit and as the
child exited, or gives up.

### PgAccess and BinaryCache

Each task is at a label `pc` of `maybe_acquire_postgres`, one step per await.
`holder` is the owner of a process's mutex, `status` the map behind it. `zip`,
`dirs` and `files` are the cache on disk: a jar or a file that is being written
carries its writer's name, so that a second writer shows. `work`, `todo` and
`cur` are the blocking worker, which continues after `Cancel`.

Jars are `good`, `bad` (unreadable, or cut short by a write that failed in the
background) or `noxz` (an archive without the tarball). The files of a
distribution are unpacked in any order, each created and then written; `InitDb`
is the one `pg_executables_cached` asks for. `Purge` removes one entry at a time, with
the acquisitions in between.

`BinaryCache` has requests and a set of installed distributions; `Install` is
atomic. `ImplementsCache` maps `pc` and `ret` to the request and the
directories whose files are all complete to `installed`.

### PgSetup

Several values, each from `new` to `drop`, over database directories that are
pairs of a stem and an extension: `PwFile` is the stem, as `set_extension` makes
it. A password is the value it belongs to; a password file is absent, empty,
holds one password, or is `mixed` when a write from offset 0 meets a longer one.
`late` and `pending` are the creations and the writes of `tokio::fs::File` that
are still on their way. `child` is the initdb of a value, which goes on when the
call is given up (`GiveUp`), when the value is dropped and when its process ends
(`Crash`); `clusters` has the password in it from the moment initdb read its
file, and a directory emptied under an initdb dooms it, as in `PgEmbed`.
`untidy` are the values that may have left such an initdb or a directory against
their will. `packages` has the artifact in each cache directory, by
`Artifact` and `CacheDir` of `PgTypes`, which translate `start_download` and
`create_cache_dir_structure`. No two live values have the same database
directory.

### PgExtension

`install_extension` one await after the other. `Candidates` are the two share
directories it looks for, `layout` the one this package's server uses, and
`tree` the directories there are. A file is `by` the builds whose bytes may be
in it and `whole` if the copy that truncated it last has come to its end.
`copying` outlives the call, as `tokio::fs::copy` does, and so does a copy that
still waits for a thread when its call is cancelled (`queued`): it truncates its
file later. `Purge` removes the cache in the middle of everything.

### PgDatabases and PgSession

Each task makes one call. `create_database`, `drop_database` and
`database_exists` are one statement on the maintenance database. `migrate` reads
the migrations, connects, and runs sqlx's `Migrator`: lock, list, apply each
migration, unlock. The pool is a local of `migrate`: `session` is its connection,
which the server ends (`SessionEnd`) some time after the return, and with it the
advisory lock (`locked`). `Crash` ends the server and all sessions.

`PgSession` starts the server only when the binaries are there and evaluates
`extension` of `PgDatabases` as `Usable` of `PgExtension`.

## 3. The runs

| Run | Instance | Shows |
|---|---|---|
| `embed_lifecycle` | 2 child slots, every fault | type invariant, seven properties below |
| `embed_live` | 2 slots, interrupts and failing servers | `CallsReturn` |
| `embed_drop` | 2 slots, interrupts | `DropStopsServer` is violated (finding) |
| `embed_setup` | 2 slots, interrupts | `SetupAcceptsOnlyComplete` is violated (finding) |
| `executor` | 9 commands, pipes of 2 lines, a channel of 1; every fault | type invariant, `NothingLost`, `ImplementsCommand`, `CallReturns`, `ServerNeverStuck`, `LogTaskEnds` |
| `access_acquire` | 3 tasks, 1 process, 2 distributions, 2 files; failing I/O | type invariant, `CachedMeansInstalled`, `ImplementsCache` |
| `access_faults` | 2 tasks, 1 process, 1 distribution; every fault | `LockHeldByHolder`, `SingleWriter`, `DownloadedOnce`, `StatusMeaning`, `OkMeansInstalled` |
| `access_shared` | 3 tasks in 2 processes, 1 distribution; failing I/O, broken jars, cancelled callers | `AllOrNothing` |
| `access_live` | 2 tasks, 1 process; every failure of a call | `CallsReturn` |
| `setup` | 2 values, 3 directories with 2 password files, 3 fetch settings; every fault | type invariant, `SetupSucceeds`, `SecretGone`, `PackageFits`, `PasswordFits`, `OwnPassword` |
| `extension` | 2 installs, 2 builds, a library, a script and a file to skip; every fault | type invariant, `InstalledMeansUsable` |
| `session` | 1 install, 2 tasks, 1 database, 2 migrations; failing statements, server crashes | type invariant, `MigratedMeansApplied`, `MigrateSucceeds`, `CallsReturn` |

Each fault kind is a switch in the constant `Faults`. The properties say under
which faults they hold by their premise over the history `faults`, so a run
with all faults checks the undisturbed histories as well.

* `StatusTruthful`, `FlagTruthful`, `NoOrphanServer` hold as long as no call is
  interrupted, no spawn fails, the process does not crash and PostgreSQL does not
  fail by itself; failing removals do not matter. The premise is real: with
  interrupts, `DropStopsServer` shows the server left behind.
* `InitializedMeansReady` needs a history without faults.
* `PasswordRemoved` holds under everything, a call that was interrupted and a
  directory that stays included, but a crash, the failing removal of the file
  itself, and a `late` creation: one that was asked for by a setup that was
  dropped, and runs after the drop of the value. A creation that runs before does
  no harm. `PgSetup` has what the file holds then (nothing).
* `ReadyDataKept` holds under every fault; its third case is the
  initdb whose directory was removed by `clean_up` and reused.
* `ImplementsServer` says all that at once, and more: no step of a child moves the
  server for anybody but the call that is waiting, and a refused start or a
  missing answer has a reason. Its premise is a variable of `ManagedServer`.
* `CallReturns` has a premise, `Fits`, which is the price of waiting before
  reading: a child whose output does not fit in the pipes waits for a reader, the
  call for its exit, and only a timeout ends that. `ServerNeverStuck` needs no
  such premise: once the call has returned the pipes are read or closed.
* `NothingLost` counts the lines of child and server in the log against those
  written when the log task ends; only an unreadable line or a runtime shut down
  may lose any.
* `LockHeldByHolder` and the type invariants hold under every fault.
* `SingleWriter` and `DownloadedOnce` need callers that do not give up;
  `CachedMeansInstalled` an acquisition that is not torn (no failed extraction,
  cancellation, crash or purge); `StatusMeaning` neither broken jars,
  cancellation nor purge; `OkMeansInstalled` neither cancellation nor purge, and a
  jar with a tarball in it. All are about one process: the mutex is no more
  than that.
* `AllOrNothing` needs no lock at all: when the last worker is done the
  distribution is whole, because every worker that began goes to its end and
  overwrites what it finds.
* `OwnPassword` holds under every fault for a value that never shared its
  password file (`alone`): initdb reads this value's password or none.
  `SetupSucceeds` needs no fault in addition, `SecretGone` only a drop whose
  removal of the file works. `PasswordFits` is about the time after: the cluster a
  value is set up on has the password of its URI. It excepts directories that a
  persistent value used before, whose cluster keeps its password, and those where
  an earlier value gave its initdb up, lost its process or failed to remove the
  directory (`untidy`): the cluster of that value is or comes there, and the code
  compares nothing. That these are the only ways is what the run and the theorem
  show; an initdb or a setup that failed, a late or lost write and a late
  creation are none.
* `InstalledMeansUsable` names what may spoil an install that returned Ok: a
  purge, another install that wrote other bytes or failed half-way at the same
  time (`Harmless`), or an install before the acquisition that made the share
  directory this package does not use (`Misplaced`). Installs that failed or were
  cancelled before it began do no harm.
* `MigratedMeansApplied` holds under every fault; `MigrateSucceeds` when the
  extension was in place and no statement and no server fails, whatever the other
  tasks do.

**Bounds.** Two child slots allow one abandoned child next to the one a call
waits for; a third would only repeat the second. Values follow one another
without limit. Pipes of two lines and programs of up to five give each kind of
command a case that fits and one that blocks; a channel of one line makes
readers wait for the log. Two tasks contend for a mutex, three also queue; two
processes are the least that share a cache; two files are the least that can be
torn (`initdb` and another). A task asks again only when its last worker is
done, which bounds the workers by the tasks. Two values are the least that share
a password file or a cache, and one can follow the other on one directory.
Two installs are the least that interleave or follow a failed one. Two tasks
cover every pair of calls on one database; two migrations are the least that can
be applied in part, the second needs the extension.

**Symmetry** is used where constants are interchangeable and only for safety:
child slots in `embed_lifecycle`, the two tasks of one process in
`access_shared`, values in `setup`, installs and builds in `extension`. Deadlock
is checked where a caller can always call (`PgEmbed`, `PgAccess`); the other
systems come to an end: one command, values that are each dropped once, one call
of each task.

**Fairness.** `PgEmbed`: child processes, the postmaster's start and stop, and
the return of a call whose child has exited are weakly fair. The runtime polls a
woken task and the operating system runs processes. Nothing forces a caller to
call, a timeout to elapse, or a fault to happen.
`PgExecutor`: the call, the tasks it leaves and the steps of the processes are
weakly fair; a server need never exit.
`PgAccess`: the steps of tasks and workers are weakly fair, and taking the
mutex is strongly fair because tokio's mutex queues its waiters first come first
served. Weak fairness on a transfer is an assumption on the network: the code
sets no deadline on the download (`pg_fetch.rs:130`), and a server that stalls
for ever would block every task of the process.
`PgSession`: installs, calls and the end of a session whose client has gone are
weakly fair. The advisory lock needs no more, as each task calls once.

## 4. The proofs

The only assumptions are those on the constants: `None` is none of the things it
stands in for (a path, a call, a database, a task), a task is not the mark of a
file or jar, every task has a process and a directory, `InitDb` is a file, the
cases of the executor are programs of the kinds described, the settings are fetch
settings, the entries of an extension have a kind, capacities are positive, and
`Faults` are kinds of fault. `PgSession` assumes of its constants what
`PgExtension` and `PgDatabases` assume of theirs.
Everything else is arbitrary: how many children, tasks, processes, directories,
files, values and settings there are, and which programs run.

**PgEmbed_proof.** Type correctness (`TypeCorrect`) comes first. The properties
on undisturbed histories are not inductive: that a server is down once the value
is gone depends on which child is at work and for whom. The inductive
invariant `IInv` (`Invariance`) therefore adds, for undisturbed histories
(`Calm`), that the only child is the one the call waits for and runs its
command, that the server moves only on behalf of that child, that
`shutting_down` is on the way to a stop, and how the status follows the call;
and for histories without faults (`ClusterFollowsInitdb`) that a partial cluster
has its initdb still running. `StatusIsTruthful`, `FlagIsTruthful`, `NoOrphan`
and `InitializedIsReady` follow from it. `PasswordIsRemoved` is proved by itself
under every fault: it is inductive, because a creation that comes after the drop
is itself one of the exceptions. `ReadyDataIsKept`, an action property, rests on
`InitdbAlone`: an initdb at work is alone in its directory, which is partial, so
one that fails destroys a finished cluster only if it was doomed.
`ImplementsTheServer` takes the refinement step by step: a step that leaves the
history undisturbed is one of the promised steps or a stutter, by `IInv`, by
`InitdbAlone` (whoever finishes a cluster does so for the waiting init_db and
finds none), and by `StartHasReason`, which has to be added: a `pg_ctl start` that
failed found the server up or no cluster, and that has not changed since.

**ManagedServer_proof** shows that the promise is worth having: from it alone
follows `Reliable`, that between calls the server is up or down and never on its
way, what was said of it is true, and without a value it is down (`IsReliable`).
`ServerIsReliable` of `PgEmbed_proof` instantiates that theorem with the
refinement mapping, so it holds of `PgEmbed` without another look at its steps.

**PgExecutor_proof.** The invariant (`Invariance`) adds to the types where each
line is: in a pipe, in a reader's hands, in the channel, or in the log; that the
tasks exist only after the call is done; and how the answer follows from the
exit. `NothingIsLost` follows because the log task ends with everything read and the channel
empty. `ImplementsTheCommand` maps every step to a step of `Command` or to a
stutter.

**PgAccess_proof.** `LockIsHeldByHolder` is inductive given the types.
`WriterIsSingle` adds that a worker has its task waiting for it
(`WorkerAwaited`), which is what cancellation breaks. `IsDownloadedOnce` adds
that whoever downloads found no initdb, and that nobody else has put one there
since (`RequestMissing`). `CachedIsInstalled` rests on `WholeOrNothing`: the
files of a directory follow the worker that unpacks them, and in a directory
nobody acquires for, all files are there or none.

**PgCache_proof** goes on about `PgAccess`. `IsAllOrNothing` needs no lock: a
file that is neither absent nor complete has its worker, a worker has left a
file wherever it has been, and it goes to its end (`WorkersFinish`).
`OkIsInstalled` and `StatusIsMeaningful` do: what the task, its jar and its
worker find in the cache is what they have put there (`Course`), and nobody
acquires what the map calls finished (`MapMeaning`). `ImplementsTheCache` maps
the write of a worker's last file to the installation and an answer to a grant or
a refusal, for directories of one process and faults that are failing i/o, the
premise the property has in its run too; it needs in addition that what is still
to be unpacked is not there (`StillMissing`).

**PgSetup_proof.** The invariant says what a password file can hold for a value
that is alone with it, by how far the value has come and what is still pending;
and that the package in a cache directory has the platform of that directory,
which needs that `CacheDir` tells apart what `Platform` tells apart.
`SetupDoesSucceed`, `PasswordIsOwn`, `SecretIsGone` and `PackageDoesFit` follow.
`PasswordDoesFit` needs to know where a cluster and an initdb come from. `AtWork`:
an initdb works for a value that waits for it, or one that is untidy.
`Answered`: each cluster has somebody to answer for it, the value that has it
(set up, or while its initdb makes it), a persistent value that has left, or an
untidy one. So where nobody else has left anything (`Undisturbed`) a value finds
no cluster, and the one its initdb makes has the password initdb read
(`Matching`), its own (`OwnFile`, from which `PasswordIsOwn` follows too).

**PgExtension_proof.** A file is spoilt by others in many ways, so the invariant
says for an install that nothing has spoilt (`Unspoilt`, the premise of
`InstalledMeansUsable` while the install runs) that what it has copied is
`Good`: of its build alone, and whole or with a copy at work that nobody has
truncated since. `Courses` has what makes rivals visible (whoever copies runs or
was cancelled, and what was over before stays over), `InPlace` that without a
misplaced install there is no share directory but the package's own.
`InstalledIsUsable` follows at the return.

**PgSession_proof.** `Sessions` says that a session is on the database its call
is about and does not know more to be applied than is; with it
`MigratedIsApplied` holds under every fault. `MigrateDoesSucceed` needs two
invariants more: without faults who lists and applies holds the advisory lock
and knows exactly what is applied (`Exclusive`), and for a task that was prepared
the extension stays usable (`Waiting`), whatever other installs have done before.
The composition is proved, not assumed: `ImplementsTheExtension` shows that the
session, seen through the variables of `PgExtension`, is a behaviour of
`PgExtension`, so the theorems of `PgExtension_proof`, instantiated, hold in it
(`TypeCorrect`, `InstalledIsUsable`).

**Model-checked only.** Liveness (`CallsReturn`, `CallReturns`,
`ServerNeverStuck`, `LogTaskEnds`), which is out of the prover's reach, and the two
violated properties, which are counterexamples. Every invariant, action property
and refinement that a run checks is proved.

## 5. Findings

Disagreements between documentation and code, in `PROJECT.json` with their
lines. Two have a run that shows the behaviour: `Drop` does not stop a server
after a `stop_db` that timed out or was cancelled; `setup` accepts an unfinished
cluster. Others showed as a premise a property cannot do without: an archive
without an `.xz` entry is no error; a cancelled caller breaks the exclusion the
handbook promises; the executor waits for the exit before it reads; the password
may not be in its file when initdb reads it, may be another value's, and may
leave an empty file behind. The rest are plain from the code: no failure sets
`Failure`, a timeout does not kill the process, `purge` does not reset the map,
no task polls it, `PgProcessError` is never returned, the default version and the
detection of the platform are not as described, and a jar put into the cache by
hand is not used.

## 6. Not modelled

* `fetch_postgres` returns a jar in memory; only a test calls it, and it keeps no
  state.
* `PgAuthMethod`, argument lists, URIs and the texts of errors and logs are
  formatting; which program runs for which method, with which password file and
  in which directory, is modelled.
* `lib.rs` declares modules.
* PostgreSQL, sqlx, tokio and the file system are external and modelled as far as
  the crate relies on them. `clean_up` is one step, although it awaits twice.
* Two `PgEmbed` values over one cluster directory at the same time: PostgreSQL's
  own lock file is what decides there, not this crate.
* A persistent cluster reopened with another password keeps the one it was
  initialised with (`PgSetup`, `clusters`); `PasswordFits` excepts it, and nothing
  says what such a program would want.
* In `PgSetup` a removal of the database directory that fails leaves all of it; a
  cluster that lost part of its files is in `PgEmbed` (`debris`, `partial`).
* In `PgAccess` a cancelled call leaves no creation and no write of the jar on its
  way. They could only spoil the jar of a later task, as a broken package
  (`package`) and a rival of another process do. The response to the request
  touches nothing shared, so the request and the creation of the jar are one step.
* The synchronous stop reads no exit code, so for it `Command` says that the
  answer comes after the exit and nothing more (`CommandAnswer`).
* `Purge` of `PgExtension` removes the cache at once; every property about an
  install that overlaps one excepts it.
* `session` has no failing installs or purges: what they do is checked in
  `extension`, and in the theorems of `PgAccess` for the binaries.

## 7. The plan

What is left: the one-step acquisition of `PgSetup` as a step of `BinaryCache`,
stated and proved rather than argued; what of `ManagedServer` survives a
disturbance, as a second promise that starts again with the next value; and
theorems for several processes in `PgAccess` beyond `AllOrNothing`.
