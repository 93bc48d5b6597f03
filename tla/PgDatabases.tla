----------------------------- MODULE PgDatabases -----------------------------
(***************************************************************************)
(* create_database, drop_database, database_exists and migrate of PgEmbed: *)
(* each takes &self, so that tasks call them side by side.                 *)
(*                                                                         *)
(* sqlx and the server are external and modelled from the calls made here: *)
(* the first three open a connection to the maintenance database for one   *)
(* statement; Migrator::run takes an advisory lock for the session, lists  *)
(* what is applied, applies the rest in order, each in a transaction, and  *)
(* releases the lock.  An error on the way releases nothing: the lock goes *)
(* when the server ends the session, some time after migrate has dropped   *)
(* its pool.                                                               *)
(***************************************************************************)
EXTENDS Sequences, Naturals

CONSTANTS
    Tasks,        \* each makes one call
    Names,        \* databases the calls are about
    Maintenance,  \* the database that is always there
    MigrationDir, \* PgSettings::migration_dir is given
    Migrations,   \* what each migration is, in order: one that is an
                  \* "extension" runs CREATE EXTENSION, a "plain" one does not
    None,
    DbFaults      \* the kinds of fault the environment may produce

DbFaultKinds == {
    "error",      \* the migrations, a connection or a statement fails
    "crash" }     \* the server ends and takes the sessions with it

VARIABLES
    server,     \* the server accepts connections
    databases,  \* the databases there are
    applied,    \* how many migrations a database records as applied
    op,         \* what a task has called, and for which database
    at,         \* where the call is, or its answer
    session,    \* the database its pool is connected to
    locked,     \* the task whose session holds a database's advisory lock
    seen,       \* how many migrations it knows to be applied
    dropped,    \* tasks whose database was dropped after their Ok (history)
    dbFaults,   \* the kinds of fault that have happened (history)
    extension   \* the server finds the extension; not changed here

calls    == <<op, at, seen>>
sessions == <<session, locked>>
dbVars   == <<server, databases, applied, calls, sessions, dropped, dbFaults>>

All     == Names \union {Maintenance}
Methods == {"create", "drop", "exists", "migrate"}
Calls   == [method : Methods, db : Names]
Count   == Len(Migrations)

Connected == {"lock", "list", "apply"}
Answers   == {"ok", "true", "false",
              "PgTaskJoinError", "SqlQueryError", "MigrationError"}

TypeOK ==
    /\ server \in BOOLEAN
    /\ databases \subseteq All /\ Maintenance \in databases
    /\ applied \in [All -> 0 .. Count]
    /\ op \in [Tasks -> Calls \union {None}]
    /\ at \in [Tasks -> Connected \union Answers \union
                          {"idle", "source", "connect"}]
    /\ session \in [Tasks -> All \union {None}]
    /\ locked \in [All -> Tasks \union {None}]
    /\ seen \in [Tasks -> 0 .. Count]
    /\ dropped \subseteq Tasks /\ dbFaults \subseteq DbFaults
    /\ \A t \in Tasks : session[t] \in databases \union {None}
    /\ \A d \in All : locked[d] # None => session[locked[d]] = d

\* The cluster may be new or hold databases of an earlier run.
Init ==
    /\ server = FALSE
    /\ databases \in {D \union {Maintenance} : D \in SUBSET Names}
    /\ applied = [d \in All |-> 0]
    /\ op = [t \in Tasks |-> None] /\ at = [t \in Tasks |-> "idle"]
    /\ session = [t \in Tasks |-> None] /\ locked = [d \in All |-> None]
    /\ seen = [t \in Tasks |-> 0]
    /\ dropped = {} /\ dbFaults = {}

Fault(kind) == kind \in DbFaults /\ dbFaults' = dbFaults \union {kind}
Goto(t, label) == at' = [at EXCEPT ![t] = label]

----------------------------------------------------------------------------
(* The server *)

StartDb ==
    /\ ~server /\ server' = TRUE
    /\ UNCHANGED <<databases, applied, calls, sessions, dropped, dbFaults>>

\* What is committed stays; sessions and their locks do not.
Crash ==
    /\ server /\ Fault("crash")
    /\ server' = FALSE
    /\ session' = [t \in Tasks |-> None] /\ locked' = [d \in All |-> None]
    /\ UNCHANGED <<databases, applied, calls, dropped>>

\* Mutant: the pool of a failed migrate is kept.
SessionEnd_onSuccess(t) ==
    /\ session[t] # None /\ at[t] = "ok"
    /\ session' = [session EXCEPT ![t] = None]
    /\ locked' = [d \in All |-> IF locked[d] = t THEN None ELSE locked[d]]
    /\ UNCHANGED <<server, databases, applied, calls, dropped, dbFaults>>

\* The server ends the session of a pool that migrate has dropped.
SessionEnd(t) ==
    /\ session[t] # None /\ at[t] \in Answers
    /\ session' = [session EXCEPT ![t] = None]
    /\ locked' = [d \in All |-> IF locked[d] = t THEN None ELSE locked[d]]
    /\ UNCHANGED <<server, databases, applied, calls, dropped, dbFaults>>

----------------------------------------------------------------------------
(* The calls *)

\* Mutant: the name is not appended to the URI.
FullDbUri_base(d) == Maintenance

\* full_db_uri: the database of the URI is the one asked for.
FullDbUri(d) == d

Uri(t) == FullDbUri(op[t].db)

\* migrate returns at once if no migration_dir is given.
Begin(t, method, d) ==
    /\ at[t] = "idle"
    /\ op' = [op EXCEPT ![t] = [method |-> method, db |-> d]]
    /\ Goto(t, IF method # "migrate" THEN "connect"
               ELSE IF MigrationDir THEN "source" ELSE "ok")
    /\ UNCHANGED <<server, databases, applied, seen, sessions, dropped,
                   dbFaults>>

Doing(t, method, label) ==
    /\ op[t] # None /\ op[t].method = method /\ at[t] = label

CreateDatabase(t) ==
    /\ Doing(t, "create", "connect")
    /\ server /\ Uri(t) \notin databases
    /\ databases' = databases \union {Uri(t)}
    /\ Goto(t, "ok")
    /\ UNCHANGED <<server, applied, op, seen, sessions, dropped, dbFaults>>

\* Mutant: only migrations in progress count.
InUse_migrating(d) ==
    d \in databases /\ \E t \in Tasks : session[t] = d /\ at[t] \in Connected

\* A session on the database, of a pool whose migrate has returned too.
InUse(d) == d \in databases /\ \E t \in Tasks : session[t] = d

\* DROP DATABASE IF EXISTS waits a while for the sessions on the database to
\* end.
DropDatabase(t) ==
    /\ Doing(t, "drop", "connect")
    /\ server /\ ~InUse(Uri(t))
    /\ databases' = databases \ {Uri(t)}
    /\ applied' = [applied EXCEPT ![Uri(t)] = 0]
    /\ dropped' = dropped \union
           {s \in Tasks : at[s] = "ok" /\ op[s].db = Uri(t)}
    /\ Goto(t, "ok")
    /\ UNCHANGED <<server, op, seen, sessions, dbFaults>>

DatabaseExists(t) ==
    /\ Doing(t, "exists", "connect") /\ server
    /\ Goto(t, IF Uri(t) \in databases THEN "true" ELSE "false")
    /\ UNCHANGED <<server, databases, applied, op, seen, sessions, dropped,
                   dbFaults>>

\* No server, or a database that exists or is in use.
StatementError(t) ==
    /\ op[t] # None /\ op[t].method # "migrate" /\ at[t] = "connect"
    /\ \/ ~server
       \/ op[t].method = "create" /\ Uri(t) \in databases
       \/ op[t].method = "drop" /\ InUse(Uri(t))
    /\ Goto(t, "PgTaskJoinError")
    /\ UNCHANGED <<server, databases, applied, op, seen, sessions, dropped,
                   dbFaults>>

----------------------------------------------------------------------------
(* migrate *)

\* Migrator::new reads the directory.
Source(t) ==
    /\ Doing(t, "migrate", "source")
    /\ Goto(t, "connect")
    /\ UNCHANGED <<server, databases, applied, op, seen, sessions, dropped,
                   dbFaults>>

Connect(t) ==
    /\ Doing(t, "migrate", "connect")
    /\ server /\ Uri(t) \in databases
    /\ session' = [session EXCEPT ![t] = Uri(t)]
    /\ Goto(t, "lock")
    /\ UNCHANGED <<server, databases, applied, op, seen, locked, dropped,
                   dbFaults>>

\* A database that is not there fails at once; a server that is not there is
\* tried again until the pool gives up.
ConnectError(t) ==
    /\ Doing(t, "migrate", "connect")
    /\ ~(server /\ Uri(t) \in databases)
    /\ Goto(t, "SqlQueryError")
    /\ UNCHANGED <<server, databases, applied, op, seen, sessions, dropped,
                   dbFaults>>

\* Mutant: Migrator::set_locking(false).
Lock_off(t) ==
    /\ at[t] = "lock" /\ session[t] # None
    /\ Goto(t, "list")
    /\ UNCHANGED <<server, databases, applied, op, seen, sessions, dropped,
                   dbFaults>>

\* The first step of Migrator::run: pg_advisory_lock waits without a limit.
Lock(t) ==
    /\ at[t] = "lock" /\ session[t] # None
    /\ locked[session[t]] = None
    /\ locked' = [locked EXCEPT ![session[t]] = t]
    /\ Goto(t, "list")
    /\ UNCHANGED <<server, databases, applied, op, seen, session, dropped,
                   dbFaults>>

List(t) ==
    /\ at[t] = "list" /\ session[t] # None
    /\ seen' = [seen EXCEPT ![t] = applied[session[t]]]
    /\ Goto(t, "apply")
    /\ UNCHANGED <<server, databases, applied, op, sessions, dropped, dbFaults>>

\* A migration goes through once, and only with what it needs.
Applies(t) ==
    /\ applied[session[t]] = seen[t]
    /\ Migrations[seen[t] + 1] = "extension" => extension

Apply(t) ==
    /\ at[t] = "apply" /\ session[t] # None /\ seen[t] < Count
    /\ Applies(t)
    /\ applied' = [applied EXCEPT ![session[t]] = @ + 1]
    /\ seen' = [seen EXCEPT ![t] = @ + 1]
    /\ UNCHANGED <<server, databases, op, at, sessions, dropped, dbFaults>>

Unlock(t) ==
    /\ at[t] = "apply" /\ session[t] # None /\ seen[t] = Count
    /\ locked' = [locked EXCEPT ![session[t]] = None]
    /\ Goto(t, "ok")
    /\ UNCHANGED <<server, databases, applied, op, seen, session, dropped,
                   dbFaults>>

\* The session is gone, or a migration does not go through.  The error leaves
\* migrate with the lock as it is.
MigrateError(t) ==
    /\ at[t] \in Connected
    /\ \/ session[t] = None
       \/ /\ at[t] = "apply" /\ session[t] # None /\ seen[t] < Count
          /\ ~Applies(t)
    /\ Goto(t, "MigrationError")
    /\ UNCHANGED <<server, databases, applied, op, seen, sessions, dropped,
                   dbFaults>>

----------------------------------------------------------------------------

\* What a call answers when what it is at fails: the statement, the reading of
\* the migrations, the connection, or a statement of Migrator::run.
ErrorAt(t) ==
    CASE at[t] = "connect" /\ op[t].method # "migrate" -> "PgTaskJoinError"
      [] at[t] = "connect" /\ op[t].method = "migrate" -> "SqlQueryError"
      [] at[t] \in Connected \union {"source"}         -> "MigrationError"

Fail(t) ==
    /\ at[t] \in Connected \union {"source", "connect"} /\ Fault("error")
    /\ Goto(t, ErrorAt(t))
    /\ UNCHANGED <<server, databases, applied, op, seen, sessions, dropped>>

\* What a call and the server do of themselves.
Step(t) ==
    \/ CreateDatabase(t) \/ DropDatabase(t) \/ DatabaseExists(t)
    \/ StatementError(t)
    \/ Source(t) \/ Connect(t) \/ ConnectError(t)
    \/ Lock(t) \/ List(t) \/ Apply(t) \/ Unlock(t) \/ MigrateError(t)

----------------------------------------------------------------------------
(* What the calls promise *)

Migrated(t) == op[t] # None /\ op[t].method = "migrate" /\ MigrationDir

\* After migrate has returned Ok, every migration is applied in the database
\* it was called for, until that is dropped: whatever other tasks migrated,
\* created or dropped, and wherever an earlier one has failed or the server
\* has crashed.
MigratedMeansApplied ==
    \A t \in Tasks \ dropped :
        Migrated(t) /\ at[t] = "ok" =>
            op[t].db \in databases /\ applied[op[t].db] = Count
============================================================================
