------------------------------ MODULE PgSession ------------------------------
(***************************************************************************)
(* A program that uses PgEmbed to the full: it sets up, installs an        *)
(* extension, starts the server, creates databases and migrates them.      *)
(* PgExtension and PgDatabases side by side: what connects them is the     *)
(* cache, without which no server starts, and the extension a migration    *)
(* may create, for which the server looks in the cache.                    *)
(***************************************************************************)
EXTENDS Sequences, Naturals

CONSTANTS Installers, Builds, Entries, KindOf, None, Faults,
          Tasks, Names, Maintenance, MigrationDir, Migrations, DbFaults

VARIABLES binaries, layout, tree, file, pc, build, share, todo, queued,
          copying, intact, before, stale, missed, faults,
          server, databases, applied, op, at, session, locked, seen, dropped,
          dbFaults,
          ready  \* the installs that had made the extension usable when a
                 \* task began (history)

Ext == INSTANCE PgExtension
Db  == INSTANCE PgDatabases WITH extension <- Ext!Usable

ASSUME MigrationsAssumption == /\ MigrationDir \in BOOLEAN
                               /\ Migrations \in Seq({"plain", "extension"})
ASSUME NamesAssumption      == Maintenance \notin Names
ASSUME NoneAssumption       == /\ None \notin Tasks \union Db!All
                               /\ None \notin Db!Calls
ASSUME DbFaultsAssumption   == DbFaults \subseteq Db!DbFaultKinds
ASSUME ExtensionAssumption  == /\ KindOf \in [Entries -> Ext!Kinds]
                               /\ Faults \subseteq Ext!FaultKinds
                               /\ None \notin Ext!Paths

cacheVars == <<binaries, layout, tree, file, pc, build, share, todo, queued,
               copying, intact, before, stale, missed, faults>>
dbVars    == <<server, databases, applied, op, at, session, locked, seen,
               dropped, dbFaults>>
vars      == <<cacheVars, dbVars, ready>>

TypeOK == Ext!TypeOK /\ Db!TypeOK /\ ready \in [Tasks -> SUBSET Installers]

Init == Ext!Init /\ Db!Init /\ ready = [t \in Tasks |-> {}]

Install(A) == A /\ UNCHANGED <<dbVars, ready>>
Query(A)   == A /\ UNCHANGED <<cacheVars, ready>>

\* start_db runs the pg_ctl of the cache.
StartDb == binaries /\ Query(Db!StartDb)

Begin(t, method, d) ==
    /\ Db!Begin(t, method, d)
    /\ ready' = [ready EXCEPT ![t] =
                    IF Ext!Usable THEN {i \in Installers : Ext!Over(i)} ELSE {}]
    /\ UNCHANGED cacheVars

InstallStep(i) == Install(Ext!Step(i))
CallStep(t)    == Query(Db!Step(t))
SessionEnd(t)  == Query(Db!SessionEnd(t))

Next ==
    \/ Install(Ext!Next)
    \/ StartDb \/ Query(Db!Crash)
    \/ \E t \in Tasks :
          \/ \E m \in Db!Methods, d \in Names : Begin(t, m, d)
          \/ CallStep(t) \/ SessionEnd(t) \/ Query(Db!Fail(t))

Spec == Init /\ [][Next]_vars

\* The runtime goes on with every call, statements and copies end, and the
\* server notices that a connection was closed.  Nobody has to call, start or
\* set up anything.
Fairness ==
    /\ \A i \in Installers : WF_vars(InstallStep(i))
    /\ \A t \in Tasks : WF_vars(CallStep(t)) /\ WF_vars(SessionEnd(t))

FairSpec == Spec /\ Fairness

----------------------------------------------------------------------------

\* A migrate that returned Ok has left its database with every migration
\* (create_database, drop_database and migrate side by side, PgDatabases).
MigratedMeansApplied == Db!MigratedMeansApplied

\* The extension was usable when t began, and since then nobody has purged the
\* cache or begun another install.
Prepared(t) ==
    /\ ready[t] # {} /\ ready[t] \intersect stale = {}
    /\ \A i \in Installers \ ready[t] : pc[i] = "idle"

\* A migrate with the extension in place does not fail as long as the server
\* and the migrations do their part, also when other tasks create, drop and
\* migrate at the same time: no migration is applied by two of them.
MigrateSucceeds ==
    \A t \in Tasks :
        Db!Migrated(t) /\ Prepared(t) /\ dbFaults = {}
        => at[t] # "MigrationError"

\* Every call comes to its answer: none waits for ever for the advisory lock
\* of a task that has failed, or for a session that nobody ends.
CallsReturn ==
    \A t \in Tasks : at[t] # "idle" ~> at[t] \in Db!Answers
============================================================================
