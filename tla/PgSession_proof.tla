--------------------------- MODULE PgSession_proof ---------------------------
(***************************************************************************)
(* Proofs about PgSession for any installs, tasks, databases, migrations   *)
(* and faults: what migrate answers, and when it does not fail.            *)
(***************************************************************************)
EXTENDS PgSession, TLAPS

\* What is proved of PgExtension by itself, about the cache of the session.
ExtProofs == INSTANCE PgExtension_proof

\* A session is on the database of the call that made it, and what a call
\* knows to be applied is applied.
Sessions ==
    \A t \in Tasks :
        /\ at[t] \in Db!Connected \union {"source", "connect"} => op[t] # None
        /\ at[t] \in Db!Connected => op[t].method = "migrate"
        /\ at[t] \in Db!Connected \union Db!Answers \/ session[t] = None
        /\ session[t] # None => op[t] # None /\ session[t] = op[t].db
        /\ at[t] = "apply" /\ session[t] # None => seen[t] <= applied[session[t]]

\* As long as statements and the server do not fail, who applies migrations
\* holds the lock and knows exactly what is applied.
Exclusive ==
    dbFaults = {} => \A t \in Tasks :
        /\ at[t] \in Db!Connected => session[t] # None
        /\ at[t] \in {"list", "apply"} => locked[session[t]] = t
        /\ at[t] = "apply" => seen[t] = applied[session[t]]

\* The installs a task has waited for are over, and the extension is usable
\* for a task that is prepared.
Waiting ==
    /\ pc \in [Installers -> Ext!Running \union Ext!Outcomes \union {"idle"}]
    /\ queued \subseteq {i \in Installers : pc[i] = "cancelled"}
    /\ ready \in [Tasks -> SUBSET Installers]
    /\ \A t \in Tasks : /\ \A i \in ready[t] : Ext!Over(i)
                        /\ Prepared(t) => Ext!Usable
                        /\ at[t] = "idle" => ready[t] = {}

IInv == Db!TypeOK /\ Sessions /\ Exclusive /\ Waiting
                  /\ MigratedMeansApplied /\ MigrateSucceeds

\* What a step is for the databases, and what it is for the cache.
DbNext ==
    \/ Db!StartDb \/ Db!Crash
    \/ \E t \in Tasks :
          \/ \E m \in Db!Methods, d \in Names : Db!Begin(t, m, d)
          \/ Db!Step(t) \/ Db!SessionEnd(t) \/ Db!Fail(t)

LEMMA NextSplits ==
    ASSUME [Next]_vars
    PROVE  [DbNext]_dbVars /\ [Ext!Next]_cacheVars
BY DEF vars, Next, DbNext, Install, Query, StartDb, Begin, CallStep, SessionEnd

\* A call is about one of the databases.
LEMMA CallHasName ==
    ASSUME Db!TypeOK, NEW t \in Tasks, op[t] # None
    PROVE  op[t].db \in Names /\ op[t].method \in Db!Methods
           /\ Db!Uri(t) = op[t].db /\ op[t].db \in Db!All /\ op[t].db # None
BY NoneAssumption DEF Db!TypeOK, Db!Calls, Db!Uri, Db!FullDbUri, Db!All

LEMMA CountIsNat == Db!Count \in Nat
BY MigrationsAssumption DEF Db!Count

(***************************************************************************)
(* Type correctness.                                                       *)
(***************************************************************************)

\* Every step keeps the types of the databases.
LEMMA TypeStep ==
    ASSUME Db!TypeOK, Sessions, [DbNext]_dbVars
    PROVE  Db!TypeOK'
<1> USE CountIsNat, NoneAssumption
    DEF dbVars, Db!calls, Db!sessions, Db!Goto, Db!Fault, Db!Connected, Db!Answers
<1>1. ASSUME Db!StartDb PROVE Db!TypeOK'
  BY <1>1 DEF Db!TypeOK, Db!StartDb
<1>2. ASSUME Db!Crash PROVE Db!TypeOK'
  BY <1>2 DEF Db!TypeOK, Db!Crash
<1>3. ASSUME NEW t \in Tasks, NEW m \in Db!Methods, NEW d \in Names, Db!Begin(t, m, d)
      PROVE  Db!TypeOK'
  <2>1. [method |-> m, db |-> d] \in Db!Calls
    BY DEF Db!Calls
  <2> QED
    BY <1>3, <2>1 DEF Db!TypeOK, Db!Begin
<1>4. ASSUME NEW t \in Tasks, Db!CreateDatabase(t) PROVE Db!TypeOK'
  <2>1. op[t] # None /\ Db!Uri(t) \in Db!All
    BY <1>4, CallHasName DEF Db!CreateDatabase, Db!Doing
  <2> QED
    BY <1>4, <2>1 DEF Db!TypeOK, Db!CreateDatabase
<1>5. ASSUME NEW t \in Tasks, Db!DropDatabase(t) PROVE Db!TypeOK'
  <2>1. op[t] # None /\ Db!Uri(t) \in Db!All /\ Db!Uri(t) # Maintenance
    BY <1>5, CallHasName, NamesAssumption DEF Db!DropDatabase, Db!Doing
  <2>2. \A s \in Tasks : session[s] # None => session[s] # Db!Uri(t)
    BY <1>5 DEF Db!TypeOK, Db!DropDatabase, Db!InUse
  <2> QED
    BY <1>5, <2>1, <2>2 DEF Db!TypeOK, Db!DropDatabase
<1>6. ASSUME NEW t \in Tasks, Db!DatabaseExists(t) PROVE Db!TypeOK'
  BY <1>6 DEF Db!TypeOK, Db!DatabaseExists
<1>7. ASSUME NEW t \in Tasks, Db!StatementError(t) PROVE Db!TypeOK'
  BY <1>7 DEF Db!TypeOK, Db!StatementError
<1>8. ASSUME NEW t \in Tasks, Db!Source(t) PROVE Db!TypeOK'
  BY <1>8 DEF Db!TypeOK, Db!Source
<1>9. ASSUME NEW t \in Tasks, Db!Connect(t) PROVE Db!TypeOK'
  <2>1. op[t] # None /\ Db!Uri(t) \in databases /\ session[t] = None
    BY <1>9 DEF Db!Connect, Db!Doing, Sessions
  <2> QED
    BY <1>9, <2>1 DEF Db!TypeOK, Db!Connect, Db!All
<1>10. ASSUME NEW t \in Tasks, Db!ConnectError(t) PROVE Db!TypeOK'
  BY <1>10 DEF Db!TypeOK, Db!ConnectError
<1>11. ASSUME NEW t \in Tasks, Db!Lock(t) PROVE Db!TypeOK'
  BY <1>11 DEF Db!TypeOK, Db!Lock, Db!All
<1>12. ASSUME NEW t \in Tasks, Db!List(t) PROVE Db!TypeOK'
  BY <1>12 DEF Db!TypeOK, Db!List
<1>13. ASSUME NEW t \in Tasks, Db!Apply(t) PROVE Db!TypeOK'
  BY <1>13 DEF Db!TypeOK, Db!Apply, Db!Applies
<1>14. ASSUME NEW t \in Tasks, Db!Unlock(t) PROVE Db!TypeOK'
  BY <1>14 DEF Db!TypeOK, Db!Unlock
<1>15. ASSUME NEW t \in Tasks, Db!MigrateError(t) PROVE Db!TypeOK'
  BY <1>15 DEF Db!TypeOK, Db!MigrateError
<1>16. ASSUME NEW t \in Tasks, Db!SessionEnd(t) PROVE Db!TypeOK'
  BY <1>16 DEF Db!TypeOK, Db!SessionEnd
<1>17. ASSUME NEW t \in Tasks, Db!Fail(t) PROVE Db!TypeOK'
  <2>1. Db!ErrorAt(t) \in Db!Answers
    BY <1>17 DEF Db!Fail, Db!ErrorAt
  <2> QED
    BY <1>17, <2>1 DEF Db!TypeOK, Db!Fail
<1>18. CASE UNCHANGED dbVars
  BY <1>18 DEF Db!TypeOK
<1> QED
  BY <1>1, <1>2, <1>3, <1>4, <1>5, <1>6, <1>7, <1>8, <1>9, <1>10, <1>11,
     <1>12, <1>13, <1>14, <1>15, <1>16, <1>17, <1>18 DEF DbNext, Db!Step

\* The initial state has its types.
LEMMA TypeInit == Init => Db!TypeOK
<1> SUFFICES ASSUME Init PROVE Db!TypeOK
  OBVIOUS
<1>1. databases \subseteq Db!All /\ Maintenance \in databases
  BY DEF Init, Db!Init, Db!All
<1>2. applied \in [Db!All -> 0 .. Db!Count] /\ seen \in [Tasks -> 0 .. Db!Count]
  BY CountIsNat DEF Init, Db!Init
<1> QED
  BY <1>1, <1>2 DEF Init, Db!Init, Db!TypeOK

(***************************************************************************)
(* The inductive invariant, part by part.                                  *)
(***************************************************************************)

\* Whatever step, a session is on the database of its call, and what has been
\* applied stays so while a session looks at it.
LEMMA SessionsStep ==
    ASSUME Db!TypeOK, Sessions, [DbNext]_dbVars
    PROVE  Sessions'
<1> USE CountIsNat, NoneAssumption
    DEF dbVars, Db!calls, Db!sessions, Db!Goto, Db!Connected, Db!Answers
<1>1. ASSUME Db!StartDb PROVE Sessions'
  BY <1>1 DEF Sessions, Db!StartDb
<1>2. ASSUME Db!Crash PROVE Sessions'
  BY <1>2 DEF Db!TypeOK, Sessions, Db!Crash
<1>3. ASSUME NEW t \in Tasks, NEW m \in Db!Methods, NEW d \in Names, Db!Begin(t, m, d)
      PROVE  Sessions'
  <2>1. [method |-> m, db |-> d] # None
    BY DEF Db!Calls
  <2> QED
    BY <1>3, <2>1 DEF Db!TypeOK, Sessions, Db!Begin
<1>4. ASSUME NEW t \in Tasks, Db!CreateDatabase(t) PROVE Sessions'
  BY <1>4 DEF Db!TypeOK, Sessions, Db!CreateDatabase
<1>5. ASSUME NEW t \in Tasks, Db!DropDatabase(t) PROVE Sessions'
  <2>1. \A s \in Tasks : session[s] # None => session[s] # Db!Uri(t)
    BY <1>5 DEF Db!TypeOK, Db!DropDatabase, Db!InUse
  <2> QED
    BY <1>5, <2>1 DEF Db!TypeOK, Sessions, Db!DropDatabase
<1>6. ASSUME NEW t \in Tasks, Db!DatabaseExists(t) PROVE Sessions'
  BY <1>6 DEF Db!TypeOK, Sessions, Db!DatabaseExists
<1>7. ASSUME NEW t \in Tasks, Db!StatementError(t) PROVE Sessions'
  BY <1>7 DEF Db!TypeOK, Sessions, Db!StatementError
<1>8. ASSUME NEW t \in Tasks, Db!Source(t) PROVE Sessions'
  BY <1>8 DEF Db!TypeOK, Sessions, Db!Source, Db!Doing
<1>9. ASSUME NEW t \in Tasks, Db!Connect(t) PROVE Sessions'
  BY <1>9, CallHasName DEF Db!TypeOK, Sessions, Db!Connect, Db!Doing
<1>10. ASSUME NEW t \in Tasks, Db!ConnectError(t) PROVE Sessions'
  BY <1>10 DEF Db!TypeOK, Sessions, Db!ConnectError
<1>11. ASSUME NEW t \in Tasks, Db!Lock(t) PROVE Sessions'
  BY <1>11 DEF Db!TypeOK, Sessions, Db!Lock
<1>12. ASSUME NEW t \in Tasks, Db!List(t) PROVE Sessions'
  BY <1>12 DEF Db!TypeOK, Sessions, Db!List, Db!All
<1>13. ASSUME NEW t \in Tasks, Db!Apply(t) PROVE Sessions'
  BY <1>13 DEF Db!TypeOK, Sessions, Db!Apply, Db!Applies
<1>14. ASSUME NEW t \in Tasks, Db!Unlock(t) PROVE Sessions'
  BY <1>14 DEF Db!TypeOK, Sessions, Db!Unlock
<1>15. ASSUME NEW t \in Tasks, Db!MigrateError(t) PROVE Sessions'
  BY <1>15 DEF Db!TypeOK, Sessions, Db!MigrateError
<1>16. ASSUME NEW t \in Tasks, Db!SessionEnd(t) PROVE Sessions'
  BY <1>16 DEF Db!TypeOK, Sessions, Db!SessionEnd
<1>17. ASSUME NEW t \in Tasks, Db!Fail(t) PROVE Sessions'
  <2>1. Db!ErrorAt(t) \in Db!Answers
    BY <1>17 DEF Db!Fail, Db!ErrorAt
  <2> QED
    BY <1>17, <2>1 DEF Db!TypeOK, Sessions, Db!Fail
<1>18. CASE UNCHANGED dbVars
  BY <1>18 DEF Sessions
<1> QED
  BY <1>1, <1>2, <1>3, <1>4, <1>5, <1>6, <1>7, <1>8, <1>9, <1>10, <1>11,
     <1>12, <1>13, <1>14, <1>15, <1>16, <1>17, <1>18 DEF DbNext, Db!Step

\* The lock keeps the tasks that migrate one database apart.
LEMMA ExclusiveStep ==
    ASSUME Db!TypeOK, Sessions, Exclusive, [DbNext]_dbVars
    PROVE  Exclusive'
<1> USE CountIsNat, NoneAssumption
    DEF dbVars, Db!calls, Db!sessions, Db!Goto, Db!Connected, Db!Answers
<1>1. ASSUME Db!StartDb PROVE Exclusive'
  BY <1>1 DEF Exclusive, Db!StartDb
<1>2. ASSUME Db!Crash \/ \E t \in Tasks : Db!Fail(t) PROVE dbFaults' # {}
  BY <1>2 DEF Db!Crash, Db!Fail, Db!Fault
<1>3. ASSUME NEW t \in Tasks, NEW m \in Db!Methods, NEW d \in Names, Db!Begin(t, m, d)
      PROVE  Exclusive'
  BY <1>3 DEF Db!TypeOK, Exclusive, Db!Begin
<1>4. ASSUME NEW t \in Tasks, Db!CreateDatabase(t) PROVE Exclusive'
  BY <1>4 DEF Db!TypeOK, Exclusive, Db!CreateDatabase
<1>5. ASSUME NEW t \in Tasks, Db!DropDatabase(t) PROVE Exclusive'
  <2>1. \A s \in Tasks : session[s] # None => session[s] # Db!Uri(t)
    BY <1>5 DEF Db!TypeOK, Db!DropDatabase, Db!InUse
  <2> QED
    BY <1>5, <2>1 DEF Db!TypeOK, Exclusive, Db!DropDatabase
<1>6. ASSUME NEW t \in Tasks, Db!DatabaseExists(t) PROVE Exclusive'
  BY <1>6 DEF Db!TypeOK, Exclusive, Db!DatabaseExists
<1>7. ASSUME NEW t \in Tasks, Db!StatementError(t) PROVE Exclusive'
  BY <1>7 DEF Db!TypeOK, Exclusive, Db!StatementError
<1>8. ASSUME NEW t \in Tasks, Db!Source(t) PROVE Exclusive'
  BY <1>8 DEF Db!TypeOK, Exclusive, Db!Source
<1>9. ASSUME NEW t \in Tasks, Db!Connect(t) PROVE Exclusive'
  <2>1. op[t] # None
    BY <1>9 DEF Db!Connect, Db!Doing
  <2> QED
    BY <1>9, <2>1, CallHasName DEF Db!TypeOK, Exclusive, Db!Connect, Db!Doing
<1>10. ASSUME NEW t \in Tasks, Db!ConnectError(t) PROVE Exclusive'
  BY <1>10 DEF Db!TypeOK, Exclusive, Db!ConnectError
<1>11. ASSUME NEW t \in Tasks, Db!Lock(t) PROVE Exclusive'
  BY <1>11 DEF Db!TypeOK, Exclusive, Db!Lock, Db!All
<1>12. ASSUME NEW t \in Tasks, Db!List(t) PROVE Exclusive'
  BY <1>12 DEF Db!TypeOK, Exclusive, Db!List, Db!All
<1>13. ASSUME NEW t \in Tasks, Db!Apply(t) PROVE Exclusive'
  BY <1>13 DEF Db!TypeOK, Exclusive, Db!Apply, Db!Applies, Db!All
<1>14. ASSUME NEW t \in Tasks, Db!Unlock(t) PROVE Exclusive'
  BY <1>14 DEF Db!TypeOK, Exclusive, Db!Unlock, Db!All
<1>15. ASSUME NEW t \in Tasks, Db!MigrateError(t) PROVE Exclusive'
  BY <1>15 DEF Db!TypeOK, Exclusive, Db!MigrateError
<1>16. ASSUME NEW t \in Tasks, Db!SessionEnd(t) PROVE Exclusive'
  BY <1>16 DEF Db!TypeOK, Exclusive, Db!SessionEnd, Db!All
<1>17. CASE UNCHANGED dbVars
  BY <1>17 DEF Exclusive
<1> QED
  BY <1>1, <1>2, <1>3, <1>4, <1>5, <1>6, <1>7, <1>8, <1>9, <1>10, <1>11,
     <1>12, <1>13, <1>14, <1>15, <1>16, <1>17
     DEF DbNext, Db!Step, Exclusive

\* A finished migrate stays finished until its database is dropped.
LEMMA MigratedStep ==
    ASSUME Db!TypeOK, Sessions, MigratedMeansApplied, [DbNext]_dbVars
    PROVE  MigratedMeansApplied'
<1> USE CountIsNat, NoneAssumption
    DEF dbVars, Db!calls, Db!sessions, Db!Goto, Db!Connected, Db!Answers,
        MigratedMeansApplied, Db!MigratedMeansApplied, Db!Migrated
<1>1. ASSUME Db!StartDb PROVE MigratedMeansApplied'
  BY <1>1 DEF Db!StartDb
<1>2. ASSUME Db!Crash PROVE MigratedMeansApplied'
  BY <1>2 DEF Db!Crash
<1>3. ASSUME NEW t \in Tasks, NEW m \in Db!Methods, NEW d \in Names, Db!Begin(t, m, d)
      PROVE  MigratedMeansApplied'
  BY <1>3 DEF Db!TypeOK, Db!Begin
<1>4. ASSUME NEW t \in Tasks, Db!CreateDatabase(t) PROVE MigratedMeansApplied'
  BY <1>4 DEF Db!TypeOK, Db!CreateDatabase, Db!Doing
<1>5. ASSUME NEW t \in Tasks, Db!DropDatabase(t) PROVE MigratedMeansApplied'
  <2> SUFFICES ASSUME NEW s \in Tasks \ dropped', Db!Migrated(s)', at'[s] = "ok"
               PROVE  op'[s].db \in databases' /\ applied'[op'[s].db] = Db!Count
    OBVIOUS
  <2>1. s # t /\ at[s] = "ok" /\ s \notin dropped /\ op' = op
    BY <1>5 DEF Db!TypeOK, Db!DropDatabase, Db!Doing
  <2>2. op[s].db # Db!Uri(t)
    BY <1>5, <2>1 DEF Db!DropDatabase
  <2>3. op[s].db \in databases /\ applied[op[s].db] = Db!Count
    BY <2>1
  <2> QED
    BY <1>5, <2>1, <2>2, <2>3 DEF Db!TypeOK, Db!DropDatabase
<1>6. ASSUME NEW t \in Tasks, Db!DatabaseExists(t) PROVE MigratedMeansApplied'
  BY <1>6 DEF Db!TypeOK, Db!DatabaseExists
<1>7. ASSUME NEW t \in Tasks, Db!StatementError(t) PROVE MigratedMeansApplied'
  BY <1>7 DEF Db!TypeOK, Db!StatementError
<1>8. ASSUME NEW t \in Tasks, Db!Source(t) PROVE MigratedMeansApplied'
  BY <1>8 DEF Db!TypeOK, Db!Source
<1>9. ASSUME NEW t \in Tasks, Db!Connect(t) PROVE MigratedMeansApplied'
  BY <1>9 DEF Db!TypeOK, Db!Connect
<1>10. ASSUME NEW t \in Tasks, Db!ConnectError(t) PROVE MigratedMeansApplied'
  BY <1>10 DEF Db!TypeOK, Db!ConnectError
<1>11. ASSUME NEW t \in Tasks, Db!Lock(t) PROVE MigratedMeansApplied'
  BY <1>11 DEF Db!TypeOK, Db!Lock
<1>12. ASSUME NEW t \in Tasks, Db!List(t) PROVE MigratedMeansApplied'
  BY <1>12 DEF Db!TypeOK, Db!List
<1>13. ASSUME NEW t \in Tasks, Db!Apply(t) PROVE MigratedMeansApplied'
  <2>1. applied[session[t]] < Db!Count /\ at' = at /\ op' = op
        /\ databases' = databases /\ dropped' = dropped
    BY <1>13 DEF Db!TypeOK, Db!Apply, Db!Applies
  <2>2. \A d : d # session[t] => applied'[d] = applied[d]
    BY <1>13 DEF Db!TypeOK, Db!Apply
  <2> QED
    BY <2>1, <2>2
<1>14. ASSUME NEW t \in Tasks, Db!Unlock(t) PROVE MigratedMeansApplied'
  <2>1. session[t] = op[t].db /\ session[t] \in databases
    BY <1>14 DEF Db!TypeOK, Db!Unlock, Sessions
  <2>2. applied[session[t]] = Db!Count
    BY <1>14, <2>1 DEF Db!TypeOK, Db!Unlock, Sessions
  <2> QED
    BY <1>14, <2>1, <2>2 DEF Db!TypeOK, Db!Unlock
<1>15. ASSUME NEW t \in Tasks, Db!MigrateError(t) PROVE MigratedMeansApplied'
  BY <1>15 DEF Db!TypeOK, Db!MigrateError
<1>16. ASSUME NEW t \in Tasks, Db!SessionEnd(t) PROVE MigratedMeansApplied'
  BY <1>16 DEF Db!TypeOK, Db!SessionEnd
<1>17. ASSUME NEW t \in Tasks, Db!Fail(t) PROVE MigratedMeansApplied'
  <2>1. Db!ErrorAt(t) \in {"PgTaskJoinError", "SqlQueryError", "MigrationError"}
    BY <1>17 DEF Db!Fail, Db!ErrorAt
  <2> QED
    BY <1>17, <2>1 DEF Db!TypeOK, Db!Fail
<1>18. CASE UNCHANGED dbVars
  BY <1>18
<1> QED
  BY <1>1, <1>2, <1>3, <1>4, <1>5, <1>6, <1>7, <1>8, <1>9, <1>10, <1>11,
     <1>12, <1>13, <1>14, <1>15, <1>16, <1>17, <1>18 DEF DbNext, Db!Step

\* An install that has begun stays so, one that is over stays over, and what a
\* purge makes stale is everything that has begun.
LEMMA InstallsGoOn ==
    ASSUME Waiting, [Ext!Next]_cacheVars
    PROVE  /\ pc' \in [Installers -> Ext!Running \union Ext!Outcomes \union {"idle"}]
           /\ queued' \subseteq {i \in Installers : pc'[i] = "cancelled"}
           /\ \A i \in Installers : Ext!Over(i) => Ext!Over(i)'
           /\ \A i \in Installers : pc'[i] = "idle" => pc[i] = "idle"
           /\ stale' = stale \/ stale' = {i \in Installers : pc[i] # "idle"}
<1> USE DEF Waiting, cacheVars, Ext!Over, Ext!Running, Ext!Outcomes, Ext!Failures,
            Ext!Goto, Ext!Asked, Ext!cache, Ext!calls, Ext!files, Ext!history
<1>1. CASE UNCHANGED cacheVars
  BY <1>1
<1>2. CASE Ext!Unpack \/ Ext!Purge
  BY <1>2 DEF Ext!Unpack, Ext!Purge
<1>3. CASE \E i \in Installers : Ext!Begin(i) \/ Ext!Cancel(i)
  BY <1>3 DEF Ext!Begin, Ext!Cancel
<1>4. CASE \E i \in Installers :
              Ext!ShareExtensionDir(i) \/ Ext!CreateDirs(i) \/ Ext!ReadDir(i) \/ Ext!Skip(i)
  BY <1>4 DEF Ext!ShareExtensionDir, Ext!CreateDirs, Ext!ReadDir, Ext!Skip
<1>5. CASE \E i \in Installers : Ext!InstallError(i) \/ Ext!CopyNone(i) \/ Ext!Ok(i)
  BY <1>5 DEF Ext!InstallError, Ext!CopyNone, Ext!Ok
<1>6. CASE \E i \in Installers : Ext!CopyBegin(i)
  BY <1>6 DEF Ext!CopyBegin, Ext!Truncate
<1>7. CASE \E i \in Installers : Ext!CopyEnd(i)
  BY <1>7 DEF Ext!CopyEnd, Ext!Copied
<1>8. CASE \E i \in Installers : Ext!CopyFail(i)
  BY <1>8 DEF Ext!CopyFail
<1> QED
  BY <1>1, <1>2, <1>3, <1>4, <1>5, <1>6, <1>7, <1>8, Zenon DEF Ext!Next, Ext!Step

\* When every install is over or has not begun, only a purge, or an install
\* that begins, takes the extension away.
LEMMA StaysUsable ==
    ASSUME Waiting, Ext!Usable, [Ext!Next]_cacheVars,
           \A i \in Installers : Ext!Over(i) \/ pc'[i] = "idle",
           stale' # {i \in Installers : pc[i] # "idle"}
    PROVE  Ext!Usable'
<1> USE DEF cacheVars, Ext!cache, Ext!calls, Ext!files, Ext!history
<1>1. \A i \in Installers : /\ copying[i] = None /\ i \notin queued
                            /\ pc[i] \in Ext!Outcomes \union {"idle"}
                            /\ pc[i] = "idle" => pc'[i] = "idle"
  BY InstallsGoOn DEF Waiting, Ext!Usable, Ext!Over, Ext!Outcomes, Ext!Failures
<1>2. ~Ext!Unpack /\ ~Ext!Purge
  BY DEF Ext!Unpack, Ext!Purge, Ext!Usable
<1>3. \A i \in Installers : ~Ext!Begin(i) /\ ~Ext!Cancel(i)
  BY <1>1 DEF Waiting, Ext!Begin, Ext!Goto, Ext!Cancel, Ext!Running, Ext!Outcomes,
              Ext!Failures
<1>4. \A i \in Installers : ~Ext!Step(i)
  BY <1>1 DEF Ext!Step, Ext!ShareExtensionDir, Ext!CreateDirs, Ext!ReadDir,
              Ext!Asked, Ext!InstallError, Ext!Skip, Ext!CopyBegin, Ext!CopyNone, Ext!CopyEnd,
              Ext!CopyFail, Ext!Ok, Ext!Outcomes, Ext!Failures
<1>5. UNCHANGED cacheVars
  BY <1>2, <1>3, <1>4 DEF Ext!Next
<1> QED
  BY <1>5 DEF Ext!Usable, Ext!Has, Ext!Place

\* Who is prepared after a step that does not begin its call was so
\* before, and the extension is still usable.
LEMMA PreparedStays ==
    ASSUME Waiting, [Ext!Next]_cacheVars, NEW t \in Tasks, ready'[t] = ready[t],
           Prepared(t)'
    PROVE  Prepared(t) /\ Ext!Usable'
<1>1. \A i \in ready[t] : i \in Installers /\ Ext!Over(i) /\ pc[i] # "idle"
  BY DEF Waiting, Ext!Over, Ext!Outcomes, Ext!Failures
<1>2. stale' # {i \in Installers : pc[i] # "idle"}
  BY <1>1 DEF Prepared
<1>3. Prepared(t)
  BY <1>2, InstallsGoOn DEF Prepared
<1>4. Ext!Usable
  BY <1>3 DEF Waiting
<1>5. \A i \in Installers : Ext!Over(i) \/ pc'[i] = "idle"
  BY <1>1 DEF Prepared
<1> QED
  BY <1>2, <1>3, <1>4, <1>5, StaysUsable

\* A call that has begun stays begun, and only a begin changes what is ready.
LEMMA CallsGoOn ==
    ASSUME Db!TypeOK, [DbNext]_dbVars, NEW t \in Tasks, at[t] # "idle"
    PROVE  at'[t] # "idle" /\ op'[t] = op[t]
<1> USE DEF dbVars, Db!calls, Db!sessions, Db!Goto, Db!TypeOK
<1>1. CASE UNCHANGED dbVars \/ Db!StartDb \/ Db!Crash
  BY <1>1 DEF Db!StartDb, Db!Crash
<1>2. ASSUME NEW s \in Tasks, NEW m \in Db!Methods, NEW d \in Names, Db!Begin(s, m, d)
      PROVE  at'[t] # "idle" /\ op'[t] = op[t]
  BY <1>2 DEF Db!Begin
<1>3. ASSUME NEW s \in Tasks, Db!Step(s) \/ Db!SessionEnd(s)
      PROVE  at'[t] # "idle" /\ op'[t] = op[t]
  BY <1>3 DEF Db!Step, Db!SessionEnd, Db!CreateDatabase, Db!DropDatabase,
              Db!DatabaseExists, Db!StatementError, Db!Source, Db!Connect,
              Db!ConnectError, Db!Lock, Db!List, Db!Apply, Db!Unlock,
              Db!MigrateError
<1>4. ASSUME NEW s \in Tasks, Db!Fail(s)
      PROVE  at'[t] # "idle" /\ op'[t] = op[t]
  <2>1. Db!ErrorAt(s) # "idle"
    BY <1>4 DEF Db!Fail, Db!ErrorAt, Db!Connected
  <2> QED
    BY <1>4, <2>1 DEF Db!Fail
<1> QED
  BY <1>1, <1>2, <1>3, <1>4 DEF DbNext

\* A step begins one call, and leaves the cache alone, or begins none.
LEMMA ReadyChanges ==
    ASSUME [Next]_vars
    PROVE  \/ ready' = ready
           \/ \E s \in Tasks, m \in Db!Methods, d \in Names : Begin(s, m, d)
BY DEF vars, Next, Install, Query, StartDb, CallStep, SessionEnd

\* The installs a prepared task relies on are over, and nothing has taken the
\* extension away.
LEMMA WaitingStep ==
    ASSUME Db!TypeOK, Waiting, [Next]_vars
    PROVE  Waiting'
<1>1. [DbNext]_dbVars /\ [Ext!Next]_cacheVars
  BY NextSplits
<1>2. /\ pc' \in [Installers -> Ext!Running \union Ext!Outcomes \union {"idle"}]
      /\ queued' \subseteq {i \in Installers : pc'[i] = "cancelled"}
      /\ \A i \in Installers : Ext!Over(i) => Ext!Over(i)'
  BY <1>1, InstallsGoOn
<1>3. ASSUME ready' = ready,
             ~\E s \in Tasks, m \in Db!Methods, d \in Names : Begin(s, m, d)
      PROVE  Waiting'
  <2>1. ASSUME NEW t \in Tasks, Prepared(t)' PROVE Ext!Usable'
    BY <1>1, <1>3, <2>1, PreparedStays
  <2>2. ASSUME NEW t \in Tasks, at'[t] = "idle" PROVE at[t] = "idle"
    BY <1>1, <2>2, CallsGoOn
  <2> QED
    BY <1>2, <1>3, <2>1, <2>2 DEF Waiting
<1>4. ASSUME NEW s \in Tasks, NEW m \in Db!Methods, NEW d \in Names, Begin(s, m, d)
      PROVE  Waiting'
  <2>1. UNCHANGED cacheVars
    BY <1>4 DEF Begin
  <2>2. Ext!Usable' <=> Ext!Usable
    BY <2>1 DEF cacheVars, Ext!Usable, Ext!Has, Ext!Place
  <2>3. \A i \in Installers : Ext!Over(i)' <=> Ext!Over(i)
    BY <2>1 DEF cacheVars, Ext!Over
  <2>4. /\ ready'[s] = IF Ext!Usable THEN {i \in Installers : Ext!Over(i)} ELSE {}
        /\ \A t \in Tasks \ {s} : ready'[t] = ready[t]
        /\ ready' \in [Tasks -> SUBSET Installers]
    BY <1>4 DEF Begin, Waiting
  <2>5. at'[s] # "idle" /\ \A t \in Tasks \ {s} : at'[t] = at[t]
    BY <1>4 DEF Begin, Db!Begin, Db!Goto, Db!TypeOK
  <2>6. ASSUME NEW t \in Tasks
        PROVE  /\ \A i \in ready'[t] : Ext!Over(i)'
               /\ Prepared(t)' => Ext!Usable'
               /\ at'[t] = "idle" => ready'[t] = {}
    <3>1. CASE t = s
      BY <2>2, <2>3, <2>4, <2>5, <3>1 DEF Prepared
    <3>2. CASE t # s
      <4>1. Prepared(t)' => Prepared(t)
        BY <2>1, <2>4, <3>2 DEF Prepared, cacheVars
      <4> QED
        BY <2>2, <2>3, <2>4, <2>5, <3>2, <4>1 DEF Waiting
    <3> QED
      BY <3>1, <3>2
  <2> QED
    BY <1>2, <2>4, <2>6 DEF Waiting
<1> QED
  BY <1>3, <1>4, ReadyChanges

\* A migration that does not go through is one that lacks the extension or has
\* been applied meanwhile; the lock excludes the second.
LEMMA MigrateSucceedsStep ==
    ASSUME IInv, [Next]_vars
    PROVE  MigrateSucceeds'
<1>1. /\ Db!TypeOK /\ Sessions /\ Exclusive /\ Waiting /\ MigrateSucceeds
      /\ [DbNext]_dbVars /\ [Ext!Next]_cacheVars
  BY NextSplits DEF IInv
<1> SUFFICES ASSUME NEW t \in Tasks, Db!Migrated(t)', Prepared(t)', dbFaults' = {},
                    at'[t] = "MigrationError"
             PROVE  FALSE
  BY DEF MigrateSucceeds
<1>2. dbFaults = {} /\ ~Db!Fail(t)
  BY <1>1 DEF DbNext, dbVars, Db!Fail, Db!Fault, Db!StartDb, Db!Crash, Db!Begin, Db!Step,
              Db!SessionEnd, Db!CreateDatabase, Db!DropDatabase, Db!DatabaseExists,
              Db!StatementError, Db!Source, Db!Connect, Db!ConnectError, Db!Lock,
              Db!List, Db!Apply, Db!Unlock, Db!MigrateError, Db!calls, Db!sessions
<1>3. at[t] = "MigrationError" \/ Db!MigrateError(t)
  BY <1>1, <1>2 DEF DbNext, dbVars, Db!Fail, Db!StartDb, Db!Crash, Db!Begin, Db!Step,
              Db!SessionEnd, Db!CreateDatabase, Db!DropDatabase, Db!DatabaseExists,
              Db!StatementError, Db!Source, Db!Connect, Db!ConnectError, Db!Lock,
              Db!List, Db!Apply, Db!Unlock, Db!MigrateError, Db!calls, Db!sessions,
              Db!Goto, Db!TypeOK
<1>4. at[t] # "idle"
  BY <1>3 DEF Db!MigrateError, Db!Connected
<1>5. ready'[t] = ready[t]
  BY <1>1, <1>4, ReadyChanges DEF Begin, Db!Begin, Waiting
<1>6. Prepared(t)
  BY <1>1, <1>5, PreparedStays
<1>7. CASE at[t] = "MigrationError"
  BY <1>1, <1>2, <1>4, <1>6, <1>7, CallsGoOn DEF MigrateSucceeds, Db!Migrated
<1>8. CASE Db!MigrateError(t)
  <2>1. session[t] # None
    BY <1>1, <1>2, <1>8 DEF Exclusive, Db!MigrateError
  <2>2. at[t] = "apply" /\ ~Db!Applies(t)
    BY <1>8, <2>1 DEF Db!MigrateError
  <2>3. seen[t] = applied[session[t]]
    BY <1>1, <1>2, <2>2 DEF Exclusive
  <2>4. Ext!Usable
    BY <1>1, <1>6 DEF Waiting
  <2> QED
    BY <2>2, <2>3, <2>4 DEF Db!Applies
<1> QED
  BY <1>3, <1>7, <1>8

\* Initially there is no session, and nothing has been asked for.
LEMMA IInvInit == Init => IInv
<1> SUFFICES ASSUME Init PROVE IInv
  OBVIOUS
<1>1. Db!TypeOK
  BY TypeInit
<1>2. Sessions /\ Exclusive /\ MigratedMeansApplied /\ MigrateSucceeds
  BY DEF Init, Db!Init, Sessions, Exclusive, MigratedMeansApplied, MigrateSucceeds,
         Db!MigratedMeansApplied, Db!Migrated, Db!Connected, Db!Answers
<1>3. Waiting
  BY DEF Init, Ext!Init, Db!Init, Waiting, Prepared
<1> QED
  BY <1>1, <1>2, <1>3 DEF IInv

(***************************************************************************)
(* The cache of a session is the cache of PgExtension.                     *)
(***************************************************************************)

\* The constants are what PgExtension takes them to be.
LEMMA ExtensionConstants ==
    /\ KindOf \in [Entries -> ExtProofs!Kinds]
    /\ Faults \subseteq ExtProofs!FaultKinds
    /\ None \notin ExtProofs!Paths
BY ExtensionAssumption
   DEF Ext!Kinds, ExtProofs!Kinds, Ext!FaultKinds, ExtProofs!FaultKinds,
       Ext!Paths, ExtProofs!Paths, Ext!Layouts, ExtProofs!Layouts,
       Ext!Candidates, ExtProofs!Candidates, Ext!Lib, ExtProofs!Lib,
       Ext!Libraries, ExtProofs!Libraries, Ext!Wanted, ExtProofs!Wanted

\* The two instances say the same.
LEMMA SameTypes == Ext!TypeOK <=> ExtProofs!TypeOK
BY DEF Ext!TypeOK, ExtProofs!TypeOK, Ext!Paths, ExtProofs!Paths, Ext!Layouts,
       ExtProofs!Layouts, Ext!Candidates, ExtProofs!Candidates, Ext!Lib,
       ExtProofs!Lib, Ext!Libraries, ExtProofs!Libraries, Ext!Wanted,
       ExtProofs!Wanted, Ext!Running, ExtProofs!Running, Ext!Outcomes,
       ExtProofs!Outcomes, Ext!Failures, ExtProofs!Failures

LEMMA SamePromise == Ext!InstalledMeansUsable <=> ExtProofs!InstalledMeansUsable
BY DEF Ext!InstalledMeansUsable, ExtProofs!InstalledMeansUsable,
       Ext!Misplaced, ExtProofs!Misplaced, Ext!Harmless, ExtProofs!Harmless,
       Ext!Has, ExtProofs!Has, Ext!Place, ExtProofs!Place, Ext!Over,
       ExtProofs!Over, Ext!Wanted, ExtProofs!Wanted, Ext!Candidates,
       ExtProofs!Candidates, Ext!Lib, ExtProofs!Lib, Ext!Outcomes,
       ExtProofs!Outcomes, Ext!Failures, ExtProofs!Failures

LEMMA SameNext == Ext!Next <=> ExtProofs!Next
BY DEF Ext!Next, Ext!Step, Ext!cache, Ext!calls, Ext!files, Ext!history,
       Ext!Lib, Ext!Candidates, Ext!Layouts, Ext!Wanted, Ext!Libraries,
       Ext!Paths, Ext!Failures, Ext!Outcomes, Ext!Running, Ext!Absent,
       Ext!Fault, Ext!Goto, Ext!Unpack, Ext!Purge, Ext!Over, Ext!Begin,
       Ext!ShareExtensionDir, Ext!ShareDir, Ext!CreateDirs, Ext!ReadDir,
       Ext!InstallError, Ext!Destination, Ext!Skip, Ext!Writers, Ext!Truncate,
       Ext!CopyBegin, Ext!CopyNone, Ext!Copied, Ext!CopyEnd, Ext!CopyFail,
       Ext!Ok, Ext!Cancel, Ext!Asked, ExtProofs!Asked,
       ExtProofs!Next, ExtProofs!Step, ExtProofs!cache, ExtProofs!calls,
       ExtProofs!files, ExtProofs!history, ExtProofs!Lib,
       ExtProofs!Candidates, ExtProofs!Layouts, ExtProofs!Wanted,
       ExtProofs!Libraries, ExtProofs!Paths, ExtProofs!Failures,
       ExtProofs!Outcomes, ExtProofs!Running, ExtProofs!Absent,
       ExtProofs!Fault, ExtProofs!Goto, ExtProofs!Unpack, ExtProofs!Purge,
       ExtProofs!Over, ExtProofs!Begin, ExtProofs!ShareExtensionDir,
       ExtProofs!ShareDir, ExtProofs!CreateDirs, ExtProofs!ReadDir,
       ExtProofs!InstallError, ExtProofs!Destination, ExtProofs!Skip,
       ExtProofs!Writers, ExtProofs!Truncate, ExtProofs!CopyBegin,
       ExtProofs!CopyNone, ExtProofs!Copied, ExtProofs!CopyEnd,
       ExtProofs!CopyFail, ExtProofs!Ok, ExtProofs!Cancel

LEMMA SameSpec == Ext!Spec <=> ExtProofs!Spec
<1>1. Ext!Init <=> ExtProofs!Init
  BY DEF Ext!Init, ExtProofs!Init, Ext!Absent, ExtProofs!Absent, Ext!Paths,
         ExtProofs!Paths, Ext!Layouts, ExtProofs!Layouts, Ext!Candidates,
         ExtProofs!Candidates, Ext!Lib, ExtProofs!Lib, Ext!Libraries,
         ExtProofs!Libraries, Ext!Wanted, ExtProofs!Wanted
<1>2. Ext!vars = ExtProofs!vars
  BY DEF Ext!vars, ExtProofs!vars, Ext!cache, ExtProofs!cache, Ext!calls,
         ExtProofs!calls, Ext!files, ExtProofs!files, Ext!history,
         ExtProofs!history
<1>3. Ext!vars' = ExtProofs!vars'
  BY DEF Ext!vars, ExtProofs!vars, Ext!cache, ExtProofs!cache, Ext!calls,
         ExtProofs!calls, Ext!files, ExtProofs!files, Ext!history,
         ExtProofs!history
<1>4. [Ext!Next]_(Ext!vars) <=> [ExtProofs!Next]_(ExtProofs!vars)
  BY <1>2, <1>3, SameNext
<1> QED
  BY <1>1, <1>4, PTL DEF Ext!Spec, ExtProofs!Spec

(***************************************************************************)
(* The theorems.                                                           *)
(***************************************************************************)

\* The inductive invariant: sessions and the advisory lock of migrate, and
\* the installs a task relies on.
THEOREM Invariance == Spec => []IInv
<1>1. IInv /\ [Next]_vars => IInv'
  BY NextSplits, TypeStep, SessionsStep, ExclusiveStep, WaitingStep, MigratedStep,
     MigrateSucceedsStep DEF IInv
<1> QED
  BY <1>1, IInvInit, PTL DEF Spec

\* After a migrate that returned Ok every migration is applied in the database
\* it was called for, until that is dropped (PgSession, MigratedMeansApplied).
THEOREM MigratedIsApplied == Spec => []MigratedMeansApplied
<1>1. IInv => MigratedMeansApplied
  BY DEF IInv
<1> QED
  BY <1>1, Invariance, PTL

\* With the extension in place and a server that does its part, migrate does
\* not fail next to other calls (PgSession, MigrateSucceeds).
THEOREM MigrateDoesSucceed == Spec => []MigrateSucceeds
<1>1. IInv => MigrateSucceeds
  BY DEF IInv
<1> QED
  BY <1>1, Invariance, PTL

\* Next to databases and migrations the installs go on as PgExtension says they
\* do: nothing else in a session touches the cache.
THEOREM ImplementsTheExtension == Spec => Ext!Spec
<1>1. Init => Ext!Init
  BY DEF Init
<1>2. [Next]_vars => [Ext!Next]_(Ext!vars)
  BY NextSplits DEF cacheVars, Ext!vars, Ext!cache, Ext!calls, Ext!files,
                    Ext!history
<1> QED
  BY <1>1, <1>2, PTL DEF Spec, Ext!Spec

\* Cache, installs, server, databases and calls are well formed together
\* (PgSession, TypeOK).
THEOREM TypeCorrect == Spec => []TypeOK
<1>1. ExtProofs!Spec => []ExtProofs!TypeOK
  BY ExtensionConstants, ExtProofs!TypeCorrect
<1>2. IInv => Db!TypeOK /\ ready \in [Tasks -> SUBSET Installers]
  BY DEF IInv, Waiting
<1>3. Ext!TypeOK /\ Db!TypeOK /\ ready \in [Tasks -> SUBSET Installers] => TypeOK
  BY DEF TypeOK
<1> QED
  BY <1>1, <1>2, <1>3, SameTypes, SameSpec, ImplementsTheExtension, Invariance,
     PTL

\* An install that returned Ok keeps its promise in a session as well
\* (PgExtension, InstalledMeansUsable).
THEOREM InstalledIsUsable == Spec => []Ext!InstalledMeansUsable
<1>1. ExtProofs!Spec => []ExtProofs!InstalledMeansUsable
  BY ExtensionConstants, ExtProofs!InstalledIsUsable
<1> QED
  BY <1>1, SamePromise, SameSpec, ImplementsTheExtension, PTL
=============================================================================
