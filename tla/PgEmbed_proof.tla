---------------------------- MODULE PgEmbed_proof ----------------------------
(***************************************************************************)
(* Proofs about PgEmbed, for every set of child-process slots and every    *)
(* set of faults.                                                          *)
(***************************************************************************)
EXTENDS PgEmbed, TLAPS

----------------------------------------------------------------------------
(* The inductive invariant behind the safety properties *)

\* The command of the child a method waits for.
CommandOf(method) == CASE method = "init_db"  -> "initdb"
                       [] method = "start_db" -> "start"
                       [] OTHER               -> "stop"

\* No process but the one that is waited for, and it is the method's own.
OnlyAwaited ==
    /\ ~alive => call = "idle"
    /\ \A j \in Jobs : cmd[j] # "none" => j = child
    /\ child # None => cmd[child] = CommandOf(call) /\ at[child] # "doomed"

\* The server moves only on behalf of the child that is waited for.
ServerFollowsChild ==
    /\ pidFile <=> server # "down"
    /\ server # "down" => alive /\ cluster = "ready"
    /\ server = "starting" => child # None /\ Is(child, "start", "running")
    /\ server = "stopping" => child # None /\ Is(child, "stop", "running")
    /\ call = "start_db" =>
          /\ at[child] = "running" => server \in {"starting", "up"}
          /\ at[child] = "ok" => server = "up"
    /\ child # None /\ cmd[child] = "stop" =>
          /\ at[child] = "running" => server \in {"stopping", "down"}
          /\ at[child] \in {"ok", "failed"} => server = "down"

\* shutting_down is set on the way to a stop and means one once it is over.
FlagFollowsCalls ==
    /\ call \in {"stop_db", "stop_db_sync", "drop"} => shuttingDown
    /\ call = "start_db" => ~shuttingDown
    /\ shuttingDown /\ server # "down" => child # None /\ cmd[child] = "stop"

StatusFollowsCalls ==
    /\ call = "init_db"  => status = "Initializing"
    /\ call = "start_db" => status = "Starting"
    /\ call = "stop_db"  => status = "Stopping"
    /\ status = "Started" /\ ~shuttingDown => server = "up"
    /\ status = "Stopped" => server = "down"

Calm == Undisturbed => /\ OnlyAwaited /\ ServerFollowsChild
                       /\ FlagFollowsCalls /\ StatusFollowsCalls

\* Without any fault the cluster is unfinished only while its initdb runs.
ClusterFollowsInitdb ==
    faults = {} =>
        /\ cluster # "debris"
        /\ cluster = "partial" => child # None /\ Is(child, "initdb", "running")
        /\ child # None /\ Is(child, "initdb", "running") => cluster = "partial"
        /\ child # None /\ Is(child, "initdb", "ok") => cluster = "ready"
        /\ child # None /\ cmd[child] = "stop" /\ at[child] \in {"running", "ok"}
              => cluster = "ready"
        /\ alive /\ status \in {"Initialized", "Started", "Stopped"}
              => cluster \in {"ready", "absent"}

IInv == TypeOK /\ Calm /\ ClusterFollowsInitdb

(***************************************************************************)
(* Type correctness.                                                       *)
(***************************************************************************)

USE DEF AsyncCalls, SyncCalls, Commands, Progress, PgServerStatus, ClusterStates

\* The child a call waits for is spawned into a free slot.
LEMMA RunType ==
    ASSUME TypeOK, NEW c \in Commands,
           NEW method \in AsyncCalls \union SyncCalls,
           Idle, Run(method, c)
    PROVE  /\ call' \in AsyncCalls \union SyncCalls \union {"idle"}
           /\ child' \in Jobs \union {None}
           /\ call' = "idle" => child' = None
           /\ call' \notin {"idle", "drop"} => child' # None
           /\ cmd' \in [Jobs -> Commands \union {"none"}]
           /\ at' \in [Jobs -> Progress \union {"none"}]
           /\ \A j \in Jobs : cmd'[j] = "none" <=> at'[j] = "none"
           /\ child' # None => cmd'[child'] # "none"
           /\ faults' \subseteq Faults
  BY JobsAssumption DEF TypeOK, Run, Spawn, Fault, Idle, waits, jobs

\* What changes when a child exits, awaited or not.
LEMMA FinishType ==
    ASSUME TypeOK, NEW j \in Jobs, cmd[j] # "none",
           NEW result \in {"ok", "failed"}
    PROVE  /\ Finished(j, result) \in [Jobs -> Progress \union {"none"}]
           /\ Freed(j) =>
                /\ cmd' \in [Jobs -> Commands \union {"none"}]
                /\ \A k \in Jobs : cmd'[k] = "none"
                                   <=> Finished(j, result)[k] = "none"
                /\ child # None => cmd'[child] # "none"
  BY JobsAssumption DEF TypeOK, Finished, Freed

\* The flags, which Zenon handles better, and the other variables.
FlagsOK ==
    /\ alive \in BOOLEAN /\ persistent \in BOOLEAN /\ shuttingDown \in BOOLEAN
    /\ pwFile \in BOOLEAN /\ late \in BOOLEAN /\ pidFile \in BOOLEAN

StatesOK ==
    /\ status \in PgServerStatus
    /\ call \in AsyncCalls \union SyncCalls \union {"idle"}
    /\ child \in Jobs \union {None}
    /\ call = "idle" => child = None
    /\ call \notin {"idle", "drop"} => child # None
    /\ cmd \in [Jobs -> Commands \union {"none"}]
    /\ at \in [Jobs -> Progress \union {"none"}]
    /\ \A j \in Jobs : cmd[j] = "none" <=> at[j] = "none"
    /\ child # None => cmd[child] # "none"
    /\ cluster \in ClusterStates
    /\ server \in {"down", "starting", "up", "stopping"}
    /\ faults \subseteq Faults

\* TypeOK is the two together.
LEMMA TypeParts == /\ TypeOK  => FlagsOK /\ StatesOK
                   /\ FlagsOK' /\ StatesOK' => TypeOK'
  BY Zenon DEF TypeOK, FlagsOK, StatesOK

\* A removal, complete or not, leaves well-formed files and children.
LEMMA RemovalType ==
    ASSUME TypeOK, NEW step \in [Jobs -> Progress \union {"none"}],
           RemoveDir(step) \/ RemoveDirError(step)
    PROVE  /\ pidFile' \in BOOLEAN
           /\ cluster' \in ClusterStates
           /\ at' \in [Jobs -> Progress \union {"none"}]
           /\ \A j \in Jobs : at'[j] = "none" <=> step[j] = "none"
<1>1. pidFile \in BOOLEAN /\ cluster \in ClusterStates
  BY DEF TypeOK
<1>2. pidFile' \in BOOLEAN
  BY Zenon, <1>1 DEF RemoveDir, RemoveDirError
<1>3. cluster' \in ClusterStates
  <2>1. Leftovers[cluster] \subseteq ClusterStates
    BY <1>1 DEF Leftovers
  <2> QED
    BY <1>1, <2>1 DEF RemoveDir, RemoveDirError
<1>4. at' = Doom(step) \/ at' = step
  BY DEF RemoveDir, RemoveDirError
<1> QED
  BY <1>2, <1>3, <1>4 DEF Doom

\* Every step keeps the types, whatever the faults.
LEMMA TypeStep ==
    ASSUME TypeOK, [Next]_vars
    PROVE  TypeOK'
<1> USE DEF vars, embed, waits, jobs, disk, pw, pgsrv
<1>1. ASSUME NEW keep \in BOOLEAN, New(keep) PROVE TypeOK'
  BY <1>1 DEF TypeOK, New
<1>2. CASE SetupError
  <2>1. FlagsOK'
    BY Zenon, <1>2, TypeParts DEF FlagsOK, SetupError
  <2>2. StatesOK'
    BY <1>2, TypeParts DEF StatesOK, SetupError
  <2> QED
    BY <2>1, <2>2, TypeParts
<1>3. CASE Setup
  BY <1>3, RunType DEF TypeOK, Setup, BeginInitDb
<1>4. CASE InitDb
  BY <1>4, RunType DEF TypeOK, InitDb, BeginInitDb
<1>5. CASE StartDb
  BY <1>5, RunType DEF TypeOK, StartDb
<1>6. CASE StopDb
  BY <1>6, RunType DEF TypeOK, StopDb
<1>7. CASE StopDbSync
  BY <1>7, RunType DEF TypeOK, StopDbSync
<1>8. CASE DropBegin
  BY <1>8, JobsAssumption DEF TypeOK, DropBegin, Idle, Spawn, Fault
<1>9. CASE CleanUp
  <2>1. /\ pidFile' \in BOOLEAN /\ cluster' \in ClusterStates
        /\ at' \in [Jobs -> Progress \union {"none"}]
        /\ \A j \in Jobs : at'[j] = "none" <=> at[j] = "none"
    BY <1>9, RemovalType DEF TypeOK, CleanUp
  <2>2. pwFile' \in BOOLEAN /\ faults' \subseteq Faults
    BY <1>9 DEF TypeOK, CleanUp, Failing
  <2>3. UNCHANGED <<embed, waits, cmd, late, server>>
    BY <1>9 DEF CleanUp
  <2>4. FlagsOK'
    BY Zenon, <2>1, <2>2, <2>3, TypeParts DEF FlagsOK
  <2>5. StatesOK'
    BY <2>1, <2>2, <2>3, TypeParts DEF StatesOK
  <2> QED
    BY <2>4, <2>5, TypeParts
<1>10. CASE Return
  BY <1>10, JobsAssumption DEF TypeOK, Return, Exited, Reap, StatusExit
<1>11. CASE SyncReturn
  BY <1>11, JobsAssumption DEF TypeOK, SyncReturn, Exited, Reap
<1>12. CASE DropEnd
  <2>1. Reaped \in [Jobs -> Progress \union {"none"}]
    BY DEF TypeOK, Reaped
  <2>2. /\ pidFile' \in BOOLEAN /\ cluster' \in ClusterStates
        /\ at' \in [Jobs -> Progress \union {"none"}]
        /\ \A j \in Jobs : at'[j] = "none" <=> Reaped[j] = "none"
    <3>1. CASE persistent /\ at' = Reaped /\ UNCHANGED <<cluster, pwFile, pidFile, faults>>
      BY <2>1, <3>1 DEF TypeOK
    <3>2. CASE ~persistent /\ Clean(Reaped)
      BY <2>1, <3>2, RemovalType DEF Clean
    <3> QED
      BY <1>12, <3>1, <3>2 DEF DropEnd
  <2>3. pwFile' \in BOOLEAN /\ faults' \subseteq Faults
    BY <1>12 DEF TypeOK, DropEnd, Clean, Failing
  <2>4. FlagsOK'
    BY Zenon, <1>12, <2>2, <2>3, TypeParts DEF FlagsOK, DropEnd, Gone
  <2>5. StatesOK'
    BY <1>12, <2>2, <2>3, TypeParts DEF StatesOK, DropEnd, Gone, Reaped
  <2> QED
    BY <2>4, <2>5, TypeParts
<1>13. CASE Interrupt
  BY <1>13, JobsAssumption DEF TypeOK, Interrupt, Fault, Exited, Reap
<1>14. CASE Crash
  <2>1. FlagsOK'
    BY Zenon, <1>14, TypeParts DEF FlagsOK, Crash, Gone
  <2>2. StatesOK'
    BY <1>14, TypeParts, JobsAssumption DEF StatesOK, Crash, Gone, Fault, Exited, Reap
  <2> QED
    BY <2>1, <2>2, TypeParts
<1>15. ASSUME NEW j \in Jobs, JobStep(j) PROVE TypeOK'
  <2>1. CASE InitdbStart(j)
    BY <2>1, FinishType DEF TypeOK, InitdbStart, Is, Proceed, Finish
  <2>2. CASE InitdbDone(j)
    BY <2>2, FinishType DEF TypeOK, InitdbDone, Is, Finish
  <2>3. CASE InitdbFail(j)
    <3>1. FlagsOK'
      BY Zenon, <2>3, TypeParts DEF FlagsOK, InitdbFail
    <3>2. StatesOK'
      BY <2>3, TypeParts, FinishType DEF StatesOK, InitdbFail, Doom, Fault
    <3> QED
      BY <3>1, <3>2, TypeParts
  <2>4. CASE StartBegin(j)
    <3>1. FlagsOK'
      BY Zenon, <2>4, TypeParts DEF FlagsOK, StartBegin
    <3>2. StatesOK'
      BY <2>4, TypeParts, FinishType DEF StatesOK, StartBegin, Is, Proceed,
         Finish
    <3> QED
      BY <3>1, <3>2, TypeParts
  <2>5. CASE StartEnd(j)
    BY <2>5, FinishType DEF TypeOK, StartEnd, Is, Finish
  <2>6. CASE StopBegin(j)
    BY <2>6, FinishType DEF TypeOK, StopBegin, Is, Proceed, Finish
  <2>7. CASE StopEnd(j)
    BY <2>7, FinishType DEF TypeOK, StopEnd, Is, Finish
  <2> QED
    BY <1>15, <2>1, <2>2, <2>3, <2>4, <2>5, <2>6, <2>7 DEF JobStep
<1>16. ASSUME NEW j \in Jobs, GiveUp(j) PROVE TypeOK'
  BY <1>16, FinishType DEF TypeOK, GiveUp, Finish, Fault
<1>17. CASE ServerUp \/ ServerDown \/ ServerFail
  <2>1. FlagsOK'
    BY Zenon, <1>17, TypeParts DEF FlagsOK, ServerUp, ServerDown, ServerFail
  <2>2. StatesOK'
    BY <1>17, TypeParts DEF StatesOK, ServerUp, ServerDown, ServerFail, Fault
  <2> QED
    BY <2>1, <2>2, TypeParts
<1>18. CASE SetupInterrupt
  <2>1. FlagsOK'
    BY Zenon, <1>18, TypeParts DEF FlagsOK, SetupInterrupt
  <2>2. StatesOK'
    BY <1>18, TypeParts DEF StatesOK, SetupInterrupt, Fault
  <2> QED
    BY <2>1, <2>2, TypeParts
<1>19. CASE LateCreate
  <2>1. FlagsOK'
    BY Zenon, <1>19, TypeParts DEF FlagsOK, LateCreate
  <2>2. StatesOK'
    BY <1>19, TypeParts DEF StatesOK, LateCreate, Fault
  <2> QED
    BY <2>1, <2>2, TypeParts
<1>20. CASE UNCHANGED vars
  BY <1>20 DEF TypeOK
<1> QED
  BY <1>1, <1>2, <1>3, <1>4, <1>5, <1>6, <1>7, <1>8, <1>9, <1>10, <1>11, <1>12,
     <1>13, <1>14, <1>15, <1>16, <1>17, <1>18, <1>19, <1>20 DEF Next, Method, Returns

\* The state of a PgEmbed value, of its children and of its files is well formed
\* after any sequence of calls, exits and faults.
THEOREM TypeCorrect == Spec => []TypeOK
<1>1. Init => TypeOK
  BY DEF Init, TypeOK
<1>2. TypeOK /\ [Next]_vars => TypeOK'
  BY TypeStep
<1> QED
  BY <1>1, <1>2, PTL DEF Spec

(***************************************************************************)
(* Safety without disturbance: what holds between calls as long as the     *)
(* environment produces no fault but failing removals.                     *)
(***************************************************************************)

\* The history of faults only grows.
LEMMA FaultsGrow ==
    ASSUME [Next]_vars
    PROVE  faults \subseteq faults'
  BY DEF Next, Method, Returns, JobStep, New, SetupError, SetupInterrupt,
     LateCreate, Setup, InitDb,
     StartDb, StopDb, StopDbSync, DropBegin, CleanUp, Return, SyncReturn,
     DropEnd, Interrupt, Crash, ServerUp, ServerDown, ServerFail, InitdbStart,
     InitdbDone, InitdbFail, StartBegin, StartEnd, StopBegin, StopEnd, GiveUp,
     BeginInitDb, Run, Clean, RemoveDir, RemoveDirError, Failing, CleanFaults,
     Fault, vars

\* A step after which the value is undisturbed started so and is no fault.
LEMMA Undisturbing ==
    ASSUME [Next]_vars, Undisturbed'
    PROVE  /\ Undisturbed
           /\ \A k \in {"interrupt", "crash", "postgres"} : ~Fault(k)
  BY FaultsGrow DEF Undisturbed, CleanFaults, Fault

\* What ties the call, its child and the server together, without the premise.
Tied == OnlyAwaited /\ ServerFollowsChild /\ FlagFollowsCalls /\
   StatusFollowsCalls

\* A step that is no disturbance keeps them tied.
LEMMA CalmStep ==
    ASSUME TypeOK, TypeOK', Calm, [Next]_vars
    PROVE  Calm'
<1> SUFFICES ASSUME Undisturbed' PROVE Tied'
  BY DEF Calm, Tied
<1> USE DEF vars, embed, waits, jobs, disk, pw, pgsrv, Idle, Tied
<1>0. Tied /\ \A k \in {"interrupt", "crash", "postgres"} : ~Fault(k)
  BY Undisturbing DEF Calm
<1>1. ASSUME NEW keep \in BOOLEAN, New(keep) PROVE Tied'
  BY <1>0, JobsAssumption, <1>1 DEF TypeOK, OnlyAwaited, ServerFollowsChild,
     FlagFollowsCalls, StatusFollowsCalls, CommandOf, Is, New
<1>2. CASE SetupError
  BY <1>0, JobsAssumption, <1>2 DEF TypeOK, OnlyAwaited, ServerFollowsChild,
     FlagFollowsCalls, StatusFollowsCalls, CommandOf, Is, SetupError
<1>3. CASE Setup
  BY <1>0, JobsAssumption, <1>3 DEF TypeOK, OnlyAwaited, ServerFollowsChild,
     FlagFollowsCalls, StatusFollowsCalls, CommandOf, Is, Setup, BeginInitDb,
     Run, Spawn, DbFilesExist
<1>4. CASE InitDb
  BY <1>0, JobsAssumption, <1>4 DEF TypeOK, OnlyAwaited, ServerFollowsChild,
     FlagFollowsCalls, StatusFollowsCalls, CommandOf, Is, InitDb, BeginInitDb,
     Run, Spawn
<1>5. CASE StartDb
  BY <1>0, JobsAssumption, <1>5 DEF TypeOK, OnlyAwaited, ServerFollowsChild,
     FlagFollowsCalls, StatusFollowsCalls, CommandOf, Is, StartDb, Run, Spawn
<1>6. CASE StopDb
  BY <1>0, JobsAssumption, <1>6 DEF TypeOK, OnlyAwaited, ServerFollowsChild,
     FlagFollowsCalls, StatusFollowsCalls, CommandOf, Is, StopDb, Run, Spawn
<1>7. CASE StopDbSync
  BY <1>0, JobsAssumption, <1>7 DEF TypeOK, OnlyAwaited, ServerFollowsChild,
     FlagFollowsCalls, StatusFollowsCalls, CommandOf, Is, StopDbSync, Run,
     Spawn
<1>8. CASE DropBegin
  BY <1>0, JobsAssumption, <1>8 DEF TypeOK, OnlyAwaited, ServerFollowsChild,
     FlagFollowsCalls, StatusFollowsCalls, CommandOf, Is, DropBegin, Spawn
<1>9. CASE CleanUp
  BY <1>0, JobsAssumption, <1>9 DEF TypeOK, OnlyAwaited, ServerFollowsChild,
     FlagFollowsCalls, StatusFollowsCalls, CommandOf, Is, CleanUp, Doom,
     RemoveDir, RemoveDirError, Failing, CleanFaults, Leftovers
<1>10. CASE Return
  BY <1>0, JobsAssumption, <1>10 DEF TypeOK, OnlyAwaited, ServerFollowsChild,
     FlagFollowsCalls, StatusFollowsCalls, CommandOf, Is, Return, Exited,
     Reap, StatusExit
<1>11. CASE SyncReturn
  BY <1>0, JobsAssumption, <1>11 DEF TypeOK, OnlyAwaited, ServerFollowsChild,
     FlagFollowsCalls, StatusFollowsCalls, CommandOf, Is, SyncReturn, Exited,
     Reap
<1>12. CASE DropEnd
  BY <1>0, JobsAssumption, <1>12 DEF TypeOK, OnlyAwaited, ServerFollowsChild,
     FlagFollowsCalls, StatusFollowsCalls, CommandOf, Is, DropEnd, Gone, Reaped,
     Exited,
     Doom, Clean, RemoveDir, RemoveDirError, Failing, CleanFaults, Leftovers
<1>13. CASE Interrupt
  BY <1>0, JobsAssumption, <1>13 DEF TypeOK, OnlyAwaited, ServerFollowsChild,
     FlagFollowsCalls, StatusFollowsCalls, CommandOf, Is, Interrupt
<1>14. CASE Crash
  BY <1>0, JobsAssumption, <1>14 DEF TypeOK, OnlyAwaited, ServerFollowsChild,
     FlagFollowsCalls, StatusFollowsCalls, CommandOf, Is, Crash, Gone
<1>15. CASE ServerUp
  BY <1>0, JobsAssumption, <1>15 DEF TypeOK, OnlyAwaited, ServerFollowsChild,
     FlagFollowsCalls, StatusFollowsCalls, CommandOf, Is, ServerUp
<1>16. CASE ServerDown
  BY <1>0, JobsAssumption, <1>16 DEF TypeOK, OnlyAwaited, ServerFollowsChild,
     FlagFollowsCalls, StatusFollowsCalls, CommandOf, Is, ServerDown
<1>17. CASE ServerFail
  BY <1>0, JobsAssumption, <1>17 DEF TypeOK, OnlyAwaited, ServerFollowsChild,
     FlagFollowsCalls, StatusFollowsCalls, CommandOf, Is, ServerFail
<1>18. ASSUME NEW j \in Jobs, InitdbStart(j) PROVE Tied'
  BY <1>0, JobsAssumption, <1>18 DEF TypeOK, OnlyAwaited, ServerFollowsChild,
     FlagFollowsCalls, StatusFollowsCalls, CommandOf, Is, InitdbStart,
     Proceed, Finish, Finished, Freed
<1>19. ASSUME NEW j \in Jobs, InitdbDone(j) PROVE Tied'
  BY <1>0, JobsAssumption, <1>19 DEF TypeOK, OnlyAwaited, ServerFollowsChild,
     FlagFollowsCalls, StatusFollowsCalls, CommandOf, Is, InitdbDone, Finish,
     Finished, Freed
<1>20. ASSUME NEW j \in Jobs, InitdbFail(j) PROVE Tied'
  BY <1>0, JobsAssumption, <1>20 DEF TypeOK, OnlyAwaited, ServerFollowsChild,
     FlagFollowsCalls, StatusFollowsCalls, CommandOf, Is, InitdbFail, Doom,
     Finished, Freed
<1>21. ASSUME NEW j \in Jobs, StartBegin(j) PROVE Tied'
  BY <1>0, JobsAssumption, <1>21 DEF TypeOK, OnlyAwaited, ServerFollowsChild,
     FlagFollowsCalls, StatusFollowsCalls, CommandOf, Is, StartBegin, Proceed,
     Finish, Finished, Freed
<1>22. ASSUME NEW j \in Jobs, StartEnd(j) PROVE Tied'
  BY <1>0, JobsAssumption, <1>22 DEF TypeOK, OnlyAwaited, ServerFollowsChild,
     FlagFollowsCalls, StatusFollowsCalls, CommandOf, Is, StartEnd, Finish,
     Finished, Freed
<1>23. ASSUME NEW j \in Jobs, StopBegin(j) PROVE Tied'
  BY <1>0, JobsAssumption, <1>23 DEF TypeOK, OnlyAwaited, ServerFollowsChild,
     FlagFollowsCalls, StatusFollowsCalls, CommandOf, Is, StopBegin, Proceed,
     Finish, Finished, Freed
<1>24. ASSUME NEW j \in Jobs, StopEnd(j) PROVE Tied'
  BY <1>0, JobsAssumption, <1>24 DEF TypeOK, OnlyAwaited, ServerFollowsChild,
     FlagFollowsCalls, StatusFollowsCalls, CommandOf, Is, StopEnd, Finish,
     Finished, Freed
<1>25. ASSUME NEW j \in Jobs, GiveUp(j) PROVE Tied'
  BY <1>0, JobsAssumption, <1>25 DEF TypeOK, OnlyAwaited, ServerFollowsChild,
     FlagFollowsCalls, StatusFollowsCalls, CommandOf, Is, GiveUp, Finish,
     Finished, Freed
<1>26. CASE SetupInterrupt \/ LateCreate
  BY <1>0, JobsAssumption, <1>26 DEF TypeOK, OnlyAwaited, ServerFollowsChild,
     FlagFollowsCalls, StatusFollowsCalls, CommandOf, Is, SetupInterrupt,
     LateCreate
<1>27. CASE UNCHANGED vars
  BY <1>0, JobsAssumption, <1>27 DEF OnlyAwaited, ServerFollowsChild,
     FlagFollowsCalls, StatusFollowsCalls, CommandOf, Is
<1> QED
  BY <1>1, <1>2, <1>3, <1>4, <1>5, <1>6, <1>7, <1>8, <1>9, <1>10, <1>11,
     <1>12, <1>13, <1>14, <1>15, <1>16, <1>17, <1>18, <1>19, <1>20, <1>21,
     <1>22, <1>23, <1>24, <1>25, <1>26, <1>27 DEF Next, Method, Returns, JobStep

\* The same for the cluster directory, when there has been no fault at all.
LEMMA ClusterStep ==
    ASSUME TypeOK, TypeOK', Calm, ClusterFollowsInitdb, [Next]_vars
    PROVE  ClusterFollowsInitdb'
<1> DEFINE Whole ==
      /\ cluster # "debris"
      /\ cluster = "partial" => child # None /\ Is(child, "initdb", "running")
      /\ child # None /\ Is(child, "initdb", "running") => cluster = "partial"
      /\ child # None /\ Is(child, "initdb", "ok") => cluster = "ready"
      /\ child # None /\ cmd[child] = "stop" /\ at[child] \in {"running", "ok"}
            => cluster = "ready"
      /\ alive /\ status \in {"Initialized", "Started", "Stopped"}
            => cluster \in {"ready", "absent"}
<1> SUFFICES ASSUME faults' = {} PROVE Whole'
  BY DEF ClusterFollowsInitdb
<1> USE DEF vars, embed, waits, jobs, disk, pw, pgsrv, Idle
<1>0. /\ Whole /\ OnlyAwaited /\ ServerFollowsChild /\ StatusFollowsCalls
      /\ \A k \in FaultKinds : ~Fault(k)
  BY FaultsGrow DEF Calm, Undisturbed, ClusterFollowsInitdb, Fault
<1> USE DEF FaultKinds
<1>1. ASSUME NEW keep \in BOOLEAN, New(keep) PROVE Whole'
  BY <1>0, JobsAssumption, <1>1 DEF TypeOK, OnlyAwaited, ServerFollowsChild,
     StatusFollowsCalls, CommandOf, Is, New
<1>2. CASE SetupError
  BY <1>0, JobsAssumption, <1>2 DEF TypeOK, OnlyAwaited, ServerFollowsChild,
     StatusFollowsCalls, CommandOf, Is, SetupError
<1>3. CASE Setup
  BY <1>0, JobsAssumption, <1>3 DEF TypeOK, OnlyAwaited, ServerFollowsChild,
     StatusFollowsCalls, CommandOf, Is, Setup, BeginInitDb, Run, Spawn,
     DbFilesExist
<1>4. CASE InitDb
  BY <1>0, JobsAssumption, <1>4 DEF TypeOK, OnlyAwaited, ServerFollowsChild,
     StatusFollowsCalls, CommandOf, Is, InitDb, BeginInitDb, Run, Spawn
<1>5. CASE StartDb
  BY <1>0, JobsAssumption, <1>5 DEF TypeOK, OnlyAwaited, ServerFollowsChild,
     StatusFollowsCalls, CommandOf, Is, StartDb, Run, Spawn
<1>6. CASE StopDb
  BY <1>0, JobsAssumption, <1>6 DEF TypeOK, OnlyAwaited, ServerFollowsChild,
     StatusFollowsCalls, CommandOf, Is, StopDb, Run, Spawn
<1>7. CASE StopDbSync
  BY <1>0, JobsAssumption, <1>7 DEF TypeOK, OnlyAwaited, ServerFollowsChild,
     StatusFollowsCalls, CommandOf, Is, StopDbSync, Run, Spawn
<1>8. CASE DropBegin
  BY <1>0, JobsAssumption, <1>8 DEF TypeOK, OnlyAwaited, ServerFollowsChild,
     StatusFollowsCalls, CommandOf, Is, DropBegin, Spawn
<1>9. CASE CleanUp
  BY <1>0, JobsAssumption, <1>9 DEF TypeOK, OnlyAwaited, ServerFollowsChild,
     StatusFollowsCalls, CommandOf, Is, CleanUp, Doom, RemoveDir,
     RemoveDirError, Failing, CleanFaults, Leftovers
<1>10. CASE Return
  BY <1>0, JobsAssumption, <1>10 DEF TypeOK, OnlyAwaited, ServerFollowsChild,
     StatusFollowsCalls, CommandOf, Is, Return, Exited, Reap, StatusExit
<1>11. CASE SyncReturn
  BY <1>0, JobsAssumption, <1>11 DEF TypeOK, OnlyAwaited, ServerFollowsChild,
     StatusFollowsCalls, CommandOf, Is, SyncReturn, Exited, Reap
<1>12. CASE DropEnd
  BY <1>0, JobsAssumption, <1>12 DEF TypeOK, OnlyAwaited, ServerFollowsChild,
     StatusFollowsCalls, CommandOf, Is, DropEnd, Gone, Reaped, Exited, Doom, Clean,
     RemoveDir, RemoveDirError, Failing, CleanFaults, Leftovers
<1>13. CASE Interrupt
  BY <1>0, JobsAssumption, <1>13 DEF TypeOK, OnlyAwaited, ServerFollowsChild,
     StatusFollowsCalls, CommandOf, Is, Interrupt
<1>14. CASE Crash
  BY <1>0, JobsAssumption, <1>14 DEF TypeOK, OnlyAwaited, ServerFollowsChild,
     StatusFollowsCalls, CommandOf, Is, Crash, Gone
<1>15. CASE ServerUp
  BY <1>0, JobsAssumption, <1>15 DEF TypeOK, OnlyAwaited, ServerFollowsChild,
     StatusFollowsCalls, CommandOf, Is, ServerUp
<1>16. CASE ServerDown
  BY <1>0, JobsAssumption, <1>16 DEF TypeOK, OnlyAwaited, ServerFollowsChild,
     StatusFollowsCalls, CommandOf, Is, ServerDown
<1>17. CASE ServerFail
  BY <1>0, JobsAssumption, <1>17 DEF TypeOK, OnlyAwaited, ServerFollowsChild,
     StatusFollowsCalls, CommandOf, Is, ServerFail
<1>18. ASSUME NEW j \in Jobs, InitdbStart(j) PROVE Whole'
  BY <1>0, JobsAssumption, <1>18 DEF TypeOK, OnlyAwaited, ServerFollowsChild,
     StatusFollowsCalls, CommandOf, Is, InitdbStart, Proceed, Finish,
     Finished, Freed
<1>19. ASSUME NEW j \in Jobs, InitdbDone(j) PROVE Whole'
  BY <1>0, JobsAssumption, <1>19 DEF TypeOK, OnlyAwaited, ServerFollowsChild,
     StatusFollowsCalls, CommandOf, Is, InitdbDone, Finish, Finished, Freed
<1>20. ASSUME NEW j \in Jobs, InitdbFail(j) PROVE Whole'
  BY <1>0, JobsAssumption, <1>20 DEF TypeOK, OnlyAwaited, ServerFollowsChild,
     StatusFollowsCalls, CommandOf, Is, InitdbFail, Doom, Finished, Freed
<1>21. ASSUME NEW j \in Jobs, StartBegin(j) PROVE Whole'
  BY <1>0, JobsAssumption, <1>21 DEF TypeOK, OnlyAwaited, ServerFollowsChild,
     StatusFollowsCalls, CommandOf, Is, StartBegin, Proceed, Finish, Finished,
     Freed
<1>22. ASSUME NEW j \in Jobs, StartEnd(j) PROVE Whole'
  BY <1>0, JobsAssumption, <1>22 DEF TypeOK, OnlyAwaited, ServerFollowsChild,
     StatusFollowsCalls, CommandOf, Is, StartEnd, Finish, Finished, Freed
<1>23. ASSUME NEW j \in Jobs, StopBegin(j) PROVE Whole'
  BY <1>0, JobsAssumption, <1>23 DEF TypeOK, OnlyAwaited, ServerFollowsChild,
     StatusFollowsCalls, CommandOf, Is, StopBegin, Proceed, Finish, Finished,
     Freed
<1>24. ASSUME NEW j \in Jobs, StopEnd(j) PROVE Whole'
  BY <1>0, JobsAssumption, <1>24 DEF TypeOK, OnlyAwaited, ServerFollowsChild,
     StatusFollowsCalls, CommandOf, Is, StopEnd, Finish, Finished, Freed
<1>25. ASSUME NEW j \in Jobs, GiveUp(j) PROVE Whole'
  BY <1>0, JobsAssumption, <1>25 DEF TypeOK, OnlyAwaited, ServerFollowsChild,
     StatusFollowsCalls, CommandOf, Is, GiveUp, Finish, Finished, Freed
<1>26. CASE SetupInterrupt \/ LateCreate
  BY <1>0, JobsAssumption, <1>26 DEF TypeOK, OnlyAwaited, ServerFollowsChild,
     StatusFollowsCalls, CommandOf, Is, SetupInterrupt, LateCreate
<1>27. CASE UNCHANGED vars
  BY <1>0, JobsAssumption, <1>27 DEF OnlyAwaited, ServerFollowsChild,
     StatusFollowsCalls, CommandOf, Is
<1> QED
  BY <1>1, <1>2, <1>3, <1>4, <1>5, <1>6, <1>7, <1>8, <1>9, <1>10, <1>11,
     <1>12, <1>13, <1>14, <1>15, <1>16, <1>17, <1>18, <1>19, <1>20, <1>21,
     <1>22, <1>23, <1>24, <1>25, <1>26, <1>27 DEF Next, Method, Returns, JobStep

\* The inductive invariant holds of every reachable state.
THEOREM Invariance == Spec => []IInv
<1>1. Init => IInv
  BY DEF Init, IInv, TypeOK, Calm, OnlyAwaited, ServerFollowsChild,
     FlagFollowsCalls, StatusFollowsCalls, ClusterFollowsInitdb
<1>2. IInv /\ [Next]_vars => IInv'
  BY TypeStep, CalmStep, ClusterStep DEF IInv
<1> QED
  BY <1>1, <1>2, PTL DEF Spec

\* StatusTruthful: between calls, Started and Stopped say what the postmaster
\* does.
THEOREM StatusIsTruthful == Spec => []StatusTruthful
<1>1. IInv => StatusTruthful
  BY DEF IInv, Calm, StatusFollowsCalls, StatusTruthful
<1> QED
  BY <1>1, Invariance, PTL

\* FlagTruthful: shutting_down never hides a running server from Drop.
THEOREM FlagIsTruthful == Spec => []FlagTruthful
<1>1. IInv => FlagTruthful
  BY DEF IInv, TypeOK, Calm, FlagFollowsCalls, FlagTruthful, Idle
<1> QED
  BY <1>1, Invariance, PTL

\* NoOrphanServer: a server is down once its PgEmbed value is gone.
THEOREM NoOrphan == Spec => []NoOrphanServer
<1>1. IInv => NoOrphanServer
  BY DEF IInv, Calm, ServerFollowsChild, NoOrphanServer
<1> QED
  BY <1>1, Invariance, PTL

\* InitializedMeansReady: between calls no status vouches for a cluster that
\* initdb did not finish.
THEOREM InitializedIsReady == Spec => []InitializedMeansReady
<1>1. IInv => InitializedMeansReady
  BY DEF IInv, ClusterFollowsInitdb, InitializedMeansReady, Idle
<1> QED
  BY <1>1, Invariance, PTL

(***************************************************************************)
(* Safety under every fault.                                               *)
(***************************************************************************)

\* PasswordRemoved: no stop that fails, child that outlives its call or directory
\* that resists leaves the password file of a non-persistent value behind, and
\* neither does a creation that setup left to the blocking pool, unless it comes
\* after the drop.
THEOREM PasswordIsRemoved == Spec => []PasswordRemoved
<1>1. Init => PasswordRemoved
  BY DEF Init, PasswordRemoved
<1>2. ASSUME PasswordRemoved, [Next]_vars PROVE PasswordRemoved'
  <2> SUFFICES ASSUME ~alive', ~persistent',
                      faults' \intersect {"crash", "clean_pw", "late"} = {}
               PROVE  ~pwFile'
    BY DEF PasswordRemoved
  <2>1. faults \intersect {"crash", "clean_pw", "late"} = {}
    BY <1>2, FaultsGrow
  <2>2. ~Fault("crash") /\ ~Fault("clean_pw") /\ ~Fault("late")
    BY DEF Fault
  <2>3. CASE ~alive /\ ~persistent
    <3>1. ~pwFile
      BY <1>2, <2>1, <2>3 DEF PasswordRemoved
    <3> QED
      BY <1>2, <2>2, <2>3, <3>1 DEF Next, Method, Returns,
         JobStep, New, SetupError, SetupInterrupt, LateCreate, Setup,
         InitDb, StartDb, StopDb, StopDbSync, DropBegin, CleanUp, Return, SyncReturn, DropEnd, Interrupt, Crash, ServerUp,
         ServerDown, ServerFail, InitdbStart, InitdbDone, InitdbFail,
         StartBegin, StartEnd, StopBegin, StopEnd, GiveUp, BeginInitDb, Run,
         Clean, RemoveDir, RemoveDirError, Failing, CleanFaults, vars, Idle,
         embed, waits, jobs, disk, pw, pgsrv
  <2>4. CASE alive \/ persistent
    <3>0. /\ ~LateCreate
          /\ [Next]_vars => DropEnd \/ Crash \/ LateCreate
                            \/ ((alive' <=> alive) /\ (persistent' <=> persistent))
                            \/ alive'
      <4>1. LateCreate => (alive' <=> alive) /\ (alive \/ Fault("late"))
        BY DEF LateCreate, embed
      <4>2. [Next]_vars => DropEnd \/ Crash \/ LateCreate
                            \/ (UNCHANGED <<alive, persistent>>) \/ alive'
        BY DEF Next, Method, Returns, JobStep, New, SetupError, SetupInterrupt,
           Setup, InitDb, StartDb, StopDb, StopDbSync, DropBegin, CleanUp,
           Return, SyncReturn, Interrupt, ServerUp, ServerDown, ServerFail,
           InitdbStart, InitdbDone, InitdbFail, StartBegin, StartEnd,
           StopBegin, StopEnd, GiveUp, BeginInitDb, vars, embed
      <4>3. UNCHANGED <<alive, persistent>> =>
                (alive' <=> alive) /\ (persistent' <=> persistent)
        OBVIOUS
      <4> QED
        BY Zenon, <2>2, <4>1, <4>2, <4>3
    <3>1. DropEnd
      <4>1. Crash => Fault("crash")
        BY DEF Crash
      <4> QED
        BY Zenon, <1>2, <2>2, <2>4, <3>0, <4>1
    <3>2. ~persistent /\ Clean(Reaped)
      BY <2>4, <3>1 DEF DropEnd
    <3> QED
      BY <2>2, <3>2 DEF Clean, Failing, CleanFaults, Fault
  <2> QED
    BY <2>3, <2>4
<1> QED
  BY <1>1, <1>2, PTL DEF Spec

\* At most one initdb is at work in the directory, and it is at work there.
InitdbAlone ==
    \A j, k \in Jobs : Is(j, "initdb", "running") =>
        /\ cluster = "partial"
        /\ Is(k, "initdb", "running") => k = j

\* An initdb starts only where nothing is, and loses its directory to a removal.
LEMMA InitdbAloneStep ==
    ASSUME TypeOK, InitdbAlone, [Next]_vars
    PROVE  InitdbAlone'
<1> USE DEF vars, embed, waits, jobs, disk, pw, pgsrv, InitdbAlone, Is
<1>1. ASSUME NEW keep \in BOOLEAN, New(keep) PROVE InitdbAlone'
  BY <1>1 DEF TypeOK, New
<1>2. CASE SetupError
  BY <1>2 DEF TypeOK, SetupError
<1>3. CASE Setup
  BY <1>3 DEF TypeOK, Setup, BeginInitDb, Run, Spawn, DbFilesExist
<1>4. CASE InitDb
  BY <1>4 DEF TypeOK, InitDb, BeginInitDb, Run, Spawn
<1>5. CASE StartDb
  BY <1>5 DEF TypeOK, StartDb, Run, Spawn
<1>6. CASE StopDb
  BY <1>6 DEF TypeOK, StopDb, Run, Spawn
<1>7. CASE StopDbSync
  BY <1>7 DEF TypeOK, StopDbSync, Run, Spawn
<1>8. CASE DropBegin
  BY <1>8 DEF TypeOK, DropBegin, Spawn
<1>9. CASE CleanUp
  BY <1>9 DEF TypeOK, CleanUp, Doom, RemoveDir, RemoveDirError, Failing,
     CleanFaults, Leftovers
<1>10. CASE Return
  BY <1>10 DEF TypeOK, Return, Exited, Reap, StatusExit
<1>11. CASE SyncReturn
  BY <1>11 DEF TypeOK, SyncReturn, Exited, Reap
<1>12. CASE DropEnd
  BY <1>12 DEF TypeOK, DropEnd, Gone, Reaped, Exited, Doom, Clean, RemoveDir,
     RemoveDirError, Failing, CleanFaults, Leftovers
<1>13. CASE Interrupt
  BY <1>13 DEF TypeOK, Interrupt, Exited, Reap
<1>14. CASE Crash
  BY <1>14 DEF TypeOK, Crash, Gone, Exited, Reap
<1>15. CASE ServerUp
  BY <1>15 DEF TypeOK, ServerUp
<1>16. CASE ServerDown
  BY <1>16 DEF TypeOK, ServerDown
<1>17. CASE ServerFail
  BY <1>17 DEF TypeOK, ServerFail
<1>18. ASSUME NEW j \in Jobs, InitdbStart(j) PROVE InitdbAlone'
  BY <1>18 DEF TypeOK, InitdbStart, Proceed, Finish, Finished, Freed
<1>19. ASSUME NEW j \in Jobs, InitdbDone(j) PROVE InitdbAlone'
  BY <1>19 DEF TypeOK, InitdbDone, Finish, Finished, Freed
<1>20. ASSUME NEW j \in Jobs, InitdbFail(j) PROVE InitdbAlone'
  BY <1>20 DEF TypeOK, InitdbFail, Doom, Finished, Freed
<1>21. ASSUME NEW j \in Jobs, StartBegin(j) PROVE InitdbAlone'
  BY <1>21 DEF TypeOK, StartBegin, Proceed, Finish, Finished, Freed
<1>22. ASSUME NEW j \in Jobs, StartEnd(j) PROVE InitdbAlone'
  BY <1>22 DEF TypeOK, StartEnd, Finish, Finished, Freed
<1>23. ASSUME NEW j \in Jobs, StopBegin(j) PROVE InitdbAlone'
  BY <1>23 DEF TypeOK, StopBegin, Proceed, Finish, Finished, Freed
<1>24. ASSUME NEW j \in Jobs, StopEnd(j) PROVE InitdbAlone'
  BY <1>24 DEF TypeOK, StopEnd, Finish, Finished, Freed
<1>25. ASSUME NEW j \in Jobs, GiveUp(j) PROVE InitdbAlone'
  BY <1>25 DEF TypeOK, GiveUp, Finish, Finished, Freed
<1>26. CASE SetupInterrupt \/ LateCreate
  BY <1>26 DEF TypeOK, SetupInterrupt, LateCreate
<1>27. CASE UNCHANGED vars
  BY <1>27
<1> QED
  BY <1>1, <1>2, <1>3, <1>4, <1>5, <1>6, <1>7, <1>8, <1>9, <1>10, <1>11,
     <1>12, <1>13, <1>14, <1>15, <1>16, <1>17, <1>18, <1>19, <1>20, <1>21,
     <1>22, <1>23, <1>24, <1>25, <1>26, <1>27 DEF Next, Method, Returns, JobStep

\* ReadyDataKept: a finished cluster outlives everything but the drop of a
\* non-persistent value, clean_up, and an initdb bereft of its directory.
THEOREM ReadyDataIsKept == Spec => ReadyDataKept
<1> DEFINE Inv  == TypeOK /\ InitdbAlone
           Kept == cluster = "ready" /\ cluster' # "ready" =>
                      \/ call = "drop" /\ ~persistent
                      \/ call = "idle" /\ CleanUp
                      \/ \E j \in Jobs : at[j] = "doomed" /\ InitdbFail(j)
<1>1. Init => Inv
  BY DEF Init, TypeOK, InitdbAlone, Is
<1>2. Inv /\ [Next]_vars => Inv'
  BY TypeStep, InitdbAloneStep
<1>3. ASSUME Inv, [Next]_vars PROVE Kept
  <2> SUFFICES ASSUME cluster = "ready", cluster' # "ready"
               PROVE  \/ call = "drop" /\ ~persistent
                      \/ call = "idle" /\ CleanUp
                      \/ \E j \in Jobs : at[j] = "doomed" /\ InitdbFail(j)
    OBVIOUS
  <2>1. CleanUp \/ DropEnd \/ \E j \in Jobs : InitdbFail(j)
    BY <1>3 DEF Next, Method, Returns, JobStep, New, SetupError, Setup,
       InitDb, StartDb, StopDb, StopDbSync, DropBegin, Return, SyncReturn,
       Interrupt, Crash, ServerUp, ServerDown, ServerFail, InitdbStart,
       InitdbDone, StartBegin, StartEnd, StopBegin, StopEnd, GiveUp, vars,
       disk, pw, SetupInterrupt, LateCreate
  <2>2. CASE CleanUp
    BY <2>2 DEF CleanUp
  <2>3. CASE DropEnd
    BY <2>3 DEF DropEnd
  <2>4. ASSUME NEW j \in Jobs, InitdbFail(j) PROVE at[j] = "doomed"
    BY <1>3, <2>4 DEF InitdbFail, InitdbAlone, Is
  <2> QED
    BY <2>1, <2>2, <2>3, <2>4
<1> QED
  BY <1>1, <1>2, <1>3, PTL DEF Spec, ReadyDataKept

(***************************************************************************)
(* The promise to the user of a value.                                     *)
(***************************************************************************)

\* A start that failed was refused: there was no finished cluster, or the
\* server was up before.
StartHasReason ==
    Undisturbed /\ call = "start_db" /\ at[child] = "failed" /\ server = "down"
        => cluster # "ready"

\* Nothing removes the reason before the call returns.
LEMMA StartHasReasonStep ==
    ASSUME IInv, StartHasReason, [Next]_vars
    PROVE  StartHasReason'
<1> SUFFICES ASSUME Undisturbed', call' = "start_db", at'[child'] = "failed",
                    server' = "down"
             PROVE  cluster' # "ready"
  BY DEF StartHasReason
<1> USE DEF vars, embed, waits, jobs, disk, pw, pgsrv, Idle
<1>0. /\ TypeOK /\ OnlyAwaited /\ ServerFollowsChild
      /\ \A k \in {"interrupt", "crash", "postgres"} : ~Fault(k)
      /\ call = "start_db" /\ at[child] = "failed" /\ server = "down"
            => cluster # "ready"
  BY Undisturbing DEF IInv, Calm, StartHasReason
<1>1. ASSUME Method PROVE cluster' # "ready"
  <2>1. ASSUME NEW keep \in BOOLEAN, New(keep) PROVE FALSE
    BY <1>0, <2>1 DEF New, OnlyAwaited
  <2>2. CASE SetupError \/ Setup \/ InitDb \/ StopDb \/ StopDbSync \/ DropBegin
    BY <1>0, <2>2 DEF SetupError, Setup, InitDb, BeginInitDb, StopDb, StopDbSync,
       DropBegin, Run
  <2>3. CASE StartDb
    BY <1>0, <2>3 DEF TypeOK, StartDb, Run, Spawn
  <2>4. CASE CleanUp
    BY <2>4 DEF CleanUp
  <2> QED
    BY <1>1, <2>1, <2>2, <2>3, <2>4 DEF Method
<1>2. CASE Returns \/ Interrupt \/ Crash
  BY <1>2 DEF Returns, Return, SyncReturn, DropEnd, Interrupt, Crash, Gone
<1>3. CASE ServerUp \/ ServerDown \/ ServerFail
  BY <1>0, <1>3 DEF ServerUp, ServerDown, ServerFail, ServerFollowsChild, Is,
     TypeOK
<1>4. ASSUME NEW j \in Jobs, JobStep(j) \/ GiveUp(j) PROVE cluster' # "ready"
  <2>1. j = child /\ cmd[child] = "start" /\ call = "start_db"
    BY <1>0, <1>4 DEF OnlyAwaited, CommandOf, TypeOK, JobStep, Is, InitdbStart,
       InitdbDone, InitdbFail, StartBegin, StartEnd, StopBegin, StopEnd, GiveUp
  <2>2. StartBegin(j) \/ StartEnd(j)
    BY <1>0, <1>4, <2>1 DEF JobStep, Is, InitdbStart, InitdbDone, InitdbFail,
       StopBegin, StopEnd, GiveUp
  <2> QED
    BY <1>0, <2>1, <2>2 DEF StartBegin, StartEnd, Is, Proceed, ServerFollowsChild,
       TypeOK
<1>5. CASE SetupInterrupt \/ LateCreate
  BY <1>0, <1>5 DEF SetupInterrupt, LateCreate
<1>6. CASE UNCHANGED vars
  BY <1>0, <1>6
<1> QED
  BY <1>1, <1>2, <1>3, <1>4, <1>5, <1>6 DEF Next

\* What a user sees, and how it changes without a disturbance.
Seen == <<IF alive THEN call ELSE "none", persistent, Says, server,
          cluster = "ready">>

Kept == Managed!Promised \/ UNCHANGED Seen

\* Every step that is no disturbance is one the user was promised, or none that
\* the user sees.
LEMMA PromiseStep ==
    ASSUME IInv, InitdbAlone, StartHasReason, [Next]_vars, Undisturbed'
    PROVE  Kept
<1> USE DEF vars, embed, waits, jobs, disk, pw, pgsrv, Idle, Kept, Seen
<1>0. /\ TypeOK /\ Tied /\ InitdbAlone
      /\ \A k \in {"interrupt", "crash", "postgres"} : ~Fault(k)
      /\ call = "start_db" /\ at[child] = "failed" /\ server = "down"
            => cluster # "ready"
  BY Undisturbing DEF IInv, Calm, Tied, StartHasReason
<1>1. ASSUME NEW keep \in BOOLEAN, New(keep) PROVE Kept
  <2>1. Managed!Create
    BY <1>0, <1>1 DEF New, Managed!Create, Says, Tied, OnlyAwaited, TypeOK
  <2> QED
    BY <2>1 DEF Managed!Promised
<1>2. CASE SetupError
  BY <1>2 DEF SetupError, Says
<1>3. CASE Setup \/ InitDb \/ StartDb \/ StopDb
  <2>1. Managed!Call
    BY <1>0, <1>3 DEF Setup, InitDb, BeginInitDb, StartDb, StopDb, Run,
       Managed!Call, Says
  <2> QED
    BY <2>1 DEF Managed!Promised
<1>4. CASE StopDbSync \/ DropBegin
  <2>1. Managed!CallSync
    BY <1>0, <1>4 DEF StopDbSync, DropBegin, Run, Managed!CallSync, Says
  <2> QED
    BY <2>1 DEF Managed!Promised
<1>5. CASE CleanUp
  <2>1. call = "idle" /\ server = "down" /\ server' = server
    BY <1>0, <1>5 DEF CleanUp, Tied, ServerFollowsChild
  <2>2. cluster' = "ready" => cluster = "ready"
    BY <1>0, <1>5 DEF CleanUp, RemoveDir, RemoveDirError, Leftovers, TypeOK
  <2>3. UNCHANGED <<alive, call, persistent, Says>>
    BY <1>5 DEF CleanUp, Says
  <2> QED
    BY <2>1, <2>2, <2>3 DEF Managed!CleanUp, Managed!Promised
<1>6. CASE Return
  <2>1. child # None /\ cmd[child] = CommandOf(call) /\ alive
    BY <1>0, <1>6 DEF Return, TypeOK, Tied, OnlyAwaited
  <2>2. CASE call = "init_db"
    <3>1. Managed!InitReturn
      BY <1>0, <1>6, <2>1, <2>2 DEF Return, Managed!InitReturn, Says, Tied,
         StatusFollowsCalls, CommandOf, StatusExit
    <3> QED
      BY <3>1 DEF Managed!Promised
  <2>3. CASE call = "start_db"
    <3>1. server = "up" \/ (server = "down" /\ at[child] = "failed")
      <4>1. cmd[child] = "start" /\ at[child] \in {"ok", "failed"}
        BY <1>6, <2>1, <2>3 DEF Return, Exited, CommandOf
      <4>2. server \notin {"starting", "stopping"}
        BY <1>0, <4>1 DEF Tied, ServerFollowsChild, Is
      <4>3. server \in {"down", "starting", "up", "stopping"}
        BY <1>0 DEF TypeOK
      <4> QED
        BY <1>0, <2>3, <4>1, <4>2, <4>3 DEF Tied, ServerFollowsChild
    <3>2. /\ Says' \in {"running", "nothing"}
          /\ at[child] = "failed" => Says' = "nothing"
      BY <1>0, <1>6, <2>1, <2>3 DEF Return, Says, Tied, StatusFollowsCalls,
         FlagFollowsCalls, CommandOf, StatusExit
    <3>3. Managed!StartReturn
      BY <1>0, <1>6, <2>1, <2>3, <3>1, <3>2 DEF Return, Managed!StartReturn
    <3> QED
      BY <3>3 DEF Managed!Promised
  <2>4. CASE call = "stop_db"
    <3>1. server = "down"
      BY <1>0, <1>6, <2>1, <2>4 DEF Return, Exited, Tied, ServerFollowsChild,
         CommandOf
    <3>2. Says' \in {Says, "stopped"}
      BY <1>0, <1>6, <2>1, <2>4 DEF Return, Says, Tied, StatusFollowsCalls,
         CommandOf, StatusExit
    <3>3. Managed!StopReturn
      BY <1>6, <2>1, <2>4, <3>1, <3>2 DEF Return, Managed!StopReturn
    <3> QED
      BY <3>3 DEF Managed!Promised
  <2> QED
    BY <1>6, <2>2, <2>3, <2>4 DEF Return
<1>7. CASE SyncReturn
  <2>1. alive /\ child # None /\ cmd[child] = "stop" /\ server = "down"
    BY <1>0, <1>7 DEF SyncReturn, Exited, TypeOK, Tied, OnlyAwaited, CommandOf,
       ServerFollowsChild
  <2>2. Managed!StopReturn
    BY <1>7, <2>1 DEF SyncReturn, Managed!StopReturn, Says
  <2> QED
    BY <2>2 DEF Managed!Promised
<1>8. CASE DropEnd
  <2>1. alive /\ server = "down"
    BY <1>0, <1>8 DEF DropEnd, Exited, Tied, OnlyAwaited, CommandOf,
       ServerFollowsChild, FlagFollowsCalls
  <2>2. cluster' = cluster \/ (~persistent /\ cluster' # "ready")
    <3>1. CASE persistent
      BY <1>8, <3>1 DEF DropEnd
    <3>2. CASE ~persistent
      <4>1. cluster' = "absent" \/ cluster' \in Leftovers[cluster]
        BY <1>8, <3>2 DEF DropEnd, Clean, RemoveDir, RemoveDirError
      <4>2. cluster # "ready" => "ready" \notin Leftovers[cluster]
        BY <1>0 DEF TypeOK, Leftovers
      <4> QED
        BY <3>2, <4>1, <4>2
    <3> QED
      BY <3>1, <3>2
  <2>3. Managed!DropReturn
    BY <1>8, <2>1, <2>2 DEF DropEnd, Gone, Managed!DropReturn, Says
  <2> QED
    BY <2>3 DEF Managed!Promised
<1>9. CASE Interrupt \/ Crash \/ ServerFail
  BY <1>0, <1>9 DEF Interrupt, Crash, ServerFail
<1>10. CASE ServerUp
  <2>1. Managed!Launch
    BY <1>0, <1>10 DEF ServerUp, Managed!Launch, Tied, OnlyAwaited, CommandOf,
       ServerFollowsChild, Is, Says
  <2> QED
    BY <2>1 DEF Managed!Promised
<1>11. CASE ServerDown
  <2>1. Managed!ShutDown
    BY <1>0, <1>11 DEF ServerDown, Managed!ShutDown, Managed!Stops, Tied,
       OnlyAwaited, CommandOf, ServerFollowsChild, Is, Says, TypeOK
  <2> QED
    BY <2>1 DEF Managed!Promised
<1>12. ASSUME NEW j \in Jobs, JobStep(j) \/ GiveUp(j) PROVE Kept
  <2>1. /\ j = child /\ child # None /\ alive /\ cmd[child] = CommandOf(call)
        /\ at[child] # "doomed" /\ UNCHANGED <<alive, call, persistent, Says>>
    BY <1>0, <1>12, JobsAssumption DEF Tied, OnlyAwaited, TypeOK, JobStep, Is,
       InitdbStart, InitdbDone, InitdbFail, StartBegin, StartEnd, StopBegin,
       StopEnd, GiveUp, Says
  <2>2. CASE InitdbStart(j)
    BY <2>1, <2>2 DEF InitdbStart
  <2>3. CASE InitdbDone(j)
    <3>1. cluster = "partial" /\ call = "init_db"
      BY <1>0, <2>1, <2>3 DEF InitdbDone, InitdbAlone, Is, CommandOf
    <3>2. Managed!CreateCluster
      BY <2>1, <2>3, <3>1 DEF InitdbDone, Managed!CreateCluster
    <3> QED
      BY <3>2 DEF Managed!Promised
  <2>4. CASE InitdbFail(j) \/ GiveUp(j)
    BY <1>0, <2>1, <2>4 DEF InitdbFail, GiveUp
  <2>5. CASE StartBegin(j)
    <3>1. call = "start_db"
      BY <1>0, <2>1, <2>5 DEF StartBegin, Is, CommandOf
    <3>2. CASE cluster = "ready" /\ server = "down"
      <4>1. Managed!Launch
        BY <2>1, <2>5, <3>1, <3>2 DEF StartBegin, Managed!Launch
      <4> QED
        BY <4>1 DEF Managed!Promised
    <3>3. CASE ~(cluster = "ready" /\ server = "down")
      BY <2>1, <2>5, <3>3 DEF StartBegin
    <3> QED
      BY <3>2, <3>3
  <2>6. CASE StartEnd(j)
    BY <2>1, <2>6 DEF StartEnd
  <2>7. CASE StopBegin(j)
    <3>1. call \in {"stop_db", "stop_db_sync", "drop"}
      BY <1>0, <2>1, <2>7 DEF StopBegin, Is, CommandOf, TypeOK
    <3>2. pidFile => server \in {"up", "stopping"}
      BY <1>0, <2>1, <2>7 DEF StopBegin, Is, TypeOK, Tied, ServerFollowsChild
    <3>3. CASE pidFile /\ server = "up"
      <4>1. Managed!ShutDown
        BY <2>1, <2>7, <3>1, <3>3 DEF StopBegin, Managed!ShutDown, Managed!Stops
      <4> QED
        BY <4>1 DEF Managed!Promised
    <3>4. CASE ~(pidFile /\ server = "up")
      BY <2>1, <2>7, <3>2, <3>4 DEF StopBegin
    <3> QED
      BY <3>3, <3>4
  <2>8. CASE StopEnd(j)
    BY <2>1, <2>8 DEF StopEnd
  <2> QED
    BY <1>12, <2>2, <2>3, <2>4, <2>5, <2>6, <2>7, <2>8 DEF JobStep
<1>13. CASE SetupInterrupt \/ LateCreate
  <2>1. UNCHANGED <<embed, call, cluster, server>>
    BY <1>13 DEF SetupInterrupt, LateCreate
  <2> QED
    BY <2>1 DEF Says
<1>14. CASE UNCHANGED vars
  BY <1>14 DEF Says
<1> QED
  BY <1>1, <1>2, <1>3, <1>4, <1>5, <1>6, <1>7, <1>8, <1>9, <1>10, <1>11,
     <1>12, <1>13, <1>14 DEF Next, Method, Returns

\* A value with its children, its directory and its server implements the
\* managed server that the documentation describes (PgEmbed, ImplementsServer).
THEOREM ImplementsTheServer == Spec => ImplementsServer
<1> DEFINE Inv == IInv /\ InitdbAlone /\ StartHasReason
<1>1. Init => Managed!Init
  BY DEF Init, Managed!Init, Says, Undisturbed, CleanFaults
<1>2. Init => InitdbAlone /\ StartHasReason
  BY DEF Init, InitdbAlone, StartHasReason, Is
<1>3. InitdbAlone /\ StartHasReason /\ IInv /\ [Next]_vars
      => InitdbAlone' /\ StartHasReason'
  BY InitdbAloneStep, StartHasReasonStep DEF IInv
<1>4. Inv /\ [Next]_vars => [Managed!Next]_(Managed!vars)
  <2> SUFFICES ASSUME Inv, [Next]_vars
               PROVE  [Managed!Next]_(Managed!vars)
    OBVIOUS
  <2>1. CASE ~Undisturbed'
    BY <2>1 DEF Managed!Next
  <2>2. CASE Undisturbed'
    <3>1. Kept /\ Undisturbed
      BY <2>2, PromiseStep, Undisturbing
    <3> QED
      BY <2>2, <3>1 DEF Kept, Seen, Managed!Next, Managed!vars
  <2> QED
    BY <2>1, <2>2
<1> QED
  BY <1>1, <1>2, <1>3, <1>4, Invariance, PTL
     DEF Spec, ImplementsServer, Managed!Spec

(***************************************************************************)
(* What follows from the refinement alone.                                 *)
(***************************************************************************)

ServerProofs == INSTANCE ManagedServer_proof WITH
    call      <- IF alive THEN call ELSE "none",
    says      <- Says,
    data      <- cluster = "ready",
    disturbed <- ~Undisturbed

\* The theorems are about the same managed server.
LEMMA SameServer == Managed!Spec <=> ServerProofs!Spec
<1>1. Managed!Init <=> ServerProofs!Init
  BY DEF Managed!Init, ServerProofs!Init
<1>2. Managed!vars = ServerProofs!vars /\ Managed!vars' = ServerProofs!vars'
  BY DEF Managed!vars, ServerProofs!vars
<1>3. Managed!Promised <=> ServerProofs!Promised
  BY DEF Managed!Promised, Managed!Create, Managed!Call, Managed!CallSync,
     Managed!CreateCluster, Managed!Launch, Managed!ShutDown,
     Managed!StartReturn, Managed!StopReturn, Managed!InitReturn,
     Managed!DropReturn, Managed!CleanUp, Managed!Stops,
     ServerProofs!Promised, ServerProofs!Create, ServerProofs!Call,
     ServerProofs!CallSync, ServerProofs!CreateCluster, ServerProofs!Launch,
     ServerProofs!ShutDown, ServerProofs!StartReturn, ServerProofs!StopReturn,
     ServerProofs!InitReturn, ServerProofs!DropReturn, ServerProofs!CleanUp,
     ServerProofs!Stops
<1>4. [Managed!Next]_(Managed!vars) <=> [ServerProofs!Next]_(ServerProofs!vars)
  BY <1>2, <1>3 DEF Managed!Next, ServerProofs!Next
<1> QED
  BY <1>1, <1>4, PTL DEF Managed!Spec, ServerProofs!Spec

\* A value may be relied upon like the managed server it implements: between
\* calls its server is up or down and never on its way, its status is true, and
\* nothing runs without it (PgEmbed, until the first disturbance).
THEOREM ServerIsReliable == Spec => []ServerProofs!Reliable
<1>1. ServerProofs!Spec => []ServerProofs!Reliable
  BY ServerProofs!IsReliable
<1> QED
  BY <1>1, ImplementsTheServer, SameServer DEF ImplementsServer
============================================================================
