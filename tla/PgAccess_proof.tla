---------------------------- MODULE PgAccess_proof ----------------------------
(***************************************************************************)
(* Proofs about PgAccess, for any tasks, processes, cache directories,     *)
(* files and faults.                                                       *)
(***************************************************************************)
EXTENDS PgAccess, TLAPS

(***************************************************************************)
(* Type correctness.                                                       *)
(***************************************************************************)

\* Every step keeps the types, whatever the faults.
LEMMA TypeStep ==
    ASSUME TypeOK, [Next]_vars
    PROVE  TypeOK'
<1> USE TasksAssumption, FilesAssumption
    DEF vars, tasks, locks, workers, cache, Holding, PgAcquisitionStatus, Jars
<1>1. ASSUME NEW t \in Tasks, Call(t) PROVE TypeOK'
  BY <1>1 DEF TypeOK, Call, Goto
<1>2. ASSUME NEW t \in Tasks, Lock(t) PROVE TypeOK'
  BY <1>2 DEF TypeOK, Lock, Goto
<1>3. ASSUME NEW t \in Tasks, CheckCached(t) PROVE TypeOK'
  BY <1>3 DEF TypeOK, CheckCached, Answer, Goto, Release
<1>4. ASSUME NEW t \in Tasks, CheckMissing(t) PROVE TypeOK'
  BY <1>4 DEF TypeOK, CheckMissing, SetStatus, Goto
<1>5. ASSUME NEW t \in Tasks, Request(t) PROVE TypeOK'
  <2>1. CASE DirOf[t] \in dirs
    <3>1. zip' \in [Dirs -> Jars \union Tasks]
      BY <1>5, <2>1 DEF TypeOK, Request
    <3>2. pc' \in [Tasks -> Holding \union {"idle", "lock"}]
      <4>1. pc' = [pc EXCEPT ![t] = "stream"]
        BY <1>5, <2>1 DEF Request, Goto
      <4> QED
        BY <4>1 DEF TypeOK
    <3> QED
      BY <1>5, <2>1, <3>1, <3>2 DEF TypeOK, Request
  <2>2. CASE DirOf[t] \notin dirs
    BY <1>5, <2>2 DEF TypeOK, Request, Answer, Goto, Release
  <2> QED
    BY <2>1, <2>2
<1>6. ASSUME NEW t \in Tasks, Stream(t) PROVE TypeOK'
  BY <1>6 DEF TypeOK, Stream, Fault, Goto
<1>7. ASSUME NEW t \in Tasks, IoError(t) PROVE TypeOK'
  BY <1>7 DEF TypeOK, IoError, Fault, Answer, Goto, Release
<1>8. ASSUME NEW t \in Tasks, Return(t) PROVE TypeOK'
  <2>1. CASE work[t] = "ok"
    <3>1. SetStatus(t, "Finished")
      BY <1>8, <2>1 DEF Return
    <3> QED
      BY <1>8, <2>1, <3>1 DEF TypeOK, Return, Answer, Goto, Release, SetStatus
  <2>2. CASE work[t] = "err"
    BY <1>8, <2>2 DEF TypeOK, Return, Answer, Goto, Release
  <2> QED
    BY <1>8, <2>1, <2>2 DEF Return
<1>9. ASSUME NEW t \in Tasks, Open(t) PROVE TypeOK'
  <2>1. CASE zip[DirOf[t]] = "good"
    <3>1. /\ work' = [work EXCEPT ![t] = "extract"]
          /\ todo' = [todo EXCEPT ![t] = Files]
          /\ UNCHANGED <<cur, tasks, locks, cache, faults>>
      BY <1>9, <2>1 DEF Open
    <3> QED
      BY <3>1 DEF TypeOK
  <2>2. ASSUME NEW result \in {"ok", "err"}, WorkerEnds(t, result) PROVE TypeOK'
    BY <1>9, <2>2 DEF TypeOK, Open, WorkerEnds
  <2> QED
    BY <1>9, <2>1, <2>2 DEF Open
<1>10. ASSUME NEW t \in Tasks, NEW f \in Files, Create(t, f) PROVE TypeOK'
  BY <1>10 DEF TypeOK, Create
<1>11. ASSUME NEW t \in Tasks, Write(t) PROVE TypeOK'
  BY <1>11 DEF TypeOK, Write
<1>12. ASSUME NEW t \in Tasks, Unpacked(t) PROVE TypeOK'
  BY <1>12 DEF TypeOK, Unpacked, WorkerEnds
<1>13. ASSUME NEW t \in Tasks, UnpackError(t) PROVE TypeOK'
  BY <1>13 DEF TypeOK, UnpackError, Fault, WorkerEnds
<1>14. ASSUME NEW t \in Tasks, Cancel(t) PROVE TypeOK'
  BY <1>14 DEF TypeOK, Cancel, Fault, Goto
<1>15. ASSUME NEW p \in Procs, Crash(p) PROVE TypeOK'
  BY <1>15 DEF TypeOK, Crash, Fault
<1>16. CASE Purge
  <2>1. PICK d \in Dirs :
            \/ /\ \E f \in Files : files' = [files EXCEPT ![d][f] = "absent"]
               /\ UNCHANGED <<dirs, zip>>
            \/ zip' = [zip EXCEPT ![d] = "absent"] /\ UNCHANGED <<dirs, files>>
            \/ dirs' = dirs \ {d} /\ UNCHANGED <<zip, files>>
    BY <1>16 DEF Purge
  <2>2. files' \in [Dirs -> [Files -> {"absent", "complete"} \union Tasks]]
    <3>1. ASSUME NEW f \in Files, files' = [files EXCEPT ![d][f] = "absent"]
          PROVE  files' \in [Dirs -> [Files -> {"absent", "complete"} \union Tasks]]
      <4>1. files[d] \in [Files -> {"absent", "complete"} \union Tasks]
        BY DEF TypeOK
      <4>2. [files[d] EXCEPT ![f] = "absent"]
                \in [Files -> {"absent", "complete"} \union Tasks]
        BY <4>1
      <4> QED
        BY <3>1, <4>2 DEF TypeOK
    <3>2. files' = files \/ \E f \in Files : files' = [files EXCEPT ![d][f] = "absent"]
      BY <2>1
    <3> QED
      BY <3>1, <3>2 DEF TypeOK
  <2>3. zip' \in [Dirs -> Jars \union Tasks] /\ dirs' \subseteq Dirs
    BY <2>1 DEF TypeOK, Jars
  <2> QED
    BY <1>16, <2>2, <2>3 DEF TypeOK, Purge, Fault
<1>17. CASE UNCHANGED vars
  BY <1>17 DEF TypeOK
<1> QED
  BY <1>1, <1>2, <1>3, <1>4, <1>5, <1>6, <1>7, <1>8, <1>9, <1>10, <1>11,
     <1>12, <1>13, <1>14, <1>15, <1>16, <1>17 DEF Next, TaskStep, WorkerStep

\* The state of the tasks, the locks and the cache is well formed after any
\* interleaving and any faults.
THEOREM TypeCorrect == Spec => []TypeOK
<1>1. Init => TypeOK
  BY FilesAssumption DEF Init, TypeOK, PgAcquisitionStatus, Jars
<1>2. TypeOK /\ [Next]_vars => TypeOK'
  BY TypeStep
<1> QED
  BY <1>1, <1>2, PTL DEF Spec

(***************************************************************************)
(* Mutual exclusion.                                                       *)
(***************************************************************************)

\* Every way to take or leave the mutex moves the task with it.
LEMMA LockStep ==
    ASSUME TypeOK, LockHeldByHolder, [Next]_vars
    PROVE  LockHeldByHolder'
<1> USE TasksAssumption DEF vars, tasks, locks, workers, cache, Holding
<1>1. ASSUME NEW t \in Tasks, Call(t) PROVE LockHeldByHolder'
  BY <1>1 DEF TypeOK, LockHeldByHolder, Call, Goto
<1>2. ASSUME NEW t \in Tasks, Lock(t) PROVE LockHeldByHolder'
  BY <1>2 DEF TypeOK, LockHeldByHolder, Lock, Goto
<1>3. ASSUME NEW t \in Tasks, CheckCached(t) PROVE LockHeldByHolder'
  BY <1>3 DEF TypeOK, LockHeldByHolder, CheckCached, Answer, Goto, Release
<1>4. ASSUME NEW t \in Tasks, CheckMissing(t) PROVE LockHeldByHolder'
  BY <1>4 DEF TypeOK, LockHeldByHolder, CheckMissing, SetStatus, Goto
<1>5. ASSUME NEW t \in Tasks, Request(t) PROVE LockHeldByHolder'
  BY <1>5 DEF TypeOK, LockHeldByHolder, Request, Answer, Goto, Release
<1>6. ASSUME NEW t \in Tasks, Stream(t) PROVE LockHeldByHolder'
  BY <1>6 DEF TypeOK, LockHeldByHolder, Stream, Fault, Goto
<1>7. ASSUME NEW t \in Tasks, IoError(t) PROVE LockHeldByHolder'
  BY <1>7 DEF TypeOK, LockHeldByHolder, IoError, Fault, Answer, Goto, Release
<1>8. ASSUME NEW t \in Tasks, Return(t) PROVE LockHeldByHolder'
  BY <1>8 DEF TypeOK, LockHeldByHolder, Return, Answer, Goto, Release,
     SetStatus
<1>9. ASSUME NEW t \in Tasks, Open(t) PROVE LockHeldByHolder'
  BY <1>9 DEF TypeOK, LockHeldByHolder, Open, WorkerEnds
<1>10. ASSUME NEW t \in Tasks, NEW f \in Files, Create(t, f) PROVE LockHeldByHolder'
  BY <1>10 DEF TypeOK, LockHeldByHolder, Create
<1>11. ASSUME NEW t \in Tasks, Write(t) PROVE LockHeldByHolder'
  BY <1>11 DEF TypeOK, LockHeldByHolder, Write
<1>12. ASSUME NEW t \in Tasks, Unpacked(t) PROVE LockHeldByHolder'
  BY <1>12 DEF TypeOK, LockHeldByHolder, Unpacked, WorkerEnds
<1>13. ASSUME NEW t \in Tasks, UnpackError(t) PROVE LockHeldByHolder'
  BY <1>13 DEF TypeOK, LockHeldByHolder, UnpackError, Fault, WorkerEnds
<1>14. ASSUME NEW t \in Tasks, Cancel(t) PROVE LockHeldByHolder'
  BY <1>14 DEF TypeOK, LockHeldByHolder, Cancel, Fault, Goto
<1>15. ASSUME NEW p \in Procs, Crash(p) PROVE LockHeldByHolder'
  BY <1>15 DEF TypeOK, LockHeldByHolder, Crash, Fault
<1>16. CASE Purge
  BY <1>16 DEF TypeOK, LockHeldByHolder, Purge, Fault
<1>17. CASE UNCHANGED vars
  BY <1>17 DEF TypeOK, LockHeldByHolder
<1> QED
  BY <1>1, <1>2, <1>3, <1>4, <1>5, <1>6, <1>7, <1>8, <1>9, <1>10, <1>11,
     <1>12, <1>13, <1>14, <1>15, <1>16, <1>17 DEF Next, TaskStep, WorkerStep

\* LockHeldByHolder: through errors, cancellations and crashes a process's mutex
\* is held by exactly the task that is between its lock and its return.
THEOREM LockIsHeldByHolder == Spec => []LockHeldByHolder
<1>1. Init => TypeOK /\ LockHeldByHolder
  BY TasksAssumption, FilesAssumption
     DEF Init, TypeOK, LockHeldByHolder, PgAcquisitionStatus, Jars, Holding
<1>2. TypeOK /\ LockHeldByHolder /\ [Next]_vars => (TypeOK /\ LockHeldByHolder)'
  BY TypeStep, LockStep
<1> QED
  BY <1>1, <1>2, PTL DEF Spec

\* A worker has a task waiting for it, as long as no future was dropped.
WorkerAwaited ==
    "cancel" \notin faults =>
        \A t \in Tasks : work[t] # "none" => pc[t] = "unpack"

\* The history of faults only grows.
LEMMA FaultsGrow ==
    ASSUME [Next]_vars
    PROVE  faults \subseteq faults'
  BY DEF Next, TaskStep, WorkerStep, Call, Lock, CheckCached, CheckMissing,
     Request, Stream, IoError, Return, Open, Create, Write, Unpacked,
     UnpackError, Cancel, Crash, Purge, Fault, vars, tasks, locks, workers,
     cache

\* Only a dropped future leaves its worker alone.
LEMMA WorkerStepAwaited ==
    ASSUME TypeOK, WorkerAwaited, [Next]_vars
    PROVE  WorkerAwaited'
<1> DEFINE Awaited == \A u \in Tasks : work[u] # "none" => pc[u] = "unpack"
<1> SUFFICES ASSUME "cancel" \notin faults' PROVE Awaited'
  BY DEF WorkerAwaited
<1>0. Awaited /\ ~Fault("cancel")
  BY FaultsGrow DEF WorkerAwaited, Fault
<1> USE <1>0, TasksAssumption DEF vars, tasks, locks, workers, cache, Holding
<1>1. ASSUME NEW t \in Tasks, Call(t) PROVE Awaited'
  BY <1>1 DEF TypeOK, Call, Goto
<1>2. ASSUME NEW t \in Tasks, Lock(t) PROVE Awaited'
  BY <1>2 DEF TypeOK, Lock, Goto
<1>3. ASSUME NEW t \in Tasks, CheckCached(t) PROVE Awaited'
  BY <1>3 DEF TypeOK, CheckCached, Answer, Goto, Release
<1>4. ASSUME NEW t \in Tasks, CheckMissing(t) PROVE Awaited'
  BY <1>4 DEF TypeOK, CheckMissing, SetStatus, Goto
<1>5. ASSUME NEW t \in Tasks, Request(t) PROVE Awaited'
  BY <1>5 DEF TypeOK, Request, Answer, Goto, Release
<1>6. ASSUME NEW t \in Tasks, Stream(t) PROVE Awaited'
  BY <1>6 DEF TypeOK, Stream, Fault, Goto
<1>7. ASSUME NEW t \in Tasks, IoError(t) PROVE Awaited'
  BY <1>7 DEF TypeOK, IoError, Fault, Answer, Goto, Release
<1>8. ASSUME NEW t \in Tasks, Return(t) PROVE Awaited'
  BY <1>8 DEF TypeOK, Return, Answer, Goto, Release, SetStatus
<1>9. ASSUME NEW t \in Tasks, Open(t) PROVE Awaited'
  BY <1>9 DEF TypeOK, Open, WorkerEnds
<1>10. ASSUME NEW t \in Tasks, NEW f \in Files, Create(t, f) PROVE Awaited'
  BY <1>10 DEF TypeOK, Create
<1>11. ASSUME NEW t \in Tasks, Write(t) PROVE Awaited'
  BY <1>11 DEF TypeOK, Write
<1>12. ASSUME NEW t \in Tasks, Unpacked(t) PROVE Awaited'
  BY <1>12 DEF TypeOK, Unpacked, WorkerEnds
<1>13. ASSUME NEW t \in Tasks, UnpackError(t) PROVE Awaited'
  BY <1>13 DEF TypeOK, UnpackError, Fault, WorkerEnds
<1>14. ASSUME NEW t \in Tasks, Cancel(t) PROVE Awaited'
  BY <1>0, <1>14 DEF Cancel
<1>15. ASSUME NEW p \in Procs, Crash(p) PROVE Awaited'
  BY <1>15 DEF TypeOK, Crash, Fault
<1>16. CASE Purge
  BY <1>16 DEF TypeOK, Purge, Fault
<1>17. CASE UNCHANGED vars
  BY <1>17 DEF TypeOK
<1> QED
  BY <1>1, <1>2, <1>3, <1>4, <1>5, <1>6, <1>7, <1>8, <1>9, <1>10, <1>11,
     <1>12, <1>13, <1>14, <1>15, <1>16, <1>17 DEF Next, TaskStep, WorkerStep

\* Mutual exclusion extends to the worker, which holds no lock itself.
LEMMA SingleWriterHolds ==
    ASSUME LockHeldByHolder, WorkerAwaited
    PROVE  SingleWriter
<1> SUFFICES ASSUME OneProcess, "cancel" \notin faults,
                    NEW t \in Tasks, NEW u \in Tasks, t # u, DirOf[t] = DirOf[u],
                    Acquiring(t), Acquiring(u)
             PROVE  FALSE
  BY DEF SingleWriter, NoConcurrentAcquisition
<1>1. pc[t] \in Holding /\ pc[u] \in Holding
  BY DEF WorkerAwaited, Acquiring, Holding
<1>2. holder[ProcOf[t]] = t /\ holder[ProcOf[u]] = u
  BY <1>1 DEF LockHeldByHolder
<1>3. ProcOf[t] = ProcOf[u]
  BY DEF OneProcess
<1> QED
  BY <1>2, <1>3

\* SingleWriter: as long as no caller gives up, no two tasks download or unpack
\* the same distribution at a time.
THEOREM WriterIsSingle == Spec => []SingleWriter
<1> DEFINE Inv == TypeOK /\ LockHeldByHolder /\ WorkerAwaited
<1>1. Init => WorkerAwaited
  BY DEF Init, WorkerAwaited
<1>2. Inv /\ [Next]_vars => WorkerAwaited'
  BY WorkerStepAwaited
<1>3. Inv => SingleWriter
  BY SingleWriterHolds
<1> QED
  BY <1>1, <1>2, <1>3, TypeCorrect, LockIsHeldByHolder, PTL DEF Spec

(***************************************************************************)
(* What is in the cache.                                                   *)
(***************************************************************************)

\* A task that holds the lock has its cache directory to itself.
LEMMA HolderAlone ==
    ASSUME LockHeldByHolder, WorkerAwaited, OneProcess, "cancel" \notin faults,
           NEW t \in Tasks, NEW u \in Tasks, DirOf[t] = DirOf[u],
           pc[t] \in Holding, Acquiring(u)
    PROVE  t = u
<1>1. pc[u] \in Holding
  BY DEF WorkerAwaited, Acquiring, Holding
<1>2. holder[ProcOf[t]] = t /\ holder[ProcOf[u]] = u
  BY <1>1 DEF LockHeldByHolder
<1> QED
  BY <1>2 DEF OneProcess

\* A jar is downloaded only where there is no initdb.
RequestMissing ==
    OneProcess /\ "cancel" \notin faults =>
        \A t \in Tasks : pc[t] \in {"request", "stream"}
            => files[DirOf[t]][InitDb] = "absent"

\* It stays so: nobody else unpacks there in the meantime.
LEMMA RequestMissingStep ==
    ASSUME TypeOK, LockHeldByHolder, WorkerAwaited, RequestMissing, [Next]_vars
    PROVE  RequestMissing'
<1> DEFINE Missing ==
               \A u \in Tasks : pc[u] \in {"request", "stream"}
                   => files[DirOf[u]][InitDb] = "absent"
<1> SUFFICES ASSUME OneProcess, "cancel" \notin faults' PROVE Missing'
  BY DEF RequestMissing, OneProcess
<1>0. /\ Missing
      /\ \A u \in Tasks : work[u] # "none" => pc[u] = "unpack"
      /\ \A t, u \in Tasks : DirOf[t] = DirOf[u] /\ work[t] # "none"
                             /\ pc[u] \in {"request", "stream"} => t = u
      /\ ~Fault("cancel")
  <2>1. "cancel" \notin faults
    BY FaultsGrow
  <2> QED
    BY <2>1, HolderAlone DEF RequestMissing, WorkerAwaited, Fault, Acquiring,
       Holding
<1> USE TasksAssumption, FilesAssumption DEF vars, tasks, locks, workers, cache
<1>1. ASSUME NEW t \in Tasks, Call(t) PROVE Missing'
  BY <1>0, <1>1 DEF TypeOK, Call, Goto
<1>2. ASSUME NEW t \in Tasks, Lock(t) PROVE Missing'
  BY <1>0, <1>2 DEF TypeOK, Lock, Goto
<1>3. ASSUME NEW t \in Tasks, CheckCached(t) PROVE Missing'
  BY <1>0, <1>3 DEF TypeOK, CheckCached, Answer, Goto, Release
<1>4. ASSUME NEW t \in Tasks, CheckMissing(t) PROVE Missing'
  BY <1>0, <1>4 DEF TypeOK, CheckMissing, PgExecutablesCached, SetStatus, Goto
<1>5. ASSUME NEW t \in Tasks, Request(t) PROVE Missing'
  BY <1>0, <1>5 DEF TypeOK, Request, Answer, Goto, Release
<1>6. ASSUME NEW t \in Tasks, Stream(t) PROVE Missing'
  BY <1>0, <1>6 DEF TypeOK, Stream, Fault, Goto
<1>7. ASSUME NEW t \in Tasks, IoError(t) PROVE Missing'
  BY <1>0, <1>7 DEF TypeOK, IoError, Fault, Answer, Goto, Release
<1>8. ASSUME NEW t \in Tasks, Return(t) PROVE Missing'
  BY <1>0, <1>8 DEF TypeOK, Return, Answer, Goto, Release, SetStatus
<1>9. ASSUME NEW t \in Tasks, Open(t) PROVE Missing'
  BY <1>0, <1>9 DEF TypeOK, Open, WorkerEnds
<1>10. ASSUME NEW t \in Tasks, NEW f \in Files, Create(t, f) PROVE Missing'
  BY <1>0, <1>10 DEF TypeOK, Create
<1>11. ASSUME NEW t \in Tasks, Write(t) PROVE Missing'
  BY <1>0, <1>11 DEF TypeOK, Write
<1>12. ASSUME NEW t \in Tasks, Unpacked(t) PROVE Missing'
  BY <1>0, <1>12 DEF TypeOK, Unpacked, WorkerEnds
<1>13. ASSUME NEW t \in Tasks, UnpackError(t) PROVE Missing'
  BY <1>0, <1>13 DEF TypeOK, UnpackError, Fault, WorkerEnds
<1>14. ASSUME NEW t \in Tasks, Cancel(t) PROVE Missing'
  BY <1>0, <1>14 DEF TypeOK, Cancel, Fault, Goto
<1>15. ASSUME NEW p \in Procs, Crash(p) PROVE Missing'
  BY <1>0, <1>15 DEF TypeOK, Crash, Fault
<1>16. CASE Purge
  <2>1. \A d \in Dirs : files'[d][InitDb] \in {"absent", files[d][InitDb]}
    <3>1. ASSUME NEW d \in Dirs, NEW f \in Files,
                 files' = [files EXCEPT ![d][f] = "absent"]
          PROVE  \A c \in Dirs : files'[c][InitDb] \in {"absent", files[c][InitDb]}
      BY <3>1, FilesAssumption DEF TypeOK
    <3>2. files' = files \/ \E d \in Dirs, f \in Files :
                                files' = [files EXCEPT ![d][f] = "absent"]
      BY <1>16 DEF Purge
    <3> QED
      BY <3>1, <3>2
  <2> QED
    BY <1>0, <1>16, <2>1 DEF Purge
<1>17. CASE UNCHANGED vars
  BY <1>0, <1>17 DEF TypeOK
<1> QED
  BY <1>1, <1>2, <1>3, <1>4, <1>5, <1>6, <1>7, <1>8, <1>9, <1>10, <1>11,
     <1>12, <1>13, <1>14, <1>15, <1>16, <1>17 DEF Next, TaskStep, WorkerStep

\* DownloadedOnce: what is installed is never downloaded again.
THEOREM IsDownloadedOnce == Spec => []DownloadedOnce
<1> DEFINE Inv == TypeOK /\ LockHeldByHolder /\ WorkerAwaited /\ RequestMissing
<1>1. Init => Inv
  BY TasksAssumption, FilesAssumption
     DEF Init, TypeOK, LockHeldByHolder, WorkerAwaited, RequestMissing,
         PgAcquisitionStatus, Jars, Holding
<1>2. Inv /\ [Next]_vars => Inv'
  BY TypeStep, LockStep, WorkerStepAwaited, RequestMissingStep
<1>3. Inv => DownloadedOnce
  BY FilesAssumption DEF RequestMissing, DownloadedOnce, Installed
<1> QED
  BY <1>1, <1>2, <1>3, PTL DEF Spec

\* The directory holds nothing of a distribution.
Absent(d) == \A f \in Files : files[d][f] = "absent"

\* While a task is at work in a directory, the files follow its worker; when
\* nobody is, the distribution is whole or missing.
FilesFollowWorker(t) ==
    /\ pc[t] \in {"request", "stream"} \/ work[t] \in {"open", "err"}
          => Absent(DirOf[t])
    /\ work[t] = "extract" => \A f \in Files \ todo[t] :
          files[DirOf[t]][f] = "complete"
    /\ work[t] = "extract" /\ cur[t] # None =>
          cur[t] \in todo[t] /\ files[DirOf[t]][cur[t]] = t
    /\ work[t] # "extract" => cur[t] = None
    /\ work[t] = "ok" => Installed(DirOf[t]) \/ Absent(DirOf[t])

WholeWhenUnused(d) ==
    (\A t \in Tasks : DirOf[t] = d => ~Acquiring(t)) => Installed(d) \/ Absent(d)

WholeOrNothing ==
    OneProcess /\ faults \intersect TearFaults = {} =>
        /\ \A t \in Tasks : FilesFollowWorker(t)
        /\ \A d \in Dirs : WholeWhenUnused(d)

\* A step of one task, in its own directory, which it has to itself if it
\* changes anything there.
LEMMA OneTaskMoves ==
    ASSUME TypeOK, LockHeldByHolder, WorkerAwaited, OneProcess,
           "cancel" \notin faults,
           NEW t \in Tasks,
           \A u \in Tasks : FilesFollowWorker(u),
           \A d \in Dirs : WholeWhenUnused(d),
           \A u \in Tasks \ {t} : /\ pc'[u] = pc[u] /\ work'[u] = work[u]
                                 /\ todo'[u] = todo[u] /\ cur'[u] = cur[u],
           \A d \in Dirs \ {DirOf[t]} : files'[d] = files[d],
           files' = files \/ Acquiring(t),
           FilesFollowWorker(t)',
           \/ Acquiring(t)'
           \/ files' = files /\ ~Acquiring(t)
           \/ Installed(DirOf[t])' \/ Absent(DirOf[t])'
    PROVE  /\ \A u \in Tasks : FilesFollowWorker(u)'
           /\ \A d \in Dirs : WholeWhenUnused(d)'
<1> USE TasksAssumption
<1>1. ASSUME NEW u \in Tasks PROVE FilesFollowWorker(u)'
  <2>1. CASE u = t
    BY <2>1
  <2>2. CASE u # t /\ files'[DirOf[u]] = files[DirOf[u]]
    BY <2>2 DEF FilesFollowWorker, Absent, Installed
  <2>3. CASE u # t /\ files'[DirOf[u]] # files[DirOf[u]]
    <3>1. DirOf[u] = DirOf[t] /\ Acquiring(t)
      BY <2>3
    <3>2. ~Acquiring(u)
      BY <2>3, <3>1, HolderAlone DEF WorkerAwaited, Acquiring, Holding
    <3> QED
      BY <2>3, <3>2 DEF FilesFollowWorker, Acquiring
  <2> QED
    BY <2>1, <2>2, <2>3
<1>2. ASSUME NEW d \in Dirs PROVE WholeWhenUnused(d)'
  <2>1. CASE d # DirOf[t]
    BY <2>1 DEF WholeWhenUnused, Acquiring, Absent, Installed
  <2>2. CASE d = DirOf[t]
    <3>1. CASE Acquiring(t)'
      BY <2>2, <3>1 DEF WholeWhenUnused
    <3>2. CASE files' = files /\ ~Acquiring(t)
      BY <2>2, <3>2 DEF WholeWhenUnused, Acquiring, Absent, Installed
    <3>3. CASE Installed(DirOf[t])' \/ Absent(DirOf[t])'
      BY <2>2, <3>3 DEF WholeWhenUnused
    <3> QED
      BY <3>1, <3>2, <3>3
  <2> QED
    BY <2>1, <2>2
<1> QED
  BY <1>1, <1>2

\* Whoever changes a cache directory leaves it whole or untouched when done.
LEMMA WholeOrNothingStep ==
    ASSUME TypeOK, LockHeldByHolder, WorkerAwaited, WholeOrNothing, [Next]_vars
    PROVE  WholeOrNothing'
<1> SUFFICES ASSUME OneProcess, faults' \intersect TearFaults = {}
             PROVE  /\ \A u \in Tasks : FilesFollowWorker(u)'
                    /\ \A d \in Dirs : WholeWhenUnused(d)'
  BY DEF WholeOrNothing, OneProcess
<1> DEFINE Goal == /\ \A u \in Tasks : FilesFollowWorker(u)'
                   /\ \A d \in Dirs : WholeWhenUnused(d)'
           Still(t) ==
               /\ \A u \in Tasks \ {t} : /\ pc'[u] = pc[u] /\ work'[u] = work[u]
                                         /\ todo'[u] = todo[u] /\ cur'[u] = cur[u]
               /\ \A d \in Dirs \ {DirOf[t]} : files'[d] = files[d]
               /\ files' = files \/ Acquiring(t)
           Ends(t) ==
               \/ Acquiring(t)'
               \/ files' = files /\ ~Acquiring(t)
               \/ Installed(DirOf[t])' \/ Absent(DirOf[t])'
<1>a. faults \intersect TearFaults = {}
  BY FaultsGrow
<1>b. "cancel" \notin faults
  BY <1>a DEF TearFaults
<1>c. /\ \A u \in Tasks : FilesFollowWorker(u)
      /\ \A d \in Dirs : WholeWhenUnused(d)
  BY <1>a DEF WholeOrNothing
<1>d. \A u \in Tasks : work[u] # "none" => pc[u] = "unpack"
  BY <1>b DEF WorkerAwaited
<1>e. \A kind \in TearFaults : ~Fault(kind)
  BY DEF Fault
<1>f. ASSUME NEW t \in Tasks, Still(t), FilesFollowWorker(t)', Ends(t)
      PROVE  Goal
  BY <1>b, <1>c, <1>f, OneTaskMoves
<1> HIDE DEF Goal, Still, Ends
<1> USE TasksAssumption, FilesAssumption DEF vars, tasks, locks, workers, cache
<1>1. ASSUME NEW t \in Tasks, Call(t) PROVE Goal
  <2>1. Still(t)
    BY <1>1, <1>d DEF Still, TypeOK, Acquiring, Call, Goto
  <2>2. FilesFollowWorker(t)'
    BY <1>1, <1>c, <1>d DEF TypeOK, FilesFollowWorker, Absent, Installed,
       Call, Goto
  <2>3. Ends(t)
    BY <1>1, <1>c, <1>d DEF Ends, TypeOK, FilesFollowWorker, Acquiring,
       Absent, Installed, Call, Goto
  <2> QED
    BY <1>f, <2>1, <2>2, <2>3
<1>2. ASSUME NEW t \in Tasks, Lock(t) PROVE Goal
  <2>1. Still(t)
    BY <1>2, <1>d DEF Still, TypeOK, Acquiring, Lock, Goto
  <2>2. FilesFollowWorker(t)'
    BY <1>2, <1>c, <1>d DEF TypeOK, FilesFollowWorker, Absent, Installed,
       Lock, Goto
  <2>3. Ends(t)
    BY <1>2, <1>c, <1>d DEF Ends, TypeOK, FilesFollowWorker, Acquiring,
       Absent, Installed, Lock, Goto
  <2> QED
    BY <1>f, <2>1, <2>2, <2>3
<1>3. ASSUME NEW t \in Tasks, CheckCached(t) PROVE Goal
  <2>1. Still(t)
    BY <1>3, <1>d DEF Still, TypeOK, Acquiring, CheckCached, Answer, Goto, Release
  <2>2. FilesFollowWorker(t)'
    BY <1>3, <1>c, <1>d DEF TypeOK, FilesFollowWorker, Absent, Installed,
       CheckCached, Answer, Goto, Release
  <2>3. Ends(t)
    BY <1>3, <1>c, <1>d DEF Ends, TypeOK, FilesFollowWorker, Acquiring,
       Absent, Installed, CheckCached, Answer, Goto, Release
  <2> QED
    BY <1>f, <2>1, <2>2, <2>3
<1>4. ASSUME NEW t \in Tasks, CheckMissing(t) PROVE Goal
  <2>0. Absent(DirOf[t])
    <3>1. \A u \in Tasks : DirOf[u] = DirOf[t] => ~Acquiring(u)
      BY <1>4, <1>b, <1>d, HolderAlone DEF CheckMissing, Acquiring, Holding
    <3>2. Installed(DirOf[t]) \/ Absent(DirOf[t])
      BY <1>c, <3>1 DEF WholeWhenUnused
    <3> QED
      BY <1>4, <3>2 DEF CheckMissing, PgExecutablesCached, Installed
  <2>1. Still(t)
    BY <1>4, <1>d DEF Still, TypeOK, Acquiring, CheckMissing, SetStatus, Goto
  <2>2. FilesFollowWorker(t)'
    BY <1>4, <1>c, <1>d, <2>0 DEF TypeOK, FilesFollowWorker, Absent,
       Installed, CheckMissing, SetStatus, Goto
  <2>3. Ends(t)
    BY <1>4, <1>c, <1>d DEF Ends, TypeOK, FilesFollowWorker, Acquiring,
       Absent, Installed, CheckMissing, SetStatus, Goto
  <2> QED
    BY <1>f, <2>1, <2>2, <2>3
<1>5. ASSUME NEW t \in Tasks, Request(t) PROVE Goal
  <2>1. Still(t)
    BY <1>5, <1>d DEF Still, TypeOK, Acquiring, Request, Answer, Goto, Release
  <2>2. FilesFollowWorker(t)'
    BY <1>5, <1>c, <1>d DEF TypeOK, FilesFollowWorker, Absent, Installed,
       Request, Answer, Goto, Release
  <2>3. Ends(t)
    BY <1>5, <1>c, <1>d DEF Ends, TypeOK, FilesFollowWorker, Acquiring,
       Absent, Installed, Request, Answer, Goto, Release
  <2> QED
    BY <1>f, <2>1, <2>2, <2>3
<1>6. ASSUME NEW t \in Tasks, Stream(t) PROVE Goal
  <2>1. Still(t)
    BY <1>6, <1>d DEF Still, TypeOK, Acquiring, Stream, Goto
  <2>2. FilesFollowWorker(t)'
    BY <1>6, <1>c, <1>d DEF TypeOK, FilesFollowWorker, Absent, Installed,
       Stream, Goto
  <2>3. Ends(t)
    BY <1>6, <1>c, <1>d DEF Ends, TypeOK, FilesFollowWorker, Acquiring,
       Absent, Installed, Stream, Goto
  <2> QED
    BY <1>f, <2>1, <2>2, <2>3
<1>7. ASSUME NEW t \in Tasks, IoError(t) PROVE Goal
  <2>1. Still(t)
    BY <1>7, <1>d DEF Still, TypeOK, Acquiring, IoError, Answer, Goto, Release
  <2>2. FilesFollowWorker(t)'
    BY <1>7, <1>c, <1>d DEF TypeOK, FilesFollowWorker, Absent, Installed,
       IoError, Answer, Goto, Release
  <2>3. Ends(t)
    BY <1>7, <1>c, <1>d DEF Ends, TypeOK, FilesFollowWorker, Acquiring,
       Absent, Installed, IoError, Answer, Goto, Release
  <2> QED
    BY <1>f, <2>1, <2>2, <2>3
<1>8. ASSUME NEW t \in Tasks, Return(t) PROVE Goal
  <2>1. Still(t)
    BY <1>8, <1>d DEF Still, TypeOK, Acquiring, Return, Answer, Goto, Release,
       SetStatus
  <2>2. FilesFollowWorker(t)'
    BY <1>8, <1>c, <1>d DEF TypeOK, FilesFollowWorker, Absent, Installed,
       Return, Answer, Goto, Release, SetStatus
  <2>3. Ends(t)
    <3>1. Installed(DirOf[t]) \/ Absent(DirOf[t])
      BY <1>8, <1>c DEF Return, FilesFollowWorker
    <3>2. files' = files
      BY <1>8 DEF Return
    <3> QED
      BY <3>1, <3>2 DEF Ends, Installed, Absent
  <2> QED
    BY <1>f, <2>1, <2>2, <2>3
<1>9. ASSUME NEW t \in Tasks, Open(t) PROVE Goal
  <2>1. Still(t)
    BY <1>9, <1>d DEF Still, TypeOK, Acquiring, Open, WorkerEnds
  <2>2. FilesFollowWorker(t)'
    BY <1>9, <1>c, <1>d DEF TypeOK, FilesFollowWorker, Absent, Installed,
       Open, WorkerEnds
  <2>3. Ends(t)
    BY <1>9, <1>c, <1>d DEF Ends, TypeOK, FilesFollowWorker, Acquiring,
       Absent, Installed, Open, WorkerEnds
  <2> QED
    BY <1>f, <2>1, <2>2, <2>3
<1>10. ASSUME NEW t \in Tasks, NEW f \in Files, Create(t, f) PROVE Goal
  <2>1. Still(t)
    BY <1>10, <1>d DEF Still, TypeOK, Acquiring, Create
  <2>2. FilesFollowWorker(t)'
    <3>1. \A g \in Files : files'[DirOf[t]][g] =
              IF g = f THEN t ELSE files[DirOf[t]][g]
      BY <1>10 DEF TypeOK, Create
    <3>2. /\ pc' = pc /\ work' = work /\ todo' = todo /\ cur'[t] = f
          /\ work[t] = "extract" /\ f \in todo[t] /\ pc[t] = "unpack"
      BY <1>10, <1>d DEF TypeOK, Create
    <3> QED
      BY <1>c, <3>1, <3>2 DEF FilesFollowWorker
  <2>3. Ends(t)
    BY <1>10, <1>c, <1>d DEF Ends, TypeOK, FilesFollowWorker, Acquiring,
       Absent, Installed, Create
  <2> QED
    BY <1>f, <2>1, <2>2, <2>3
<1>11. ASSUME NEW t \in Tasks, Write(t) PROVE Goal
  <2>1. Still(t)
    BY <1>11, <1>d DEF Still, TypeOK, Acquiring, Write
  <2>2. FilesFollowWorker(t)'
    <3>1. files[DirOf[t]][cur[t]] = t /\ cur[t] \in Files
      BY <1>11, <1>c DEF TypeOK, FilesFollowWorker, Write
    <3>2. \A g \in Files : files'[DirOf[t]][g] =
              IF g = cur[t] THEN "complete" ELSE files[DirOf[t]][g]
      BY <1>11, <3>1 DEF TypeOK, Write
    <3>3. /\ pc' = pc /\ work' = work /\ work[t] = "extract" /\ pc[t] = "unpack"
          /\ todo'[t] = todo[t] \ {cur[t]} /\ cur'[t] = None
      BY <1>11, <1>d DEF TypeOK, Write
    <3> QED
      BY <1>c, <3>1, <3>2, <3>3 DEF FilesFollowWorker
  <2>3. Ends(t)
    BY <1>11, <1>c, <1>d DEF Ends, TypeOK, FilesFollowWorker, Acquiring,
       Absent, Installed, Write
  <2> QED
    BY <1>f, <2>1, <2>2, <2>3
<1>12. ASSUME NEW t \in Tasks, Unpacked(t) PROVE Goal
  <2>1. Still(t)
    BY <1>12, <1>d DEF Still, TypeOK, Acquiring, Unpacked, WorkerEnds
  <2>2. FilesFollowWorker(t)'
    BY <1>12, <1>c, <1>d DEF TypeOK, FilesFollowWorker, Absent, Installed,
       Unpacked, WorkerEnds
  <2>3. Ends(t)
    BY <1>12, <1>c, <1>d DEF Ends, TypeOK, FilesFollowWorker, Acquiring,
       Absent, Installed, Unpacked, WorkerEnds
  <2> QED
    BY <1>f, <2>1, <2>2, <2>3
<1>13. ~(\E t \in Tasks : UnpackError(t) \/ Cancel(t)) /\ ~(\E p \in Procs : Crash(p)) /\ ~Purge
  BY <1>e DEF UnpackError, Cancel, Crash, Purge, TearFaults
<1>14. ASSUME UNCHANGED vars PROVE Goal
  BY <1>c, <1>14 DEF Goal, FilesFollowWorker, WholeWhenUnused, Acquiring,
     Absent, Installed
<1>15. Goal
  <2>1. ASSUME NEW t \in Tasks, TaskStep(t) \/ WorkerStep(t) PROVE Goal
    BY <2>1, <1>3, <1>4, <1>5, <1>6, <1>7, <1>8, <1>9, <1>10, <1>11, <1>12
       DEF TaskStep, WorkerStep
  <2>2. CASE Next
    BY <2>1, <2>2, <1>1, <1>2, <1>13 DEF Next
  <2> QED
    BY <2>2, <1>14
<1> QED
  BY <1>15 DEF Goal

\* CachedMeansInstalled: as long as no acquisition was broken off, a task that
\* finds initdb finds the whole distribution.
THEOREM CachedIsInstalled == Spec => []CachedMeansInstalled
<1> DEFINE Inv == TypeOK /\ LockHeldByHolder /\ WorkerAwaited /\ WholeOrNothing
<1>1. Init => Inv
  BY TasksAssumption, FilesAssumption
     DEF Init, TypeOK, LockHeldByHolder, WorkerAwaited, WholeOrNothing,
         FilesFollowWorker, WholeWhenUnused, Absent, PgAcquisitionStatus, Jars, Holding
<1>2. Inv /\ [Next]_vars => Inv'
  BY TypeStep, LockStep, WorkerStepAwaited, WholeOrNothingStep
<1>3. Inv => CachedMeansInstalled
  <2> SUFFICES ASSUME Inv, OneProcess, faults \intersect TearFaults = {},
                      NEW t \in Tasks, pc[t] = "check",
                      PgExecutablesCached(DirOf[t])
               PROVE  Installed(DirOf[t])
    BY DEF CachedMeansInstalled
  <2>1. "cancel" \notin faults
    BY DEF TearFaults
  <2>2. \A u \in Tasks : DirOf[u] = DirOf[t] => ~Acquiring(u)
    BY <2>1, HolderAlone DEF WorkerAwaited, Acquiring, Holding
  <2>3. Installed(DirOf[t]) \/ Absent(DirOf[t])
    BY <2>2, TasksAssumption DEF WholeOrNothing, WholeWhenUnused
  <2> QED
    BY <2>3, FilesAssumption DEF PgExecutablesCached, Absent
<1> QED
  BY <1>1, <1>2, <1>3, PTL DEF Spec
============================================================================
