---------------------------- MODULE PgCache_proof ----------------------------
(***************************************************************************)
(* More proofs about PgAccess: when the cache directories are whole, what  *)
(* the map of acquisitions means, and what an answer is worth.  The first  *)
(* needs no lock, the others rest on the exclusion of PgAccess_proof.      *)
(***************************************************************************)
EXTENDS PgAccess_proof

\* A task has no worker before it has downloaded anything.
Fresh == \A t \in Tasks : pc[t] \in {"lock", "check", "request", "stream"}
                             => work[t] = "none"

\* A call begins with its worker done, and only the end of the download makes
\* another.
LEMMA FreshStep ==
    ASSUME TypeOK, Fresh, [Next]_vars
    PROVE  Fresh'
<1> USE DEF vars, tasks, locks, workers, cache, TypeOK, Fresh, Goto
<1>1. ASSUME NEW t \in Tasks, Call(t) \/ Lock(t) \/ CheckMissing(t) PROVE Fresh'
  BY <1>1 DEF Call, Lock, CheckMissing
<1>2. ASSUME NEW t \in Tasks, CheckCached(t) \/ IoError(t) \/ Return(t) PROVE Fresh'
  BY <1>2 DEF CheckCached, IoError, Return, Answer
<1>3. ASSUME NEW t \in Tasks, Request(t) PROVE Fresh'
  BY <1>3 DEF Request, Answer
<1>4. ASSUME NEW t \in Tasks, Stream(t) PROVE Fresh'
  BY <1>4 DEF Stream
<1>5. ASSUME NEW t \in Tasks, Open(t) \/ Unpacked(t) \/ UnpackError(t) PROVE Fresh'
  BY <1>5 DEF Open, Unpacked, UnpackError, WorkerEnds
<1>6. ASSUME NEW t \in Tasks, (\E f \in Files : Create(t, f)) \/ Write(t) PROVE Fresh'
  BY <1>6 DEF Create, Write
<1>7. ASSUME NEW t \in Tasks, Cancel(t) PROVE Fresh'
  BY <1>7 DEF Cancel
<1>8. ASSUME NEW p \in Procs, Crash(p) PROVE Fresh'
  BY <1>8 DEF Crash
<1>9. CASE Purge \/ UNCHANGED vars
  BY <1>9 DEF Purge
<1> QED
  BY <1>1, <1>2, <1>3, <1>4, <1>5, <1>6, <1>7, <1>8, <1>9
     DEF Next, TaskStep, WorkerStep

(***************************************************************************)
(* Directories that any number of processes unpack into.                   *)
(***************************************************************************)

Extracting(d) == \E t \in Tasks : DirOf[t] = d /\ work[t] = "extract"

\* A worker has left a file wherever it has been, a file that is neither
\* absent nor complete has its worker, and where there is one file and no
\* worker there are all.
WorkersFinish ==
    faults \intersect {"unpack", "crash", "purge"} = {} =>
        /\ \A t \in Tasks : work[t] = "extract" =>
               \A f \in Files \ todo[t] : files[DirOf[t]][f] # "absent"
        /\ \A t \in Tasks : cur[t] # None =>
               /\ work[t] = "extract" /\ cur[t] \in todo[t]
               /\ files[DirOf[t]][cur[t]] # "absent"
        /\ \A d \in Dirs, f \in Files : \A u \in Tasks : files[d][f] = u =>
               DirOf[u] = d /\ cur[u] = f
        /\ \A d \in Dirs : Extracting(d) \/ Absent(d)
                           \/ \A f \in Files : files[d][f] # "absent"

\* Workers that overlap replace each other's files, and each goes to its end.
LEMMA WorkersFinishStep ==
    ASSUME TypeOK, Fresh, WorkersFinish, [Next]_vars
    PROVE  WorkersFinish'
<1> DEFINE
      Left == \A t \in Tasks : work[t] = "extract" =>
                 \A f \in Files \ todo[t] : files[DirOf[t]][f] # "absent"
      Writes == \A t \in Tasks : cur[t] # None =>
                 /\ work[t] = "extract" /\ cur[t] \in todo[t]
                 /\ files[DirOf[t]][cur[t]] # "absent"
      Owned == \A d \in Dirs, f \in Files : \A u \in Tasks : files[d][f] = u =>
                 DirOf[u] = d /\ cur[u] = f
      Whole == \A d \in Dirs : Extracting(d) \/ Absent(d)
                               \/ \A f \in Files : files[d][f] # "absent"
      Goal == Left /\ Writes /\ Owned /\ Whole
<1> SUFFICES ASSUME faults' \intersect {"unpack", "crash", "purge"} = {}
             PROVE  Goal'
  BY DEF WorkersFinish
<1>0. /\ Left /\ Writes /\ Owned /\ Whole
      /\ \A kind \in {"unpack", "crash", "purge"} : ~Fault(kind)
  <2>1. faults \intersect {"unpack", "crash", "purge"} = {}
    BY FaultsGrow
  <2> QED
    BY <2>1 DEF WorkersFinish, Fault
<1> USE TasksAssumption, FilesAssumption, NamesAssumption
    DEF vars, tasks, locks, workers, cache, Jars
<1>1. ASSUME UNCHANGED <<files, todo, cur>>,
             \A t \in Tasks : work'[t] = "extract" <=> work[t] = "extract"
      PROVE  Goal'
  BY <1>0, <1>1 DEF Extracting, Absent
<1>2. ASSUME NEW t \in Tasks, Stream(t) \/ Return(t) \/ Cancel(t) PROVE Goal'
  <2>1. UNCHANGED <<files, todo, cur>>
    BY <1>2 DEF Stream, Return, Cancel
  <2>2. \A u \in Tasks : work'[u] = "extract" <=> work[u] = "extract"
    BY <1>2 DEF TypeOK, Fresh, Stream, Return, Cancel
  <2> QED
    BY <1>1, <2>1, <2>2
<1>3. ASSUME NEW t \in Tasks, Open(t) PROVE Goal'
  <2>1. cur[t] = None /\ UNCHANGED files
    BY <1>0, <1>3 DEF Open
  <2>2. CASE work'[t] = "extract" /\ todo'[t] = Files
    <3>1. /\ cur' = cur /\ \A u \in Tasks \ {t} : work'[u] = work[u] /\ todo'[u] = todo[u]
      BY <1>3, <2>2 DEF Open, WorkerEnds, TypeOK
    <3> QED
      BY <1>0, <2>1, <2>2, <3>1 DEF Extracting, Absent
  <2>3. CASE work'[t] # "extract"
    <3>1. /\ cur'[t] = None /\ work[t] # "extract"
          /\ \A u \in Tasks \ {t} : work'[u] = work[u] /\ todo'[u] = todo[u] /\ cur'[u] = cur[u]
      BY <1>3, <2>1, <2>3 DEF Open, WorkerEnds, TypeOK
    <3> QED
      BY <1>0, <2>1, <2>3, <3>1 DEF Extracting, Absent
  <2> QED
    BY <1>3, <2>2, <2>3 DEF Open, WorkerEnds, TypeOK
<1>4. ASSUME NEW t \in Tasks, NEW f \in Files, Create(t, f) PROVE Goal'
  <2>1. /\ cur[t] = None /\ cur'[t] = f /\ f \in todo[t] /\ work[t] = "extract"
        /\ work' = work /\ todo' = todo
        /\ \A u \in Tasks \ {t} : cur'[u] = cur[u]
        /\ t # "absent"
    BY <1>4 DEF Create, TypeOK
  <2>2. \A d \in Dirs, g \in Files :
            files'[d][g] = IF d = DirOf[t] /\ g = f THEN t ELSE files[d][g]
    BY <1>4 DEF Create, TypeOK
  <2>3. Left' /\ Writes'
    BY <1>0, <2>1, <2>2 DEF TypeOK
  <2>4. Owned'
    BY <1>0, <2>1, <2>2
  <2>5. Whole'
    BY <1>0, <2>1, <2>2 DEF Extracting, Absent
  <2> QED
    BY <2>3, <2>4, <2>5
<1>5. ASSUME NEW t \in Tasks, Write(t) PROVE Goal'
  <2>1. /\ cur[t] # None /\ cur'[t] = None /\ work[t] = "extract" /\ work' = work
        /\ todo'[t] = todo[t] \ {cur[t]}
        /\ \A u \in Tasks \ {t} : cur'[u] = cur[u] /\ todo'[u] = todo[u]
        /\ cur[t] \in Files
    BY <1>5 DEF Write, TypeOK
  <2>2. \A d \in Dirs, g \in Files :
            files'[d][g] = IF d = DirOf[t] /\ g = cur[t] /\ files[d][g] = t
                           THEN "complete" ELSE files[d][g]
    BY <1>5, <2>1 DEF Write, TypeOK
  <2>3. /\ \A d \in Dirs, g \in Files : files[d][g] # "absent" => files'[d][g] # "absent"
        /\ \A u \in Tasks : DirOf[u] \in Dirs /\ todo[u] \subseteq Files
                            /\ cur[u] \in Files \union {None}
    BY <2>2 DEF TypeOK
  <2>4. Left'
    BY <1>0, <2>1, <2>3
  <2>5. Writes'
    BY <1>0, <2>1, <2>3
  <2>6. Owned'
    BY <1>0, <2>1, <2>2
  <2>7. Whole'
    BY <1>0, <2>1, <2>2 DEF Extracting, Absent
  <2> QED
    BY <2>4, <2>5, <2>6, <2>7
<1>6. ASSUME NEW t \in Tasks, Unpacked(t) PROVE Goal'
  <2>1. /\ todo[t] = {} /\ work[t] = "extract" /\ work'[t] # "extract"
        /\ cur'[t] = None /\ UNCHANGED files
        /\ \A u \in Tasks \ {t} : work'[u] = work[u] /\ todo'[u] = todo[u] /\ cur'[u] = cur[u]
    BY <1>6 DEF Unpacked, WorkerEnds, TypeOK
  <2>2. cur[t] = None /\ \A f \in Files : files[DirOf[t]][f] # "absent"
    BY <1>0, <2>1
  <2> QED
    BY <1>0, <2>1, <2>2 DEF Extracting, Absent
<1>7. ASSUME NEW t \in Tasks,
             Call(t) \/ Lock(t) \/ CheckCached(t) \/ CheckMissing(t) \/ Request(t) \/ IoError(t)
      PROVE  Goal'
  BY <1>1, <1>7 DEF Call, Lock, CheckCached, CheckMissing, Request, IoError
<1>8. ~(\E t \in Tasks : UnpackError(t)) /\ ~(\E p \in Procs : Crash(p)) /\ ~Purge
  BY <1>0 DEF UnpackError, Crash, Purge
<1>9. CASE UNCHANGED vars
  BY <1>1, <1>9
<1> QED
  BY <1>2, <1>3, <1>4, <1>5, <1>6, <1>7, <1>8, <1>9 DEF Next, TaskStep, WorkerStep

\* AllOrNothing: when the last worker of a directory is done the distribution
\* is whole or not there, however many processes and cancelled callers have
\* unpacked it at once.
THEOREM IsAllOrNothing == Spec => []AllOrNothing
<1> DEFINE Inv == TypeOK /\ Fresh /\ WorkersFinish
<1>1. Init => Fresh /\ WorkersFinish
  BY NamesAssumption DEF Init, Fresh, WorkersFinish, Absent, Jars
<1>2. Inv /\ [Next]_vars => Fresh' /\ WorkersFinish'
  BY FreshStep, WorkersFinishStep
<1>3. Inv => AllOrNothing
  <2> SUFFICES ASSUME Inv, faults \intersect {"unpack", "crash", "purge"} = {},
                      NEW d \in Dirs, \A t \in Tasks : DirOf[t] = d => work[t] = "none",
                      ~Absent(d)
               PROVE  Installed(d)
    BY DEF AllOrNothing, Absent
  <2>1. ~Extracting(d)
    BY DEF Extracting
  <2>2. ASSUME NEW f \in Files PROVE files[d][f] = "complete"
    <3>1. files[d][f] # "absent"
      BY <2>1 DEF WorkersFinish
    <3>2. files[d][f] \notin Tasks
      BY FilesAssumption DEF WorkersFinish
    <3> QED
      BY <3>1, <3>2 DEF TypeOK
  <2> QED
    BY <2>2 DEF Installed
<1> QED
  BY <1>1, <1>2, <1>3, TypeCorrect, PTL DEF Spec
(***************************************************************************)
(* What an answer and an entry of the map are worth.                       *)
(***************************************************************************)

\* How far a task has come, by what is in the cache: its jar while it is
\* downloaded, and then the files its worker has unpacked.
Course(t) ==
    /\ pc[t] \in {"lock", "check", "request"} => DirOf[t] \in dirs
    /\ pc[t] = "stream" => zip[DirOf[t]] = t
    /\ work[t] = "open" => zip[DirOf[t]] \in {"good", "bad", "noxz"}
    /\ work[t] = "extract" =>
           \A f \in Files \ todo[t] : files[DirOf[t]][f] = "complete"
    /\ cur[t] # None => /\ work[t] = "extract" /\ cur[t] \in todo[t]
                        /\ files[DirOf[t]][cur[t]] = t
    /\ work[t] = "ok" => Installed(DirOf[t]) \/ zip[DirOf[t]] = "noxz"
    /\ work[t] = "err" => faults # {}

\* Jars come out as they should.
JarsWhole == "package" \notin faults => \A d \in Dirs : zip[d] \notin {"bad", "noxz"}

CoursesHold ==
    OneProcess /\ faults \intersect {"cancel", "purge"} = {} =>
        JarsWhole /\ \A t \in Tasks : Course(t)

\* A step of one task, which has its directory to itself if it changes
\* anything there.
LEMMA OthersHold ==
    ASSUME TypeOK, LockHeldByHolder, WorkerAwaited, OneProcess,
           "cancel" \notin faults, \A u \in Tasks : Course(u),
           NEW t \in Tasks,
           \A u \in Tasks \ {t} : /\ pc'[u] = pc[u] /\ work'[u] = work[u]
                                  /\ todo'[u] = todo[u] /\ cur'[u] = cur[u],
           \A d \in Dirs \ {DirOf[t]} : files'[d] = files[d] /\ zip'[d] = zip[d],
           (files' = files /\ zip' = zip) \/ pc[t] \in Holding,
           dirs \subseteq dirs', faults \subseteq faults',
           NEW u \in Tasks \ {t}
    PROVE  Course(u)'
<1>1. DirOf[u] \in Dirs
  BY TasksAssumption
<1>2. CASE files'[DirOf[u]] = files[DirOf[u]] /\ zip'[DirOf[u]] = zip[DirOf[u]]
  BY <1>2 DEF Course, Installed
<1>3. CASE ~(files'[DirOf[u]] = files[DirOf[u]] /\ zip'[DirOf[u]] = zip[DirOf[u]])
  <2>1. DirOf[u] = DirOf[t] /\ pc[t] \in Holding
    BY <1>1, <1>3
  <2>2. ~Acquiring(u)
    BY <2>1, HolderAlone
  <2> QED
    BY <2>2 DEF Course, Acquiring
<1> QED
  BY <1>2, <1>3

\* A task that keeps the lock until its worker is done finds in the cache what
\* it has put there.
LEMMA CoursesStep ==
    ASSUME TypeOK, Fresh, LockHeldByHolder, WorkerAwaited, CoursesHold, [Next]_vars
    PROVE  CoursesHold'
<1> SUFFICES ASSUME OneProcess, faults' \intersect {"cancel", "purge"} = {}
             PROVE  JarsWhole' /\ \A u \in Tasks : Course(u)'
  BY DEF CoursesHold, OneProcess
<1> DEFINE Goal == JarsWhole' /\ \A u \in Tasks : Course(u)'
           Still(t) ==
               /\ \A u \in Tasks \ {t} : /\ pc'[u] = pc[u] /\ work'[u] = work[u]
                                         /\ todo'[u] = todo[u] /\ cur'[u] = cur[u]
               /\ \A d \in Dirs \ {DirOf[t]} : files'[d] = files[d] /\ zip'[d] = zip[d]
               /\ (files' = files /\ zip' = zip) \/ pc[t] \in Holding
               /\ dirs \subseteq dirs'
<1>a. faults \subseteq faults' /\ faults \intersect {"cancel", "purge"} = {}
  BY FaultsGrow
<1>b. JarsWhole /\ \A u \in Tasks : Course(u)
  BY <1>a DEF CoursesHold
<1>c. /\ \A u \in Tasks : work[u] # "none" => pc[u] = "unpack"
      /\ "cancel" \notin faults
  BY <1>a DEF WorkerAwaited
<1>d. ~Fault("cancel") /\ ~Fault("purge")
  BY DEF Fault
<1>f. ASSUME NEW t \in Tasks, Still(t), Course(t)', JarsWhole' PROVE Goal
  BY <1>a, <1>b, <1>c, <1>f, OthersHold
<1> HIDE DEF Goal, Still
<1> USE TasksAssumption, FilesAssumption, NamesAssumption
    DEF vars, tasks, locks, workers, cache, Jars, Holding
<1>1. ASSUME NEW t \in Tasks, Call(t) PROVE Goal
  <2>1. Still(t) /\ JarsWhole'
    BY <1>1, <1>a, <1>b, <1>c DEF TypeOK, Still, JarsWhole, Call, Goto
  <2>2. Course(t)'
    BY <1>1, <1>a, <1>b, <1>c DEF TypeOK, Fresh, Course, Installed, Call, Goto
  <2> QED
    BY <1>f, <2>1, <2>2
<1>2. ASSUME NEW t \in Tasks, Lock(t) PROVE Goal
  <2>1. Still(t) /\ JarsWhole'
    BY <1>2, <1>a, <1>b, <1>c DEF TypeOK, Still, JarsWhole, Lock, Goto
  <2>2. Course(t)'
    BY <1>2, <1>a, <1>b, <1>c DEF TypeOK, Fresh, Course, Installed, Lock, Goto
  <2> QED
    BY <1>f, <2>1, <2>2
<1>3. ASSUME NEW t \in Tasks, CheckCached(t) PROVE Goal
  <2>1. Still(t) /\ JarsWhole'
    BY <1>3, <1>a, <1>b, <1>c DEF TypeOK, Still, JarsWhole, CheckCached, Answer, Goto, Release
  <2>2. Course(t)'
    BY <1>3, <1>a, <1>b, <1>c DEF TypeOK, Fresh, Course, Installed, CheckCached, Answer, Goto, Release
  <2> QED
    BY <1>f, <2>1, <2>2
<1>4. ASSUME NEW t \in Tasks, CheckMissing(t) PROVE Goal
  <2>1. Still(t) /\ JarsWhole'
    BY <1>4, <1>a, <1>b, <1>c DEF TypeOK, Still, JarsWhole, CheckMissing, SetStatus, Goto
  <2>2. Course(t)'
    BY <1>4, <1>a, <1>b, <1>c DEF TypeOK, Fresh, Course, Installed, CheckMissing, SetStatus, Goto
  <2> QED
    BY <1>f, <2>1, <2>2
<1>5. ASSUME NEW t \in Tasks, Request(t) PROVE Goal
  <2>1. Still(t) /\ JarsWhole'
    BY <1>5, <1>a, <1>b, <1>c DEF TypeOK, Still, JarsWhole, Request, Answer, Goto, Release
  <2>2. Course(t)'
    BY <1>5, <1>a, <1>b, <1>c DEF TypeOK, Fresh, Course, Installed, Request, Answer, Goto, Release
  <2> QED
    BY <1>f, <2>1, <2>2
<1>6. ASSUME NEW t \in Tasks, Stream(t) PROVE Goal
  <2>1. Still(t) /\ JarsWhole'
    BY <1>6, <1>a, <1>b, <1>c DEF TypeOK, Still, JarsWhole, Stream, Fault, Goto
  <2>2. Course(t)'
    BY <1>6, <1>a, <1>b, <1>c DEF TypeOK, Fresh, Course, Installed, Stream, Fault, Goto
  <2> QED
    BY <1>f, <2>1, <2>2
<1>7. ASSUME NEW t \in Tasks, IoError(t) PROVE Goal
  <2>1. Still(t) /\ JarsWhole'
    BY <1>7, <1>a, <1>b, <1>c DEF TypeOK, Still, JarsWhole, IoError, Answer, Goto, Release, Fault
  <2>2. Course(t)'
    BY <1>7, <1>a, <1>b, <1>c DEF TypeOK, Fresh, Course, Installed, IoError, Answer, Goto, Release, Fault
  <2> QED
    BY <1>f, <2>1, <2>2
<1>8. ASSUME NEW t \in Tasks, Return(t) PROVE Goal
  <2>1. Still(t) /\ JarsWhole'
    BY <1>8, <1>a, <1>b, <1>c DEF TypeOK, Still, JarsWhole, Return, Answer, Goto, Release, SetStatus
  <2>2. Course(t)'
    BY <1>8, <1>a, <1>b, <1>c DEF TypeOK, Fresh, Course, Installed, Return, Answer, Goto, Release, SetStatus
  <2> QED
    BY <1>f, <2>1, <2>2
<1>9. ASSUME NEW t \in Tasks, Open(t) PROVE Goal
  <2>1. Still(t) /\ JarsWhole'
    BY <1>9, <1>a, <1>b, <1>c DEF TypeOK, Still, JarsWhole, Open, WorkerEnds
  <2>2. /\ cur[t] = None /\ cur'[t] = None /\ pc[t] = "unpack"
        /\ UNCHANGED <<pc, zip, files, faults>> /\ DirOf[t] \in Dirs
    BY <1>9, <1>b, <1>c DEF TypeOK, Course, Open, WorkerEnds
  <2>3. \/ work'[t] = "extract" /\ todo'[t] = Files
        \/ work'[t] = "ok" /\ zip[DirOf[t]] = "noxz"
        \/ work'[t] = "err" /\ zip[DirOf[t]] = "bad"
    BY <1>9, <1>b, <2>2 DEF TypeOK, Course, Open, WorkerEnds
  <2>4. zip[DirOf[t]] = "bad" => faults # {}
    BY <1>b, <2>2 DEF JarsWhole
  <2>5. Course(t)'
    BY <2>2, <2>3, <2>4 DEF Course
  <2> QED
    BY <1>f, <2>1, <2>5
<1>10. ASSUME NEW t \in Tasks, NEW f \in Files, Create(t, f) PROVE Goal
  <2>1. Still(t) /\ JarsWhole'
    BY <1>10, <1>a, <1>b, <1>c DEF TypeOK, Still, JarsWhole, Create
  <2>2. Course(t)'
    BY <1>10, <1>a, <1>b, <1>c DEF TypeOK, Fresh, Course, Installed, Create
  <2> QED
    BY <1>f, <2>1, <2>2
<1>11. ASSUME NEW t \in Tasks, Write(t) PROVE Goal
  <2>1. Still(t) /\ JarsWhole'
    BY <1>11, <1>a, <1>b, <1>c DEF TypeOK, Still, JarsWhole, Write
  <2>2. Course(t)'
    BY <1>11, <1>a, <1>b, <1>c DEF TypeOK, Fresh, Course, Installed, Write
  <2> QED
    BY <1>f, <2>1, <2>2
<1>12. ASSUME NEW t \in Tasks, Unpacked(t) PROVE Goal
  <2>1. Still(t) /\ JarsWhole'
    BY <1>12, <1>a, <1>b, <1>c DEF TypeOK, Still, JarsWhole, Unpacked, WorkerEnds
  <2>2. Course(t)'
    BY <1>12, <1>a, <1>b, <1>c DEF TypeOK, Fresh, Course, Installed, Unpacked, WorkerEnds
  <2> QED
    BY <1>f, <2>1, <2>2
<1>13. ASSUME NEW t \in Tasks, UnpackError(t) PROVE Goal
  <2>1. Still(t) /\ JarsWhole'
    BY <1>13, <1>a, <1>b, <1>c DEF TypeOK, Still, JarsWhole, UnpackError, WorkerEnds, Fault
  <2>2. Course(t)'
    BY <1>13, <1>a, <1>b, <1>c DEF TypeOK, Fresh, Course, Installed, UnpackError, WorkerEnds, Fault
  <2> QED
    BY <1>f, <2>1, <2>2
<1>14. ASSUME NEW p \in Procs, Crash(p) PROVE Goal
  BY <1>14, <1>b DEF Goal, TypeOK, Course, JarsWhole, Installed, Crash, Fault
<1>15. CASE UNCHANGED vars
  BY <1>15, <1>b DEF Goal, Course, JarsWhole, Installed
<1> QED
  BY <1>1, <1>2, <1>3, <1>4, <1>5, <1>6, <1>7, <1>8, <1>9, <1>10, <1>11,
     <1>12, <1>13, <1>14, <1>15, <1>d
     DEF Next, TaskStep, WorkerStep, Cancel, Purge, Goal
\* Init, for the invariants of this module and those of PgAccess_proof.
LEMMA InitHolds ==
    Init => TypeOK /\ Fresh /\ LockHeldByHolder /\ WorkerAwaited /\ CoursesHold
BY TasksAssumption, FilesAssumption, NamesAssumption
   DEF Init, TypeOK, Fresh, LockHeldByHolder, WorkerAwaited, CoursesHold, JarsWhole,
       Course, Installed, Holding, PgAcquisitionStatus, Jars

\* Every step keeps them.
LEMMA StepHolds ==
    ASSUME TypeOK, Fresh, LockHeldByHolder, WorkerAwaited, CoursesHold, [Next]_vars
    PROVE  (TypeOK /\ Fresh /\ LockHeldByHolder /\ WorkerAwaited /\ CoursesHold)'
BY TypeStep, FreshStep, LockStep, WorkerStepAwaited, CoursesStep

\* OkMeansInstalled: who waits for its worker and is answered Ok has installed
\* the distribution, unless the jar had no tarball in it.
THEOREM OkIsInstalled == Spec => OkMeansInstalled
<1> DEFINE Inv == TypeOK /\ Fresh /\ LockHeldByHolder /\ WorkerAwaited /\ CoursesHold
           A == OneProcess /\ faults' \intersect {"cancel", "purge"} = {} =>
                   \A t \in Tasks :
                      /\ pc[t] = "unpack" /\ pc'[t] = "idle" /\ ret'[t] = "ok"
                      /\ zip[DirOf[t]] # "noxz"
                      => Installed(DirOf[t])
<1>1. Inv /\ [Next]_vars => [A]_vars
  <2> SUFFICES ASSUME Inv, [Next]_vars, OneProcess,
                      faults' \intersect {"cancel", "purge"} = {},
                      NEW t \in Tasks, pc[t] = "unpack", pc'[t] = "idle",
                      ret'[t] = "ok", zip[DirOf[t]] # "noxz"
               PROVE  Installed(DirOf[t])
    OBVIOUS
  <2>1. /\ faults \intersect {"cancel", "purge"} = {}
        /\ ~Fault("cancel")
    BY FaultsGrow DEF Fault
  <2>2. ASSUME NEW p \in Procs, Crash(p) PROVE FALSE
    <3>1. /\ pc'[t] = IF ProcOf[t] = p THEN "idle" ELSE pc[t]
          /\ ret'[t] = IF ProcOf[t] = p THEN "none" ELSE ret[t]
      BY <2>2 DEF Crash
    <3> QED
      BY <3>1
  <2>3. Return(t)
    <3>1. ASSUME NEW u \in Tasks, TaskStep(u) PROVE u = t /\ Return(u)
      BY <3>1 DEF TaskStep, CheckCached, CheckMissing, Request, Stream, IoError,
                  Return, Answer, Goto, TypeOK
    <3>2. ASSUME NEW u \in Tasks, Call(u) \/ Lock(u) PROVE FALSE
      BY <3>2 DEF Call, Lock, Goto, TypeOK
    <3>3. ASSUME NEW u \in Tasks, WorkerStep(u) \/ UnpackError(u) PROVE FALSE
      BY <3>3 DEF WorkerStep, Open, Create, Write, Unpacked, UnpackError, tasks
    <3>4. ~Purge /\ ~UNCHANGED vars /\ \A u \in Tasks : ~Cancel(u)
      BY <2>1 DEF Purge, Cancel, vars, tasks
    <3> QED
      BY <2>2, <3>1, <3>2, <3>3, <3>4 DEF Next
  <2>4. work[t] = "ok"
    BY <2>3 DEF Return, Answer, TypeOK
  <2> QED
    BY <2>1, <2>4 DEF CoursesHold, Course
<1>2. Inv /\ [Next]_vars => Inv'
  BY StepHolds
<1>3. Init => Inv
  BY InitHolds
<1> QED
  BY <1>1, <1>2, <1>3, PTL DEF Spec, OkMeansInstalled

\* What a task finds in the map: Finished means installed for good, InProgress
\* that somebody is at work or something has failed.
MapMeaning(t) ==
    /\ "package" \notin faults /\ AcquisitionStatus(t) = "Finished" =>
           /\ Installed(DirOf[t])
           /\ \A u \in Tasks : DirOf[u] = DirOf[t] => ~Acquiring(u)
    /\ AcquisitionStatus(t) = "InProgress" =>
           faults # {} \/ \E u \in Tasks : DirOf[u] = DirOf[t] /\ Acquiring(u)

MapHolds ==
    OneProcess /\ faults \intersect {"cancel", "purge"} = {} =>
        \A t \in Tasks : MapMeaning(t)

\* Entries change under the lock, and nobody acquires what is installed.
LEMMA MapStep ==
    ASSUME TypeOK, Fresh, LockHeldByHolder, WorkerAwaited, CoursesHold, MapHolds,
           [Next]_vars
    PROVE  MapHolds'
<1> SUFFICES ASSUME OneProcess, faults' \intersect {"cancel", "purge"} = {},
                    NEW w \in Tasks
             PROVE  MapMeaning(w)'
  BY DEF MapHolds, OneProcess
<1>a. faults \subseteq faults' /\ faults \intersect {"cancel", "purge"} = {}
  BY FaultsGrow
<1>b. MapMeaning(w)
  BY <1>a DEF MapHolds
<1>c. \A u \in Tasks : /\ work[u] # "none" => pc[u] = "unpack"
                       /\ Course(u)
  BY <1>a DEF WorkerAwaited, CoursesHold
<1>d. ~Fault("cancel") /\ ~Fault("purge")
  BY DEF Fault
<1>e. \A u \in Tasks : DirOf[u] = DirOf[w] => ProcOf[u] = ProcOf[w]
  BY DEF OneProcess
<1> USE TasksAssumption, FilesAssumption
    DEF vars, tasks, locks, workers, cache
\* Steps that leave the entry, the acquirers and the files alone.
<1>1. ASSUME UNCHANGED <<status, files>>,
             \A u \in Tasks : Acquiring(u)' <=> Acquiring(u)
      PROVE  MapMeaning(w)'
  BY <1>1, <1>a, <1>b DEF MapMeaning, AcquisitionStatus, Installed
<1>2. ASSUME faults' # {}, UNCHANGED <<status, files>>,
             \A u \in Tasks : Acquiring(u)' => Acquiring(u)
      PROVE  MapMeaning(w)'
  BY <1>2, <1>a, <1>b DEF MapMeaning, AcquisitionStatus, Installed
<1>3. ASSUME NEW t \in Tasks, Call(t) \/ Lock(t) \/ CheckCached(t)
      PROVE  MapMeaning(w)'
  BY <1>1, <1>3, <1>c
     DEF Call, Lock, CheckCached, Answer, Goto, Acquiring, TypeOK
<1>4. ASSUME NEW t \in Tasks, CheckMissing(t) PROVE MapMeaning(w)'
  <2>1. CASE DirOf[t] = DirOf[w]
    <3>1. Acquiring(t)' /\ AcquisitionStatus(w)' = "InProgress"
      BY <1>4, <1>e, <2>1
         DEF CheckMissing, SetStatus, Goto, Acquiring, AcquisitionStatus, TypeOK
    <3> QED
      BY <2>1, <3>1 DEF MapMeaning
  <2>2. CASE DirOf[t] # DirOf[w]
    <3>1. /\ AcquisitionStatus(w)' = AcquisitionStatus(w)
          /\ files' = files /\ faults' = faults
          /\ \A u \in Tasks \ {t} : Acquiring(u)' <=> Acquiring(u)
      BY <1>4, <2>2
         DEF CheckMissing, SetStatus, Goto, Acquiring, AcquisitionStatus, TypeOK
    <3> QED
      BY <1>b, <2>2, <3>1 DEF MapMeaning, Installed
  <2> QED
    BY <2>1, <2>2
<1>5. ASSUME NEW t \in Tasks, Request(t) PROVE MapMeaning(w)'
  <2>1. DirOf[t] \in dirs
    BY <1>5, <1>c DEF Request, Course
  <2> QED
    BY <1>1, <1>5, <2>1 DEF Request, Goto, Acquiring, TypeOK
<1>6. ASSUME NEW t \in Tasks, Stream(t) PROVE MapMeaning(w)'
  <2>1. UNCHANGED <<status, files>> /\ Acquiring(t) /\ Acquiring(t)'
    BY <1>6 DEF Stream, Goto, Acquiring, TypeOK
  <2>2. \A u \in Tasks \ {t} : Acquiring(u)' <=> Acquiring(u)
    BY <1>6 DEF Stream, Goto, Acquiring, TypeOK
  <2> QED
    BY <1>1, <2>1, <2>2
<1>7. ASSUME NEW t \in Tasks, IoError(t) PROVE MapMeaning(w)'
  BY <1>2, <1>7 DEF IoError, Fault, Answer, Goto, Acquiring, TypeOK
<1>8. ASSUME NEW t \in Tasks, Return(t) PROVE MapMeaning(w)'
  <2>1. /\ files' = files /\ faults' = faults /\ ~Acquiring(t)'
        /\ \A u \in Tasks \ {t} : Acquiring(u)' <=> Acquiring(u)
    BY <1>8 DEF Return, Answer, Goto, Acquiring, TypeOK
  <2>2. CASE DirOf[t] # DirOf[w]
    <3>1. status' = status \/ SetStatus(t, "Finished")
      BY <1>8 DEF Return
    <3>2. AcquisitionStatus(w)' = AcquisitionStatus(w)
      <4>1. CASE status' = status
        BY <4>1 DEF AcquisitionStatus
      <4>2. CASE SetStatus(t, "Finished")
        <5>1. status' = [status EXCEPT ![ProcOf[t]] =
                            [status[ProcOf[t]] EXCEPT ![DirOf[t]] = "Finished"]]
          BY <4>2 DEF SetStatus
        <5>2. ProcOf[w] \in Procs /\ DirOf[w] \in Dirs /\ ProcOf[t] \in Procs
          OBVIOUS
        <5> QED
          BY <2>2, <5>1, <5>2 DEF AcquisitionStatus, TypeOK
      <4> QED
        BY <3>1, <4>1, <4>2
    <3> QED
      BY <1>b, <2>1, <2>2, <3>2 DEF MapMeaning, Installed
  <2>3. CASE DirOf[t] = DirOf[w] /\ work[t] = "ok"
    <3>1. AcquisitionStatus(w)' = "Finished"
      BY <1>8, <1>e, <2>3 DEF Return, SetStatus, AcquisitionStatus, TypeOK
    <3>2. \A u \in Tasks : DirOf[u] = DirOf[w] => ~Acquiring(u)'
      BY <1>8, <1>a, <2>1, <2>3, HolderAlone DEF Return, Holding
    <3>3. "package" \notin faults => Installed(DirOf[t])
      BY <1>a, <1>c, <2>3 DEF Course, CoursesHold, JarsWhole
    <3> QED
      BY <2>1, <2>3, <3>1, <3>2, <3>3 DEF MapMeaning, Installed
  <2>4. CASE DirOf[t] = DirOf[w] /\ work[t] = "err"
    <3>1. AcquisitionStatus(w)' = AcquisitionStatus(w)
      BY <1>8, <2>4 DEF Return, AcquisitionStatus
    <3>2. faults # {}
      BY <1>c, <2>4 DEF Course
    <3> QED
      BY <1>b, <2>1, <2>4, <3>1, <3>2 DEF MapMeaning, Installed
  <2> QED
    BY <1>8, <2>2, <2>3, <2>4 DEF Return
<1>9. ASSUME NEW t \in Tasks, Open(t) \/ Unpacked(t) \/ UnpackError(t)
      PROVE  MapMeaning(w)'
  <2>1. UNCHANGED <<status, files, pc>> /\ Acquiring(t) /\ Acquiring(t)'
    BY <1>9, <1>c DEF Open, Unpacked, UnpackError, WorkerEnds, Acquiring, TypeOK
  <2>2. \A u \in Tasks \ {t} : Acquiring(u)' <=> Acquiring(u)
    BY <1>9 DEF Open, Unpacked, UnpackError, WorkerEnds, Acquiring, TypeOK
  <2> QED
    BY <1>1, <2>1, <2>2
<1>10. ASSUME NEW t \in Tasks, (\E f \in Files : Create(t, f)) \/ Write(t)
       PROVE  MapMeaning(w)'
  <2>1. /\ UNCHANGED <<status, pc, work, faults>> /\ Acquiring(t)
        /\ \A d \in Dirs \ {DirOf[t]} : files'[d] = files[d]
    BY <1>10 DEF Create, Write, Acquiring, TypeOK
  <2> QED
    BY <1>b, <2>1 DEF MapMeaning, AcquisitionStatus, Acquiring, Installed
<1>11. ASSUME NEW p \in Procs, Crash(p) PROVE MapMeaning(w)'
  <2>1. /\ files' = files /\ faults' # {}
        /\ \A u \in Tasks : Acquiring(u)' => Acquiring(u)
        /\ AcquisitionStatus(w)' \in {AcquisitionStatus(w), "Undefined"}
    BY <1>11 DEF Crash, Fault, Acquiring, AcquisitionStatus, TypeOK
  <2> QED
    BY <1>a, <1>b, <2>1 DEF MapMeaning, Installed
<1>12. CASE UNCHANGED vars
  BY <1>1, <1>12 DEF Acquiring
<1> QED
  BY <1>3, <1>4, <1>5, <1>6, <1>7, <1>8, <1>9, <1>10, <1>11, <1>12, <1>d
     DEF Next, TaskStep, WorkerStep, Cancel, Purge

\* StatusMeaning: what a caller of acquisition_status reads while nobody holds
\* the mutex is true, as long as no jar is broken and no call is cut short.
THEOREM StatusIsMeaningful == Spec => []StatusMeaning
<1> DEFINE Base == TypeOK /\ Fresh /\ LockHeldByHolder /\ WorkerAwaited /\ CoursesHold
           Inv  == Base /\ MapHolds
<1>1. Init => Inv
  <2>1. Init => MapHolds
    BY TasksAssumption DEF Init, MapHolds, MapMeaning, AcquisitionStatus
  <2> QED
    BY <2>1, InitHolds
<1>2. Inv /\ [Next]_vars => Inv'
  BY StepHolds, MapStep
<1>3. Inv => StatusMeaning
  <2> SUFFICES ASSUME Inv, OneProcess, faults \intersect {"package", "cancel", "purge"} = {},
                      NEW t \in Tasks, holder[ProcOf[t]] = None
               PROVE  /\ AcquisitionStatus(t) = "Finished" => Installed(DirOf[t])
                      /\ AcquisitionStatus(t) = "InProgress" => faults # {}
    BY DEF StatusMeaning
  <2>1. MapMeaning(t) /\ "package" \notin faults
    BY DEF MapHolds
  <2>2. ASSUME NEW u \in Tasks, DirOf[u] = DirOf[t], Acquiring(u) PROVE FALSE
    <3>1. pc[u] \in Holding
      BY <2>2 DEF WorkerAwaited, Acquiring, Holding
    <3>2. holder[ProcOf[u]] = u /\ ProcOf[u] = ProcOf[t]
      BY <2>2, <3>1 DEF LockHeldByHolder, OneProcess
    <3> QED
      BY <3>2, TasksAssumption
  <2> QED
    BY <2>1, <2>2 DEF MapMeaning
<1> QED
  BY <1>1, <1>2, <1>3, PTL DEF Spec
(***************************************************************************)
(* The acquisition implements the abstract cache.                          *)
(***************************************************************************)

\* What a worker has still to unpack is not there.
StillMissing ==
    \A t \in Tasks : work[t] = "extract" =>
        \A f \in todo[t] : files[DirOf[t]][f] # "complete"

\* The invariants together, for caches of one process and failing i/o.
CacheInv ==
    /\ TypeOK /\ Fresh /\ LockHeldByHolder /\ WorkerAwaited /\ CoursesHold
    /\ WholeOrNothing /\ StillMissing

\* Which a history without any other fault consists of.
LEMMA IoOnly ==
    ASSUME Faults \subseteq {"io"}, OneProcess, CacheInv
    PROVE  /\ faults \subseteq {"io"} /\ "io" \in FaultKinds
           /\ \A kind \in FaultKinds \ {"io"} : ~Fault(kind)
           /\ \A t \in Tasks : FilesFollowWorker(t) /\ Course(t)
           /\ \A d \in Dirs : WholeWhenUnused(d) /\ zip[d] # "noxz"
           /\ \A t \in Tasks : work[t] # "none" => pc[t] = "unpack"
           /\ \A t, u \in Tasks : DirOf[t] = DirOf[u] /\ pc[t] \in Holding
                                  /\ Acquiring(u) => t = u
<1>1. faults \subseteq {"io"}
  BY DEF CacheInv, TypeOK
<1>2. \A kind \in FaultKinds \ {"io"} : ~Fault(kind)
  BY DEF Fault
<1>3. faults \intersect TearFaults = {} /\ faults \intersect {"cancel", "purge"} = {}
      /\ "cancel" \notin faults /\ "package" \notin faults
  BY <1>1 DEF TearFaults
<1> QED
  BY <1>1, <1>2, <1>3, HolderAlone
     DEF CacheInv, WholeOrNothing, CoursesHold, JarsWhole, WorkerAwaited, FaultKinds

\* Nobody else unpacks what a worker has still to unpack.
LEMMA StillMissingStep ==
    ASSUME Faults \subseteq {"io"}, OneProcess, CacheInv, [Next]_vars
    PROVE  StillMissing'
<1>0. TypeOK /\ Fresh /\ StillMissing
  BY DEF CacheInv
<1> USE TasksAssumption, FilesAssumption, NamesAssumption
    DEF vars, tasks, locks, workers, cache
<1>1. ASSUME UNCHANGED <<files, todo>>,
             \A t \in Tasks : work'[t] = "extract" => work[t] = "extract"
      PROVE  StillMissing'
  BY <1>0, <1>1 DEF StillMissing
<1>2. ASSUME NEW t \in Tasks, TaskStep(t) \/ Call(t) \/ Lock(t) PROVE StillMissing'
  <2>1. UNCHANGED <<files, todo>>
    BY <1>2 DEF TaskStep, Call, Lock, CheckCached, CheckMissing, Request, Stream,
                IoError, Return
  <2>2. \A u \in Tasks : work'[u] = "extract" => work[u] = "extract"
    BY <1>0, <1>2 DEF TypeOK, TaskStep, Call, Lock, CheckCached, CheckMissing,
                      Request, Stream, IoError, Return
  <2> QED
    BY <1>1, <2>1, <2>2
<1>3. ASSUME NEW t \in Tasks, Open(t) PROVE StillMissing'
  <2>1. files' = files /\ Absent(DirOf[t])
    BY <1>3, IoOnly DEF Open, FilesFollowWorker
  <2>2. todo'[t] \subseteq Files
        /\ \A u \in Tasks \ {t} : work'[u] = work[u] /\ todo'[u] = todo[u]
    BY <1>0, <1>3 DEF TypeOK, Open, WorkerEnds
  <2> QED
    BY <1>0, <2>1, <2>2 DEF StillMissing, Absent
<1>4. ASSUME NEW t \in Tasks, Unpacked(t) PROVE StillMissing'
  BY <1>0, <1>4 DEF TypeOK, Unpacked, WorkerEnds, StillMissing
<1>5. ASSUME NEW t \in Tasks, NEW f \in Files, Create(t, f) PROVE StillMissing'
  <2>1. \A d \in Dirs, g \in Files :
            files'[d][g] = IF d = DirOf[t] /\ g = f THEN t ELSE files[d][g]
    BY <1>0, <1>5 DEF Create, TypeOK
  <2> QED
    BY <1>0, <1>5, <2>1 DEF Create, TypeOK, StillMissing
<1>6. ASSUME NEW t \in Tasks, Write(t) PROVE StillMissing'
  <2>1. /\ work' = work /\ todo'[t] = todo[t] \ {cur[t]}
        /\ \A u \in Tasks \ {t} : todo'[u] = todo[u]
        /\ \A d \in Dirs, g \in Files :
               d # DirOf[t] \/ g # cur[t] => files'[d][g] = files[d][g]
    BY <1>0, <1>6 DEF Write, TypeOK
  <2>2. pc[t] = "unpack"
    BY <1>6, IoOnly DEF Write
  <2>3. ASSUME NEW u \in Tasks, work'[u] = "extract", u # t PROVE DirOf[u] # DirOf[t]
    BY <2>1, <2>2, <2>3, IoOnly DEF Acquiring, Holding
  <2>4. ASSUME NEW u \in Tasks, work'[u] = "extract", NEW f \in todo'[u]
        PROVE  files'[DirOf[u]][f] # "complete"
    <3>1. /\ DirOf[u] \in Dirs /\ f \in Files /\ f \in todo[u]
          /\ work[u] = "extract" /\ (u = t => f # cur[t])
      BY <1>0, <2>1, <2>4 DEF TypeOK
    <3>2. files'[DirOf[u]][f] = files[DirOf[u]][f]
      BY <2>1, <2>3, <2>4, <3>1
    <3> QED
      BY <1>0, <3>1, <3>2 DEF StillMissing
  <2> QED
    BY <2>4 DEF StillMissing
<1>7. ASSUME NEW t \in Tasks, UnpackError(t) \/ Cancel(t) PROVE FALSE
  BY <1>7, IoOnly DEF UnpackError, Cancel, FaultKinds
<1>8. (\A p \in Procs : ~Crash(p)) /\ ~Purge
  BY IoOnly DEF Crash, Purge, FaultKinds
<1>9. CASE UNCHANGED vars
  BY <1>1, <1>9
<1> QED
  BY <1>2, <1>3, <1>4, <1>5, <1>6, <1>7, <1>8, <1>9 DEF Next, WorkerStep

\* The abstract state.
Requested == [t \in Tasks |-> IF pc[t] = "idle" THEN ret[t] ELSE "pending"]
Present == {d \in Dirs : Installed(d)}

CacheOrStutter == [Cache!CacheNext]_<<Requested, Present>>

\* The last file a worker writes is the installation; an answer grants or
\* refuses; the rest is invisible.
LEMMA CacheStep ==
    ASSUME Faults \subseteq {"io"}, OneProcess, CacheInv, [Next]_vars
    PROVE  CacheOrStutter
<1>0. TypeOK /\ Fresh /\ StillMissing
  BY DEF CacheInv
<1> USE TasksAssumption, FilesAssumption, NamesAssumption
    DEF vars, tasks, locks, workers, cache
<1>1. ASSUME UNCHANGED files PROVE Present' = Present
  BY <1>1 DEF Present, Installed
<1>2. ASSUME UNCHANGED files, UNCHANGED ret,
             \A t \in Tasks : pc'[t] = "idle" <=> pc[t] = "idle"
      PROVE  CacheOrStutter
  BY <1>1, <1>2 DEF CacheOrStutter, Requested
<1>3. ASSUME NEW t \in Tasks, NEW result \in {"ok", "err"}, Answer(t, result),
             pc[t] # "idle", UNCHANGED files, result = "ok" => Installed(DirOf[t])
      PROVE  CacheOrStutter
  <2>1. Requested[t] = "pending" /\ Requested' = [Requested EXCEPT ![t] = result]
    BY <1>0, <1>3 DEF Answer, Goto, TypeOK, Requested
  <2>2. CASE result = "ok"
    <3>1. DirOf[t] \in Present
      BY <1>3, <2>2 DEF Present
    <3> QED
      BY <1>1, <1>3, <2>1, <2>2, <3>1
         DEF CacheOrStutter, Requested, Present, Cache!CacheNext, Cache!Grant, Cache!Respond
  <2>3. CASE result = "err"
    BY <1>1, <1>3, <2>1, <2>3
       DEF CacheOrStutter, Requested, Present, Cache!CacheNext, Cache!Refuse, Cache!Respond
  <2> QED
    BY <2>2, <2>3
<1>4. ASSUME NEW t \in Tasks, Call(t) PROVE CacheOrStutter
  <2>1. Requested[t] # "pending" /\ Requested' = [Requested EXCEPT ![t] = "pending"]
    BY <1>0, <1>4 DEF Call, Goto, TypeOK, Requested
  <2>2. Present' = Present
    BY <1>1, <1>4 DEF Call
  <2> QED
    BY <2>1, <2>2
       DEF CacheOrStutter, Requested, Present, Cache!CacheNext, Cache!Ask, Cache!Respond
<1>5. ASSUME NEW t \in Tasks, Lock(t) \/ CheckMissing(t) \/ Stream(t) PROVE CacheOrStutter
  <2>1. UNCHANGED <<files, ret>>
    BY <1>5 DEF Lock, CheckMissing, Stream
  <2>2. \A u \in Tasks : pc'[u] = "idle" <=> pc[u] = "idle"
    BY <1>0, <1>5 DEF Lock, CheckMissing, Stream, Goto, TypeOK
  <2> QED
    BY <1>2, <2>1, <2>2
<1>6. ASSUME NEW t \in Tasks, CheckCached(t) PROVE CacheOrStutter
  <2>1. pc[t] = "check" /\ files[DirOf[t]][InitDb] # "absent"
    BY <1>6 DEF CheckCached, PgExecutablesCached
  <2>2. \A u \in Tasks : DirOf[u] = DirOf[t] => ~Acquiring(u)
    BY <1>0, <2>1, IoOnly DEF Acquiring, Holding, Fresh
  <2>3. Installed(DirOf[t])
    BY <2>1, <2>2, IoOnly DEF WholeWhenUnused, Absent
  <2> QED
    BY <1>3, <1>6, <2>1, <2>3 DEF CheckCached
<1>7. ASSUME NEW t \in Tasks, Request(t) PROVE CacheOrStutter
  <2>1. DirOf[t] \in dirs
    BY <1>7, IoOnly DEF Request, Course
  <2>2. UNCHANGED <<files, ret>> /\ \A u \in Tasks : pc'[u] = "idle" <=> pc[u] = "idle"
    BY <1>0, <1>7, <2>1 DEF Request, Goto, TypeOK
  <2> QED
    BY <1>2, <2>2
<1>8. ASSUME NEW t \in Tasks, IoError(t) PROVE CacheOrStutter
  BY <1>3, <1>8 DEF IoError
<1>9. ASSUME NEW t \in Tasks, Return(t) PROVE CacheOrStutter
  <2>1. work[t] = "ok" => Installed(DirOf[t])
    BY IoOnly DEF Course
  <2> QED
    BY <1>3, <1>9, <2>1 DEF Return
<1>10. ASSUME NEW t \in Tasks, Open(t) \/ Unpacked(t) PROVE CacheOrStutter
  BY <1>2, <1>10 DEF Open, Unpacked
<1>11. ASSUME NEW t \in Tasks, NEW f \in Files, Create(t, f) PROVE CacheOrStutter
  <2>1. /\ UNCHANGED <<pc, ret>>
        /\ \A d \in Dirs, g \in Files :
               files'[d][g] = IF d = DirOf[t] /\ g = f THEN t ELSE files[d][g]
    BY <1>0, <1>11 DEF Create, TypeOK
  <2>2. files[DirOf[t]][f] # "complete" /\ t # "complete"
    BY <1>0, <1>11 DEF Create, StillMissing
  <2>3. \A d \in Dirs : Installed(d)' <=> Installed(d)
    BY <2>1, <2>2 DEF Installed
  <2>4. Present' = Present /\ Requested' = Requested
    BY <2>1, <2>3 DEF Present, Requested
  <2> QED
    BY <2>4 DEF CacheOrStutter
<1>12. ASSUME NEW t \in Tasks, Write(t) PROVE CacheOrStutter
  <2>1. /\ UNCHANGED <<pc, ret>> /\ pc[t] = "unpack"
        /\ \A d \in Dirs \ {DirOf[t]} : files'[d] = files[d]
    BY <1>0, <1>12, IoOnly DEF Write, TypeOK
  <2>2. ~Installed(DirOf[t])
    BY <1>0, <1>12, IoOnly DEF Write, Course, StillMissing, Installed, TypeOK
  <2>3. Requested' = Requested /\ Requested[t] = "pending" /\ DirOf[t] \notin Present
    BY <2>1, <2>2 DEF Requested, Present
  <2>4. \A d \in Dirs \ {DirOf[t]} : Installed(d)' <=> Installed(d)
    BY <2>1 DEF Installed
  <2>5. CASE Installed(DirOf[t])'
    <3>1. Present' = Present \union {DirOf[t]}
      BY <2>4, <2>5 DEF Present
    <3> QED
      BY <2>3, <3>1
         DEF CacheOrStutter, Requested, Present, Cache!CacheNext, Cache!Install
  <2>6. CASE ~Installed(DirOf[t])'
    <3>1. Present' = Present
      BY <2>2, <2>4, <2>6 DEF Present
    <3> QED
      BY <2>3, <3>1 DEF CacheOrStutter
  <2> QED
    BY <2>5, <2>6
<1>13. ASSUME NEW t \in Tasks, UnpackError(t) \/ Cancel(t) PROVE FALSE
  BY <1>13, IoOnly DEF UnpackError, Cancel, FaultKinds
<1>14. (\A p \in Procs : ~Crash(p)) /\ ~Purge
  BY IoOnly DEF Crash, Purge, FaultKinds
<1>15. CASE UNCHANGED vars
  BY <1>2, <1>15
<1> QED
  BY <1>4, <1>5, <1>6, <1>7, <1>8, <1>9, <1>10, <1>11, <1>12, <1>13, <1>14, <1>15
     DEF Next, TaskStep, WorkerStep

\* ImplementsCache: for the tasks of a process and its caches, the acquisition
\* with all its steps, its lock, its worker and failing i/o, is the atomic cache
\* of BinaryCache.
THEOREM ImplementsTheCache ==
    ASSUME Faults \subseteq {"io"}, OneProcess
    PROVE  Spec => ImplementsCache
<1>1. Init => CacheInv /\ Cache!CacheInit
  <2> SUFFICES ASSUME Init PROVE CacheInv /\ Cache!CacheInit
    OBVIOUS
  <2>1. WholeOrNothing /\ StillMissing
    BY DEF Init, WholeOrNothing, FilesFollowWorker, WholeWhenUnused, Absent, StillMissing
  <2>2. \A d \in Dirs : ~Installed(d)
    BY FilesAssumption DEF Init, Installed
  <2> QED
    BY <2>1, <2>2, InitHolds DEF CacheInv, Init, Cache!CacheInit
<1>2. CacheInv /\ [Next]_vars => CacheInv'
  BY StepHolds, WholeOrNothingStep, StillMissingStep DEF CacheInv
<1>3. CacheInv /\ [Next]_vars => [Cache!CacheNext]_(Cache!cacheVars)
  BY CacheStep DEF CacheOrStutter, Requested, Present, Cache!cacheVars
<1> QED
  BY <1>1, <1>2, <1>3, PTL DEF Spec, ImplementsCache, Cache!Spec
=============================================================================
