-------------------------- MODULE PgExecutor_proof --------------------------
(***************************************************************************)
(* Proofs about PgExecutor for any cases, any capacities and any faults:   *)
(* type correctness, what becomes of every line, and the refinement of     *)
(* Command.                                                                *)
(***************************************************************************)
EXTENDS PgExecutor, TLAPS

Unread == faults \intersect {"read", "shutdown"} = {}

\* Nothing happens before the spawn, and a caller keeps to its own states.
Callers ==
    /\ call = "new" => /\ took = Zero /\ result = "none"
                       /\ \A w \in Writers : exit[w] = "none"
    /\ call # "done" => /\ logger = "none"
                        /\ \A s \in Streams : reader[s] = "none"
    /\ call = "wait" => run.caller = "async"
    /\ call \in Streams => run.caller = "sync"
    /\ call \notin {"new", "done"} => exit["child"] # "none" /\ result = "none"
    /\ run.caller = "sync" => /\ queued = Zero /\ logger = "none"
                              /\ \A s \in Streams : reader[s] = "none"

\* Every line taken from a pipe is on its way or in the log.
Conserved ==
    Unread => \A s \in Streams :
        took[s] = queued[s] + logged[s] + (IF reader[s] = "sending" THEN 1 ELSE 0)

\* A reader ends with its stream, the logger after both readers.
Ended ==
    Unread => /\ \A s \in Streams : reader[s] = "ended" => AtEnd(s)
              /\ logger = "ended" => \A s \in Streams : reader[s] = "ended" /\ queued[s] = 0

\* The synchronous stop answers when both streams are at their end.
SyncEnded ==
    /\ call = "stderr" => AtEnd("stdout") /\ Exited
    /\ result = "unit" => /\ call = "done" /\ run.caller = "sync" /\ Exited
                          /\ \A s \in Streams : AtEnd(s)

IInv == TypeOK /\ Callers /\ Conserved /\ Ended /\ SyncEnded

(***************************************************************************)
(* What the process types map to.                                          *)
(***************************************************************************)

\* The status and the error of a process type are what the caller expects, and
\* no error is taken for a status, for a timeout or for an error of the wait.
LEMMA Results ==
    ASSUME NEW c \in Commands
    PROVE  /\ StatusExit(c) \in PgServerStatus /\ ErrorType(c) \in Error
           /\ StatusExit(c) # ErrorType(c)
           /\ StatusExit(c) \notin {TimeoutError, WrapError, "PgError", "none", "unit"}
           /\ ErrorType(c) \notin {TimeoutError, WrapError, "PgError", "none", "unit"}
           /\ {TimeoutError, WrapError, "PgError"} \subseteq Error
<1>1. CASE c = "initdb"
  BY <1>1 DEF StatusExit, ErrorType, PgServerStatus, Error, TimeoutError,
     WrapError
<1>2. CASE c = "start"
  BY <1>2 DEF StatusExit, ErrorType, PgServerStatus, Error, TimeoutError,
     WrapError
<1>3. CASE c = "stop"
  BY <1>3 DEF StatusExit, ErrorType, PgServerStatus, Error, TimeoutError,
     WrapError
<1> QED
  BY <1>1, <1>2, <1>3 DEF Commands

\* A case has a caller and a process type.
LEMMA RunTypes ==
    ASSUME run \in Cases
    PROVE  run.caller \in {"async", "sync"} /\ run.type \in Commands
  BY CasesAssumption

\* A process that goes on has the rest of its program to do.
LEMMA AdvanceType ==
    ASSUME todo \in [Writers -> Seq(Events)], NEW w \in Writers, todo[w] # <<>>,
           Advance(w)
    PROVE  todo' \in [Writers -> Seq(Events)]
<1>1. Tail(todo[w]) \in Seq(Events)
  OBVIOUS
<1> QED
  BY <1>1 DEF Advance

(***************************************************************************)
(* Type correctness.                                                       *)
(***************************************************************************)

\* Every step keeps the types.
LEMMA TypeStep ==
    ASSUME TypeOK, [Next]_vars
    PROVE  TypeOK'
<1> USE DEF vars, procs, tasks
<1>1. ASSUME Spawn PROVE TypeOK'
  <2>1. todo' \in [Writers -> Seq(Events)]
    <3>1. todo' = [w \in Writers |-> IF w = "child" THEN run.child ELSE run.server]
      BY <1>1 DEF Spawn
    <3>2. run.child \in Seq(Events) /\ run.server \in Seq(Events)
      BY CasesAssumption DEF TypeOK
    <3> QED
      BY <3>1, <3>2
  <2>2. exit' \in [Writers -> {"none", "running", "ok", "failed"}]
    BY <1>1 DEF Spawn
  <2> QED
    BY <1>1, <2>1, <2>2 DEF TypeOK, Spawn
<1>2. ASSUME SpawnError PROVE TypeOK'
  <2>1. result' \in Error \union PgServerStatus \union {"none", "unit"}
    BY <1>2, Results, RunTypes DEF TypeOK, SpawnError, Fault
  <2> QED
    BY <1>2, <2>1 DEF TypeOK, SpawnError, Fault
<1>3. ASSUME Wait PROVE TypeOK'
  <2>1. result' \in Error \union PgServerStatus \union {"none", "unit"}
    BY <1>3, Results, RunTypes DEF TypeOK, Wait, Drain, ExitResult
  <2> QED
    BY <1>3, <2>1 DEF TypeOK, Wait, Drain, ExitResult
<1>4. ASSUME WaitError PROVE TypeOK'
  <2>1. result' \in Error \union PgServerStatus \union {"none", "unit"}
    BY <1>4, Results, RunTypes DEF TypeOK, WaitError, Drain, Fault
  <2> QED
    BY <1>4, <2>1 DEF TypeOK, WaitError, Drain, Fault
<1>5. ASSUME Timeout PROVE TypeOK'
  <2>1. result' \in Error \union PgServerStatus \union {"none", "unit"}
    BY <1>5, Results, RunTypes DEF TypeOK, Timeout, Fault
  <2> QED
    BY <1>5, <2>1 DEF TypeOK, Timeout, Fault
<1>6. ASSUME Shutdown PROVE TypeOK'
  BY <1>6 DEF TypeOK, Shutdown, Fault, Zero
<1>7. ASSUME NEW s \in Streams, SyncRead(s) PROVE TypeOK'
  BY <1>7 DEF TypeOK, SyncRead, Fault
<1>8. ASSUME NEW s \in Streams, SyncEnd(s) PROVE TypeOK'
  BY <1>8 DEF TypeOK, SyncEnd
<1>9. ASSUME NEW s \in Streams, Read(s) PROVE TypeOK'
  BY <1>9 DEF TypeOK, Read
<1>10. ASSUME NEW s \in Streams, Send(s) PROVE TypeOK'
  BY <1>10 DEF TypeOK, Send
<1>11. ASSUME NEW s \in Streams, Eof(s) PROVE TypeOK'
  BY <1>11 DEF TypeOK, Eof
<1>12. ASSUME NEW s \in Streams, ReadError(s) PROVE TypeOK'
  BY <1>12 DEF TypeOK, ReadError, Fault
<1>13. ASSUME NEW s \in Streams, Log(s) PROVE TypeOK'
  BY <1>13 DEF TypeOK, Log
<1>14. ASSUME LogEnd PROVE TypeOK'
  BY <1>14 DEF TypeOK, LogEnd
<1>15. ASSUME NEW w \in Writers, NEW s \in Streams, Write(w, s) PROVE TypeOK'
  <2>1. todo' \in [Writers -> Seq(Events)]
    BY <1>15, AdvanceType DEF TypeOK, Write, At
  <2>2. wrote' \in [Writers -> [Streams -> Nat]]
    BY <1>15 DEF TypeOK, Write
  <2> QED
    BY <1>15, <2>1, <2>2 DEF TypeOK, Write
<1>16. ASSUME NEW w \in Writers, NEW s \in Streams, WriteBroken(w, s)
       PROVE  TypeOK'
  <2>1. todo' \in [Writers -> Seq(Events)]
    BY <1>16, AdvanceType DEF TypeOK, WriteBroken, At
  <2>2. exit' \in [Writers -> {"none", "running", "ok", "failed"}]
    BY <1>16 DEF TypeOK, WriteBroken
  <2> QED
    BY <1>16, <2>1, <2>2 DEF TypeOK, WriteBroken
<1>17. ASSUME NEW w \in Writers, ExitOk(w) PROVE TypeOK'
  <2>1. ready' \in BOOLEAN
    BY <1>17, Zenon DEF TypeOK, ExitOk
  <2>2. exit' \in [Writers -> {"none", "running", "ok", "failed"}]
    BY <1>17 DEF TypeOK, ExitOk
  <2> QED
    BY <1>17, <2>1, <2>2 DEF TypeOK, ExitOk
<1>18. ASSUME NEW w \in Writers, ExitError(w) PROVE TypeOK'
  <2>1. ready' \in BOOLEAN
    BY <1>18, Zenon DEF TypeOK, ExitError, Fault
  <2>2. exit' \in [Writers -> {"none", "running", "ok", "failed"}]
    BY <1>18 DEF TypeOK, ExitError, Fault
  <2> QED
    BY <1>18, <2>1, <2>2 DEF TypeOK, ExitError, Fault
<1>19. ASSUME Ready PROVE TypeOK'
  <2>1. todo' \in [Writers -> Seq(Events)]
    BY <1>19, AdvanceType DEF TypeOK, Ready, Writers, At
  <2> QED
    BY <1>19, <2>1 DEF TypeOK, Ready
<1>20. ASSUME Await PROVE TypeOK'
  <2>1. todo' \in [Writers -> Seq(Events)]
    BY <1>20, AdvanceType DEF TypeOK, Await, Writers, At
  <2>2. exit' \in [Writers -> {"none", "running", "ok", "failed"}]
    BY <1>20 DEF TypeOK, Await
  <2> QED
    BY <1>20, <2>1, <2>2 DEF TypeOK, Await
<1>21. CASE UNCHANGED vars
  BY <1>21 DEF TypeOK
<1> QED
  BY <1>1, <1>2, <1>3, <1>4, <1>5, <1>6, <1>7, <1>8, <1>9, <1>10,
     <1>11, <1>12, <1>13, <1>14, <1>15, <1>16, <1>17, <1>18, <1>19,
     <1>20, <1>21
  DEF Next, Sync, Reader, Logger, Process

\* The state of the caller, the processes and the tasks is well formed for every
\* program a child may run.
THEOREM TypeCorrect == Spec => []TypeOK
<1>1. Init => TypeOK
  <2>1. ASSUME Init PROVE todo \in [Writers -> Seq(Events)]
    BY <2>1, <<>> \in Seq(Events) DEF Init
  <2>2. ASSUME Init PROVE wrote \in [Writers -> [Streams -> Nat]]
    BY <2>2 DEF Init, Zero
  <2>3. ASSUME Init
        PROVE  /\ took \in [Streams -> Nat] /\ queued \in [Streams -> Nat]
               /\ logged \in [Streams -> Nat]
    BY <2>3 DEF Init, Zero
  <2>4. ASSUME Init
        PROVE  exit \in [Writers -> {"none", "running", "ok", "failed"}]
    BY <2>4 DEF Init
  <2> QED
    BY <2>1, <2>2, <2>3, <2>4 DEF Init, TypeOK
<1>2. TypeOK /\ [Next]_vars => TypeOK'
  BY TypeStep
<1> QED
  BY <1>1, <1>2, PTL DEF Spec

(***************************************************************************)
(* The inductive invariant, part by part.                                  *)
(***************************************************************************)

\* A caller stays in the states of its kind.
LEMMA CallersStep ==
    ASSUME TypeOK, Callers, [Next]_vars
    PROVE  Callers'
<1> USE RunTypes DEF vars, procs, tasks, Streams, Writers, Zero
<1>1. ASSUME Spawn PROVE Callers'
  BY <1>1 DEF TypeOK, Callers, Spawn
<1>2. ASSUME SpawnError PROVE Callers'
  BY <1>2 DEF TypeOK, Callers, SpawnError, Fault
<1>3. ASSUME Wait PROVE Callers'
  BY <1>3, Results DEF TypeOK, Callers, Wait, Drain, ExitResult
<1>4. ASSUME WaitError PROVE Callers'
  BY <1>4 DEF TypeOK, Callers, WaitError, Drain, Fault
<1>5. ASSUME Timeout PROVE Callers'
  BY <1>5 DEF TypeOK, Callers, Timeout, Fault
<1>6. ASSUME Shutdown PROVE Callers'
  BY <1>6 DEF TypeOK, Callers, Shutdown, Fault
<1>7. ASSUME NEW s \in Streams, SyncRead(s) PROVE Callers'
  BY <1>7 DEF TypeOK, Callers, SyncRead, Fault
<1>8. ASSUME NEW s \in Streams, SyncEnd(s) PROVE Callers'
  BY <1>8 DEF TypeOK, Callers, SyncEnd
<1>9. ASSUME NEW s \in Streams, Read(s) PROVE Callers'
  BY <1>9 DEF TypeOK, Callers, Read
<1>10. ASSUME NEW s \in Streams, Send(s) PROVE Callers'
  BY <1>10 DEF TypeOK, Callers, Send
<1>11. ASSUME NEW s \in Streams, Eof(s) PROVE Callers'
  BY <1>11 DEF TypeOK, Callers, Eof
<1>12. ASSUME NEW s \in Streams, ReadError(s) PROVE Callers'
  BY <1>12 DEF TypeOK, Callers, ReadError, Fault
<1>13. ASSUME NEW s \in Streams, Log(s) PROVE Callers'
  BY <1>13 DEF TypeOK, Callers, Log
<1>14. ASSUME LogEnd PROVE Callers'
  BY <1>14 DEF TypeOK, Callers, LogEnd
<1>15. ASSUME NEW w \in Writers, NEW s \in Streams, Write(w, s) PROVE Callers'
  BY <1>15 DEF TypeOK, Callers, Write, At, Advance, Running
<1>16. ASSUME NEW w \in Writers, NEW s \in Streams, WriteBroken(w, s)
       PROVE  Callers'
  BY <1>16 DEF TypeOK, Callers, WriteBroken, At, Advance, Running
<1>17. ASSUME NEW w \in Writers, ExitOk(w) PROVE Callers'
  BY <1>17 DEF TypeOK, Callers, ExitOk, Running
<1>18. ASSUME NEW w \in Writers, ExitError(w) PROVE Callers'
  BY <1>18 DEF TypeOK, Callers, ExitError, Running, Fault
<1>19. ASSUME Ready PROVE Callers'
  BY <1>19 DEF TypeOK, Callers, Ready, At, Advance, Running
<1>20. ASSUME Await PROVE Callers'
  BY <1>20 DEF TypeOK, Callers, Await, At, Advance, Running
<1>21. CASE UNCHANGED vars
  BY <1>21 DEF TypeOK, Callers
<1> QED
  BY <1>1, <1>2, <1>3, <1>4, <1>5, <1>6, <1>7, <1>8, <1>9, <1>10,
     <1>11, <1>12, <1>13, <1>14, <1>15, <1>16, <1>17, <1>18, <1>19,
     <1>20, <1>21
  DEF Next, Sync, Reader, Logger, Process

\* No line is lost between the pipe and the log.
LEMMA ConservedStep ==
    ASSUME TypeOK, Callers, Conserved, [Next]_vars
    PROVE  Conserved'
<1> USE RunTypes DEF vars, procs, tasks, Zero, InPipe
<1>1. ASSUME Spawn PROVE Conserved'
  BY <1>1 DEF TypeOK, Callers, Conserved, Unread, Spawn
<1>2. ASSUME SpawnError PROVE Conserved'
  BY <1>2 DEF TypeOK, Callers, Conserved, Unread, SpawnError, Fault
<1>3. ASSUME Wait PROVE Conserved'
  BY <1>3 DEF TypeOK, Callers, Conserved, Unread, Wait, Drain, ExitResult
<1>4. ASSUME WaitError PROVE Conserved'
  BY <1>4 DEF TypeOK, Callers, Conserved, Unread, WaitError, Drain, Fault
<1>5. ASSUME Timeout PROVE Conserved'
  BY <1>5 DEF TypeOK, Callers, Conserved, Unread, Timeout, Fault
<1>6. ASSUME Shutdown PROVE Conserved'
  BY <1>6 DEF TypeOK, Callers, Conserved, Unread, Shutdown, Fault
<1>7. ASSUME NEW s \in Streams, SyncRead(s) PROVE Conserved'
  BY <1>7 DEF TypeOK, Callers, Conserved, Unread, SyncRead, Fault
<1>8. ASSUME NEW s \in Streams, SyncEnd(s) PROVE Conserved'
  BY <1>8 DEF TypeOK, Callers, Conserved, Unread, SyncEnd
<1>9. ASSUME NEW s \in Streams, Read(s) PROVE Conserved'
  <2> SUFFICES ASSUME Unread', NEW r \in Streams
               PROVE  took'[r] = queued'[r] + logged'[r]
                                 + (IF reader'[r] = "sending" THEN 1 ELSE 0)
    BY DEF Conserved
  <2>1. took[r] = queued[r] + logged[r] + (IF reader[r] = "sending" THEN 1 ELSE 0)
    BY <1>9 DEF Conserved, Unread, Read
  <2>2. CASE r = s
    BY <1>9, <2>1, <2>2 DEF TypeOK, Read
  <2>3. CASE r # s
    BY <1>9, <2>1, <2>3 DEF TypeOK, Read
  <2> QED
    BY <2>2, <2>3
<1>10. ASSUME NEW s \in Streams, Send(s) PROVE Conserved'
  <2> SUFFICES ASSUME Unread', NEW r \in Streams
               PROVE  took'[r] = queued'[r] + logged'[r]
                                 + (IF reader'[r] = "sending" THEN 1 ELSE 0)
    BY DEF Conserved
  <2>1. took[r] = queued[r] + logged[r] + (IF reader[r] = "sending" THEN 1 ELSE 0)
    BY <1>10 DEF Conserved, Unread, Send
  <2>2. CASE r = s
    BY <1>10, <2>1, <2>2 DEF TypeOK, Send
  <2>3. CASE r # s
    BY <1>10, <2>1, <2>3 DEF TypeOK, Send
  <2> QED
    BY <2>2, <2>3
<1>11. ASSUME NEW s \in Streams, Eof(s) PROVE Conserved'
  BY <1>11 DEF TypeOK, Callers, Conserved, Unread, Eof
<1>12. ASSUME NEW s \in Streams, ReadError(s) PROVE Conserved'
  BY <1>12 DEF TypeOK, Callers, Conserved, Unread, ReadError, Fault
<1>13. ASSUME NEW s \in Streams, Log(s) PROVE Conserved'
  BY <1>13 DEF TypeOK, Callers, Conserved, Unread, Log
<1>14. ASSUME LogEnd PROVE Conserved'
  BY <1>14 DEF TypeOK, Callers, Conserved, Unread, LogEnd
<1>15. ASSUME NEW w \in Writers, NEW s \in Streams, Write(w, s)
       PROVE  Conserved'
  BY <1>15 DEF TypeOK, Callers, Conserved, Unread, Write, At, Advance, Running
<1>16. ASSUME NEW w \in Writers, NEW s \in Streams, WriteBroken(w, s)
       PROVE  Conserved'
  BY <1>16 DEF TypeOK, Callers, Conserved, Unread, WriteBroken, At, Advance,
     Running
<1>17. ASSUME NEW w \in Writers, ExitOk(w) PROVE Conserved'
  BY <1>17 DEF TypeOK, Callers, Conserved, Unread, ExitOk, Running
<1>18. ASSUME NEW w \in Writers, ExitError(w) PROVE Conserved'
  BY <1>18 DEF TypeOK, Callers, Conserved, Unread, ExitError, Running, Fault
<1>19. ASSUME Ready PROVE Conserved'
  BY <1>19 DEF TypeOK, Callers, Conserved, Unread, Ready, At, Advance, Running
<1>20. ASSUME Await PROVE Conserved'
  BY <1>20 DEF TypeOK, Callers, Conserved, Unread, Await, At, Advance, Running
<1>21. CASE UNCHANGED vars
  BY <1>21 DEF TypeOK, Callers, Conserved, Unread
<1> QED
  BY <1>1, <1>2, <1>3, <1>4, <1>5, <1>6, <1>7, <1>8, <1>9, <1>10,
     <1>11, <1>12, <1>13, <1>14, <1>15, <1>16, <1>17, <1>18, <1>19,
     <1>20, <1>21
  DEF Next, Sync, Reader, Logger, Process

\* What has ended stays at its end.
LEMMA EndedStep ==
    ASSUME TypeOK, Callers, Ended, [Next]_vars
    PROVE  Ended'
<1> USE RunTypes DEF vars, procs, tasks, Streams, Writers, Zero, InPipe, AtEnd, Running
<1>1. ASSUME Spawn PROVE Ended'
  BY <1>1 DEF TypeOK, Callers, Ended, Unread, Spawn
<1>2. ASSUME SpawnError PROVE Ended'
  BY <1>2 DEF TypeOK, Callers, Ended, Unread, SpawnError, Fault
<1>3. ASSUME Wait PROVE Ended'
  BY <1>3 DEF TypeOK, Callers, Ended, Unread, Wait, Drain, ExitResult
<1>4. ASSUME WaitError PROVE Ended'
  BY <1>4 DEF TypeOK, Callers, Ended, Unread, WaitError, Drain, Fault
<1>5. ASSUME Timeout PROVE Ended'
  BY <1>5 DEF TypeOK, Callers, Ended, Unread, Timeout, Fault
<1>6. ASSUME Shutdown PROVE Ended'
  BY <1>6 DEF TypeOK, Callers, Ended, Unread, Shutdown, Fault
<1>7. ASSUME NEW s \in Streams, SyncRead(s) PROVE Ended'
  BY <1>7 DEF TypeOK, Callers, Ended, Unread, SyncRead, Fault
<1>8. ASSUME NEW s \in Streams, SyncEnd(s) PROVE Ended'
  BY <1>8 DEF TypeOK, Callers, Ended, Unread, SyncEnd
<1>9. ASSUME NEW s \in Streams, Read(s) PROVE Ended'
  BY <1>9 DEF TypeOK, Callers, Ended, Unread, Read
<1>10. ASSUME NEW s \in Streams, Send(s) PROVE Ended'
  BY <1>10 DEF TypeOK, Callers, Ended, Unread, Send
<1>11. ASSUME NEW s \in Streams, Eof(s) PROVE Ended'
  BY <1>11 DEF TypeOK, Callers, Ended, Unread, Eof
<1>12. ASSUME NEW s \in Streams, ReadError(s) PROVE Ended'
  BY <1>12 DEF TypeOK, Callers, Ended, Unread, ReadError, Fault
<1>13. ASSUME NEW s \in Streams, Log(s) PROVE Ended'
  BY <1>13 DEF TypeOK, Callers, Ended, Unread, Log
<1>14. ASSUME LogEnd PROVE Ended'
  BY <1>14 DEF TypeOK, Callers, Ended, Unread, LogEnd
<1>15. ASSUME NEW w \in Writers, NEW s \in Streams, Write(w, s) PROVE Ended'
  BY <1>15 DEF TypeOK, Callers, Ended, Unread, Write, At, Advance, Running
<1>16. ASSUME NEW w \in Writers, NEW s \in Streams, WriteBroken(w, s)
       PROVE  Ended'
  BY <1>16 DEF TypeOK, Callers, Ended, Unread, WriteBroken, At, Advance,
     Running
<1>17. ASSUME NEW w \in Writers, ExitOk(w) PROVE Ended'
  BY <1>17 DEF TypeOK, Callers, Ended, Unread, ExitOk, Running
<1>18. ASSUME NEW w \in Writers, ExitError(w) PROVE Ended'
  BY <1>18 DEF TypeOK, Callers, Ended, Unread, ExitError, Running, Fault
<1>19. ASSUME Ready PROVE Ended'
  BY <1>19 DEF TypeOK, Callers, Ended, Unread, Ready, At, Advance, Running
<1>20. ASSUME Await PROVE Ended'
  BY <1>20 DEF TypeOK, Callers, Ended, Unread, Await, At, Advance, Running
<1>21. CASE UNCHANGED vars
  BY <1>21 DEF TypeOK, Callers, Ended, Unread
<1> QED
  BY <1>1, <1>2, <1>3, <1>4, <1>5, <1>6, <1>7, <1>8, <1>9, <1>10,
     <1>11, <1>12, <1>13, <1>14, <1>15, <1>16, <1>17, <1>18, <1>19,
     <1>20, <1>21
  DEF Next, Sync, Reader, Logger, Process

\* The synchronous stop passes from one stream to the next at its end.
LEMMA SyncEndedStep ==
    ASSUME TypeOK, Callers, SyncEnded, [Next]_vars
    PROVE  SyncEnded'
<1> USE RunTypes, Results DEF vars, procs, tasks, Streams, Writers, Zero, InPipe, AtEnd, Running
<1>1. ASSUME Spawn PROVE SyncEnded'
  BY <1>1 DEF TypeOK, Callers, SyncEnded, Exited, Spawn
<1>2. ASSUME SpawnError PROVE SyncEnded'
  BY <1>2 DEF TypeOK, Callers, SyncEnded, Exited, SpawnError, Fault
<1>3. ASSUME Wait PROVE SyncEnded'
  BY <1>3 DEF TypeOK, Callers, SyncEnded, Exited, Wait, Drain, ExitResult
<1>4. ASSUME WaitError PROVE SyncEnded'
  BY <1>4 DEF TypeOK, Callers, SyncEnded, Exited, WaitError, Drain, Fault,
     WrapError, TimeoutError
<1>5. ASSUME Timeout PROVE SyncEnded'
  BY <1>5 DEF TypeOK, Callers, SyncEnded, Exited, Timeout, Fault, WrapError,
     TimeoutError
<1>6. ASSUME Shutdown PROVE SyncEnded'
  BY <1>6 DEF TypeOK, Callers, SyncEnded, Exited, Shutdown, Fault
<1>7. ASSUME NEW s \in Streams, SyncRead(s) PROVE SyncEnded'
  BY <1>7 DEF TypeOK, Callers, SyncEnded, Exited, SyncRead, Fault
<1>8. ASSUME NEW s \in Streams, SyncEnd(s) PROVE SyncEnded'
  BY <1>8 DEF TypeOK, Callers, SyncEnded, Exited, SyncEnd
<1>9. ASSUME NEW s \in Streams, Read(s) PROVE SyncEnded'
  BY <1>9 DEF TypeOK, Callers, SyncEnded, Exited, Read
<1>10. ASSUME NEW s \in Streams, Send(s) PROVE SyncEnded'
  BY <1>10 DEF TypeOK, Callers, SyncEnded, Exited, Send
<1>11. ASSUME NEW s \in Streams, Eof(s) PROVE SyncEnded'
  BY <1>11 DEF TypeOK, Callers, SyncEnded, Exited, Eof
<1>12. ASSUME NEW s \in Streams, ReadError(s) PROVE SyncEnded'
  BY <1>12 DEF TypeOK, Callers, SyncEnded, Exited, ReadError, Fault
<1>13. ASSUME NEW s \in Streams, Log(s) PROVE SyncEnded'
  BY <1>13 DEF TypeOK, Callers, SyncEnded, Exited, Log
<1>14. ASSUME LogEnd PROVE SyncEnded'
  BY <1>14 DEF TypeOK, Callers, SyncEnded, Exited, LogEnd
<1>15. ASSUME NEW w \in Writers, NEW s \in Streams, Write(w, s)
       PROVE  SyncEnded'
  BY <1>15 DEF TypeOK, Callers, SyncEnded, Exited, Write, At, Advance, Running
<1>16. ASSUME NEW w \in Writers, NEW s \in Streams, WriteBroken(w, s)
       PROVE  SyncEnded'
  BY <1>16 DEF TypeOK, Callers, SyncEnded, Exited, WriteBroken, At, Advance,
     Running
<1>17. ASSUME NEW w \in Writers, ExitOk(w) PROVE SyncEnded'
  BY <1>17 DEF TypeOK, Callers, SyncEnded, Exited, ExitOk, Running
<1>18. ASSUME NEW w \in Writers, ExitError(w) PROVE SyncEnded'
  BY <1>18 DEF TypeOK, Callers, SyncEnded, Exited, ExitError, Running, Fault
<1>19. ASSUME Ready PROVE SyncEnded'
  BY <1>19 DEF TypeOK, Callers, SyncEnded, Exited, Ready, At, Advance, Running
<1>20. ASSUME Await PROVE SyncEnded'
  BY <1>20 DEF TypeOK, Callers, SyncEnded, Exited, Await, At, Advance, Running
<1>21. CASE UNCHANGED vars
  BY <1>21 DEF TypeOK, Callers, SyncEnded, Exited
<1> QED
  BY <1>1, <1>2, <1>3, <1>4, <1>5, <1>6, <1>7, <1>8, <1>9, <1>10,
     <1>11, <1>12, <1>13, <1>14, <1>15, <1>16, <1>17, <1>18, <1>19,
     <1>20, <1>21
  DEF Next, Sync, Reader, Logger, Process

\* The invariant holds from the first state on.
THEOREM Invariance == Spec => []IInv
<1>1. Init => Callers /\ Conserved /\ Ended /\ SyncEnded
  <2> SUFFICES ASSUME Init PROVE Callers /\ Conserved /\ Ended /\ SyncEnded
    OBVIOUS
  <2> USE DEF Init, Zero
  <2>1. Callers
    BY DEF Callers, Streams
  <2>2. Conserved /\ Ended
    BY DEF Conserved, Ended
  <2>3. SyncEnded
    BY DEF SyncEnded
  <2> QED
    BY <2>1, <2>2, <2>3
<1>2. IInv /\ [Next]_vars => IInv'
  BY TypeStep, CallersStep, ConservedStep, EndedStep, SyncEndedStep
     DEF IInv
<1>3. Spec => []TypeOK
  BY TypeCorrect
<1>4. IInv <=> TypeOK /\ Callers /\ Conserved /\ Ended /\ SyncEnded
  BY DEF IInv
<1> QED
  BY <1>1, <1>2, <1>3, <1>4, PTL DEF Spec

(***************************************************************************)
(* The properties of the pipes.                                            *)
(***************************************************************************)

\* No line is lost between a process and the log, in any order of the tasks and
\* however full the channel is.
THEOREM NothingIsLost == Spec => []NothingLost
<1>1. IInv => NothingLost
  <2> SUFFICES ASSUME IInv, Drained, Unread, NEW s \in Streams
               PROVE  logged[s] = wrote["child"][s] + wrote["server"][s]
    BY DEF NothingLost, Unread
  <2>1. /\ took[s] \in Nat /\ queued[s] \in Nat /\ logged[s] \in Nat
        /\ wrote["child"][s] \in Nat /\ wrote["server"][s] \in Nat
    BY DEF IInv, TypeOK, Writers
  <2>2. AtEnd(s) /\ queued[s] = 0 /\ reader[s] # "sending"
    <3>1. CASE logger = "ended"
      BY <3>1 DEF IInv, Ended
    <3>2. CASE result = "unit"
      BY <3>2 DEF IInv, SyncEnded, Callers, Zero
    <3> QED
      BY <3>1, <3>2 DEF Drained
  <2>3. wrote["child"][s] + wrote["server"][s] - took[s] = 0
    BY <2>2 DEF AtEnd, InPipe
  <2>4. took[s] = logged[s]
    BY <2>1, <2>2 DEF IInv, Conserved
  <2>5. \A a, b, c \in Nat : a + b - c = 0 => c = a + b
    OBVIOUS
  <2> QED
    BY <2>1, <2>3, <2>4, <2>5, Zenon
<1> QED
  BY <1>1, Invariance, PTL

(***************************************************************************)
(* The executor implements a command.                                      *)
(***************************************************************************)

CommandOrStutter == [Cmd!Next]_<<exit["child"], CommandAnswer>>

\* Every step of the executor is a step of the command, or none.
LEMMA CommandStep ==
    ASSUME IInv, [Next]_vars
    PROVE  CommandOrStutter
<1> USE DEF vars, procs, tasks, CommandOrStutter
<1>1. ASSUME Spawn PROVE CommandOrStutter
  <2>1. exit["child"] = "none" /\ exit'["child"] = "running"
    BY <1>1 DEF IInv, Callers, Spawn, Writers
  <2>2. CommandAnswer = "none" /\ CommandAnswer' = "none"
    BY <1>1 DEF CommandAnswer, Spawn
  <2> QED
    BY <2>1, <2>2 DEF Cmd!Next, Cmd!Spawn
<1>2. ASSUME SpawnError PROVE CommandOrStutter
  <2>1. CommandAnswer = "none"
    BY <1>2 DEF CommandAnswer, SpawnError, Fault
  <2>2. CommandAnswer' = "gave_up"
    BY <1>2, Results, RunTypes DEF IInv, TypeOK, CommandAnswer, SpawnError,
       Fault, WrapError, TimeoutError, Callers, Writers
  <2>3. exit' = exit
    BY <1>2 DEF SpawnError, Fault
  <2> QED
    BY <2>1, <2>2, <2>3 DEF Cmd!Next, Cmd!GiveUp
<1>3. ASSUME Wait PROVE CommandOrStutter
  <2>1. CommandAnswer = "none" /\ exit["child"] \in {"ok", "failed"}
    BY <1>3 DEF CommandAnswer, Wait, Exited
  <2>2. CommandAnswer' = exit["child"]
    BY <1>3, <2>1, Results, RunTypes
       DEF IInv, TypeOK, CommandAnswer, Wait, ExitResult
  <2>3. exit' = exit
    BY <1>3 DEF Wait
  <2> QED
    BY <2>1, <2>2, <2>3 DEF Cmd!Next, Cmd!Answer
<1>4. ASSUME WaitError PROVE CommandOrStutter
  <2>1. CommandAnswer = "none"
    BY <1>4 DEF CommandAnswer, WaitError, Drain, Fault
  <2>2. CommandAnswer' = "gave_up"
    BY <1>4, Results, RunTypes DEF IInv, TypeOK, CommandAnswer, WaitError,
       Drain, Fault, WrapError, TimeoutError
  <2>3. exit' = exit
    BY <1>4 DEF WaitError, Drain, Fault
  <2> QED
    BY <2>1, <2>2, <2>3 DEF Cmd!Next, Cmd!GiveUp
<1>5. ASSUME Timeout PROVE CommandOrStutter
  <2>1. CommandAnswer = "none"
    BY <1>5 DEF CommandAnswer, Timeout, Fault
  <2>2. CommandAnswer' = "gave_up"
    BY <1>5, Results, RunTypes DEF IInv, TypeOK, CommandAnswer, Timeout,
       Fault, WrapError, TimeoutError
  <2>3. exit' = exit
    BY <1>5 DEF Timeout, Fault
  <2> QED
    BY <2>1, <2>2, <2>3 DEF Cmd!Next, Cmd!GiveUp
<1>6. ASSUME Shutdown PROVE CommandOrStutter
  BY <1>6 DEF CommandAnswer, Shutdown, Fault
<1>7. ASSUME NEW s \in Streams, SyncRead(s) PROVE CommandOrStutter
  BY <1>7 DEF CommandAnswer, SyncRead, Fault
<1>8. ASSUME NEW s \in Streams, SyncEnd(s) PROVE CommandOrStutter
  <2>1. exit' = exit
    BY <1>8 DEF SyncEnd
  <2>2. CASE s = "stdout"
    BY <1>8, <2>1, <2>2 DEF CommandAnswer, SyncEnd
  <2>3. CASE s = "stderr"
    <3>1. CommandAnswer = "none" /\ CommandAnswer' = exit["child"]
      BY <1>8, <2>1, <2>3 DEF CommandAnswer, SyncEnd
    <3>2. exit["child"] \in {"ok", "failed"}
      BY <1>8, <2>3 DEF IInv, SyncEnded, Exited, SyncEnd
    <3> QED
      BY <2>1, <3>1, <3>2 DEF Cmd!Next, Cmd!Answer
  <2> QED
    BY <2>2, <2>3 DEF Streams
<1>9. ASSUME NEW s \in Streams, Read(s) PROVE CommandOrStutter
  BY <1>9 DEF CommandAnswer, Read
<1>10. ASSUME NEW s \in Streams, Send(s) PROVE CommandOrStutter
  BY <1>10 DEF CommandAnswer, Send
<1>11. ASSUME NEW s \in Streams, Eof(s) PROVE CommandOrStutter
  BY <1>11 DEF CommandAnswer, Eof
<1>12. ASSUME NEW s \in Streams, ReadError(s) PROVE CommandOrStutter
  BY <1>12 DEF CommandAnswer, ReadError, Fault
<1>13. ASSUME NEW s \in Streams, Log(s) PROVE CommandOrStutter
  BY <1>13 DEF CommandAnswer, Log
<1>14. ASSUME LogEnd PROVE CommandOrStutter
  BY <1>14 DEF CommandAnswer, LogEnd
<1>15. ASSUME NEW w \in Writers, NEW s \in Streams, Write(w, s)
       PROVE  CommandOrStutter
  BY <1>15 DEF CommandAnswer, Write, At, Advance, Running
<1>16. ASSUME NEW w \in Writers, NEW s \in Streams, WriteBroken(w, s)
       PROVE  CommandOrStutter
  <2>1. \/ exit'["child"] = exit["child"]
        \/ exit["child"] = "running" /\ exit'["child"] \in {"ok", "failed"}
    BY <1>16 DEF IInv, TypeOK, WriteBroken, At, Advance, Running, Writers
  <2>2. CommandAnswer' = CommandAnswer
    BY <1>16, <2>1 DEF IInv, SyncEnded, Exited, CommandAnswer, WriteBroken,
       At, Advance, Running
  <2> QED
    BY <2>1, <2>2 DEF Cmd!Next, Cmd!Exit
<1>17. ASSUME NEW w \in Writers, ExitOk(w) PROVE CommandOrStutter
  <2>1. \/ exit'["child"] = exit["child"]
        \/ exit["child"] = "running" /\ exit'["child"] \in {"ok", "failed"}
    BY <1>17 DEF IInv, TypeOK, ExitOk, Running, Writers
  <2>2. CommandAnswer' = CommandAnswer
    BY <1>17, <2>1 DEF IInv, SyncEnded, Exited, CommandAnswer, ExitOk, Running
  <2> QED
    BY <2>1, <2>2 DEF Cmd!Next, Cmd!Exit
<1>18. ASSUME NEW w \in Writers, ExitError(w) PROVE CommandOrStutter
  <2>1. \/ exit'["child"] = exit["child"]
        \/ exit["child"] = "running" /\ exit'["child"] \in {"ok", "failed"}
    BY <1>18 DEF IInv, TypeOK, ExitError, Running, Fault, Writers
  <2>2. CommandAnswer' = CommandAnswer
    BY <1>18, <2>1 DEF IInv, SyncEnded, Exited, CommandAnswer, ExitError,
       Running, Fault
  <2> QED
    BY <2>1, <2>2 DEF Cmd!Next, Cmd!Exit
<1>19. ASSUME Ready PROVE CommandOrStutter
  BY <1>19 DEF CommandAnswer, Ready, At, Advance, Running
<1>20. ASSUME Await PROVE CommandOrStutter
  <2>1. \/ exit'["child"] = exit["child"]
        \/ exit["child"] = "running" /\ exit'["child"] \in {"ok", "failed"}
    BY <1>20 DEF IInv, TypeOK, Await, At, Advance, Running, Writers
  <2>2. CommandAnswer' = CommandAnswer
    BY <1>20, <2>1 DEF IInv, SyncEnded, Exited, CommandAnswer, Await, At,
       Advance, Running
  <2> QED
    BY <2>1, <2>2 DEF Cmd!Next, Cmd!Exit
<1>21. CASE UNCHANGED vars
  BY <1>21 DEF CommandAnswer
<1> QED
  BY <1>1, <1>2, <1>3, <1>4, <1>5, <1>6, <1>7, <1>8, <1>9, <1>10,
     <1>11, <1>12, <1>13, <1>14, <1>15, <1>16, <1>17, <1>18, <1>19,
     <1>20, <1>21
  DEF Next, Sync, Reader, Logger, Process

\* What the callers of the executor rely on, whatever child they run: it answers
\* after the exit and with it, or gives up.
THEOREM ImplementsTheCommand == Spec => ImplementsCommand
<1>1. Init => Cmd!Init
  BY DEF Init, Cmd!Init, CommandAnswer, Writers
<1>2. IInv /\ [Next]_vars => [Cmd!Next]_<<exit["child"], CommandAnswer>>
  BY CommandStep DEF CommandOrStutter
<1> QED
  BY <1>1, <1>2, Invariance, PTL DEF Spec, ImplementsCommand, Cmd!Spec

=============================================================================
