----------------------------- MODULE PgExecutor -----------------------------
(***************************************************************************)
(* One command run through a child process whose output goes through two   *)
(* pipes: AsyncCommandExecutor (src/src/command_executor.rs), which waits  *)
(* for the exit first and reads the pipes afterwards, in tasks of their    *)
(* own; and the synchronous stop of src/src/postgres.rs, which reads       *)
(* stdout to its end, then stderr, and does not wait for the exit.         *)
(*                                                                         *)
(* A pipe holds Capacity lines, and a process that writes to a full one    *)
(* blocks.  The postmaster that pg_ctl start leaves behind (there is no -l *)
(* among its arguments) inherits both pipes.  Lines are counted, not kept: *)
(* no property tells two lines of a stream apart.  The lines a BufReader   *)
(* reads ahead are left in the pipe.                                       *)
(***************************************************************************)
EXTENDS Naturals, Sequences, FiniteSets, PgTypes

CONSTANTS
    Cases,            \* who runs what: caller, process type and two programs
    Capacity,         \* the lines a pipe holds
    ChannelCapacity,  \* the lines the channel holds
    Faults            \* the kinds of fault the environment may produce

Streams == {"stdout", "stderr"}
Writers == {"child", "server"}

\* What a program does: write a line to a stream; the server becomes ready; the
\* child waits for that (pg_ctl start -w).
Events == Streams \union {"ready", "await"}

FaultKinds == {
    "spawn",       \* the executable cannot be spawned
    "process",     \* a process fails, or pg_ctl loses patience
    "timeout",     \* the deadline passes, or the caller drops the future
    "wait",        \* wait() errs
    "read",        \* a stream cannot be read on, or a line is not UTF-8
    "shutdown" }   \* the runtime is shut down with its tasks

ASSUME CasesAssumption ==
    \A c \in Cases : /\ c.caller \in {"async", "sync"}
                     /\ c.type \in Commands
                     /\ c.child \in Seq(Events) /\ c.server \in Seq(Events)
                     /\ c.caller = "sync" => c.server = <<>>
                     /\ (\E i \in DOMAIN c.child : c.child[i] = "await") =>
                            \E i \in DOMAIN c.server : c.server[i] = "ready"
ASSUME CapacityAssumption ==
    Capacity \in Nat \ {0} /\ ChannelCapacity \in Nat \ {0}
ASSUME FaultsAssumption == Faults \subseteq FaultKinds

VARIABLES
    run,      \* the case this behaviour is about
    todo,     \* what a process has still to do
    exit,     \* has it been spawned, and how did it exit
    ready,    \* does the server accept connections
    wrote,    \* the lines a process has written to a stream
    took,     \* the lines taken from a pipe
    open,     \* the pipes whose read end is held
    call,     \* where the caller is
    result,   \* what the call returned
    reader,   \* the handle_output task of a stream
    queued,   \* the lines of a stream in the channel
    logger,   \* the log_output task
    logged,   \* the lines of a stream that reached the log
    faults    \* the kinds of fault that have happened (history)

procs == <<todo, exit, ready>>
tasks == <<reader, queued, logger, logged>>
vars  == <<run, procs, wrote, took, open, call, result, tasks, faults>>

Zero == [s \in Streams |-> 0]

TypeOK ==
    /\ run \in Cases
    /\ todo \in [Writers -> Seq(Events)]
    /\ exit \in [Writers -> {"none", "running", "ok", "failed"}]
    /\ ready \in BOOLEAN
    /\ wrote \in [Writers -> [Streams -> Nat]]
    /\ took \in [Streams -> Nat] /\ open \subseteq Streams
    /\ call \in {"new", "wait", "stdout", "stderr", "done"}
    /\ result \in Error \union PgServerStatus \union {"none", "unit"}
    /\ reader \in [Streams -> {"none", "reading", "sending", "ended"}]
    /\ queued \in [Streams -> Nat]
    /\ logger \in {"none", "running", "ended"}
    /\ logged \in [Streams -> Nat]
    /\ faults \subseteq Faults

Init ==
    /\ run \in Cases
    /\ todo = [w \in Writers |-> <<>>] /\ exit = [w \in Writers |-> "none"]
    /\ ready = FALSE
    /\ wrote = [w \in Writers |-> Zero] /\ took = Zero /\ open = {}
    /\ call = "new" /\ result = "none"
    /\ reader = [s \in Streams |-> "none"] /\ queued = Zero
    /\ logger = "none" /\ logged = Zero
    /\ faults = {}

Fault(kind) == kind \in Faults /\ faults' = faults \union {kind}

InPipe(s) == wrote["child"][s] + wrote["server"][s] - took[s]
Running(w) == exit[w] = "running"
Exited == exit["child"] \in {"ok", "failed"}

\* The write end of a pipe is closed once every process that holds it is gone.
AtEnd(s) == InPipe(s) = 0 /\ \A w \in Writers : ~Running(w)

----------------------------------------------------------------------------
(* The caller: AsyncCommand::new and execute; stop_db_sync *)

Spawn ==
    /\ call = "new"
    /\ call' = IF run.caller = "async" THEN "wait" ELSE "stdout"
    /\ todo' = [w \in Writers |-> IF w = "child" THEN run.child ELSE run.server]
    /\ exit' = [w \in Writers |-> IF w = "child" \/ run.server # <<>>
                                  THEN "running" ELSE "none"]
    /\ open' = Streams
    /\ UNCHANGED <<run, ready, wrote, took, result, tasks, faults>>

SpawnError ==
    /\ call = "new" /\ Fault("spawn")
    /\ call' = "done"
    /\ result' = IF run.caller = "async" THEN ErrorType(run.type) ELSE "PgError"
    /\ UNCHANGED <<run, procs, wrote, took, open, tasks>>

\* run_process: Ok or Err by the exit status.
ExitResult == IF exit["child"] = "ok" THEN StatusExit(run.type)
                                      ELSE ErrorType(run.type)

\* Mutant: one of the streams is not read.
Drain_stdout ==
    /\ reader' = [reader EXCEPT !["stdout"] = "reading"]
    /\ logger' = "running"

\* command_execution goes on whatever became of the wait: a reader for each
\* stream and the task that logs.
Drain ==
    /\ reader' = [s \in Streams |-> "reading"]
    /\ logger' = "running"

\* Mutant: the call answers as soon as it is polled.
Wait_unfinished ==
    /\ call = "wait"
    /\ call' = "done" /\ result' = ExitResult
    /\ Drain
    /\ UNCHANGED <<run, procs, wrote, took, open, queued, logged, faults>>

\* Mutant: the call waits for the end of the streams too, like
\* wait_with_output, and so for the server that pg_ctl start leaves behind.
Wait_withOutput ==
    /\ call = "wait" /\ \A w \in Writers : ~Running(w)
    /\ call' = "done" /\ result' = ExitResult
    /\ Drain
    /\ UNCHANGED <<run, procs, wrote, took, open, queued, logged, faults>>

Wait ==
    /\ call = "wait" /\ Exited
    /\ call' = "done" /\ result' = ExitResult
    /\ Drain
    /\ UNCHANGED <<run, procs, wrote, took, open, queued, logged, faults>>

WaitError ==
    /\ call = "wait" /\ Fault("wait")
    /\ call' = "done" /\ result' = WrapError
    /\ Drain
    /\ UNCHANGED <<run, procs, wrote, took, open, queued, logged>>

\* execute with a timeout, or a caller that drops the future: the Child goes,
\* and with it the read ends of its pipes.
Timeout ==
    /\ call = "wait" /\ Fault("timeout")
    /\ call' = "done"
    /\ result' \in {TimeoutError, "none"}
    /\ open' = {}
    /\ UNCHANGED <<run, procs, wrote, took, tasks>>

\* handle_process_io_sync: each line is logged as it is read; one that cannot
\* be read is skipped.
SyncRead(s) ==
    /\ call = s /\ InPipe(s) > 0
    /\ took' = [took EXCEPT ![s] = @ + 1]
    /\ \/ logged' = [logged EXCEPT ![s] = @ + 1] /\ UNCHANGED faults
       \/ Fault("read") /\ UNCHANGED logged
    /\ UNCHANGED <<run, procs, wrote, open, call, result, reader, queued, logger>>

\* ... and stderr follows when stdout is at its end.
SyncEnd(s) ==
    /\ call = s /\ AtEnd(s)
    /\ open' = open \ {s}
    /\ \/ s = "stdout" /\ call' = "stderr" /\ UNCHANGED result
       \/ s = "stderr" /\ call' = "done" /\ result' = "unit"
    /\ UNCHANGED <<run, procs, wrote, took, tasks, faults>>

----------------------------------------------------------------------------
(* The tasks that command_execution leaves behind *)

\* handle_output, the next line of the stream.
Read(s) ==
    /\ reader[s] = "reading" /\ InPipe(s) > 0
    /\ took' = [took EXCEPT ![s] = @ + 1]
    /\ reader' = [reader EXCEPT ![s] = "sending"]
    /\ UNCHANGED <<run, procs, wrote, open, call, result,
                   queued, logger, logged, faults>>

\* A line that cannot be read ends the reading of its stream.
ReadError(s) ==
    /\ reader[s] = "reading" /\ InPipe(s) > 0 /\ Fault("read")
    /\ took' = [took EXCEPT ![s] = @ + 1]
    /\ reader' = [reader EXCEPT ![s] = "ended"]
    /\ open' = open \ {s}
    /\ UNCHANGED <<run, procs, wrote, call, result, queued, logger, logged>>

Send(s) ==
    /\ reader[s] = "sending"
    /\ queued["stdout"] + queued["stderr"] < ChannelCapacity
    /\ queued' = [queued EXCEPT ![s] = @ + 1]
    /\ reader' = [reader EXCEPT ![s] = "reading"]
    /\ UNCHANGED <<run, procs, wrote, took, open, call, result,
                   logger, logged, faults>>

Eof(s) ==
    /\ reader[s] = "reading" /\ AtEnd(s)
    /\ reader' = [reader EXCEPT ![s] = "ended"]
    /\ open' = open \ {s}
    /\ UNCHANGED <<run, procs, wrote, took, call, result,
                   queued, logger, logged, faults>>

\* Mutant: log_output does not look whether it received a line.
Log_unchecked(s) ==
    /\ logger = "running"
    /\ queued' = [queued EXCEPT ![s] = @ - 1]
    /\ logged' = [logged EXCEPT ![s] = @ + 1]
    /\ UNCHANGED <<run, procs, wrote, took, open, call, result,
                   reader, logger, faults>>

\* log_output.
Log(s) ==
    /\ logger = "running" /\ queued[s] > 0
    /\ queued' = [queued EXCEPT ![s] = @ - 1]
    /\ logged' = [logged EXCEPT ![s] = @ + 1]
    /\ UNCHANGED <<run, procs, wrote, took, open, call, result,
                   reader, logger, faults>>

\* Mutant: an empty channel ends the task, like try_recv in place of recv.
LogEnd_empty ==
    /\ logger = "running" /\ queued = Zero
    /\ logger' = "ended"
    /\ UNCHANGED <<run, procs, wrote, took, open, call, result,
                   reader, queued, logged, faults>>

\* Mutant: command_execution keeps its own sender, so the channel never closes.
LogEnd_senderKept ==
    /\ logger = "running" /\ queued = Zero /\ reader = [s \in Streams |-> "none"]
    /\ logger' = "ended"
    /\ UNCHANGED <<run, procs, wrote, took, open, call, result,
                   reader, queued, logged, faults>>

\* The channel closes when its last sender goes; command_execution has dropped
\* the one it made.
LogEnd ==
    /\ logger = "running" /\ queued = Zero
    /\ reader = [s \in Streams |-> "ended"]
    /\ logger' = "ended"
    /\ UNCHANGED <<run, procs, wrote, took, open, call, result,
                   reader, queued, logged, faults>>

\* The detached tasks are dropped with the runtime.
Shutdown ==
    /\ logger = "running" /\ Fault("shutdown")
    /\ reader' = [s \in Streams |-> "ended"]
    /\ queued' = Zero /\ logger' = "ended" /\ open' = {}
    /\ UNCHANGED <<run, procs, wrote, took, call, result, logged>>

----------------------------------------------------------------------------
(* The child and the server (external) *)

At(w, event) == Running(w) /\ todo[w] # <<>> /\ Head(todo[w]) = event
Advance(w) == todo' = [todo EXCEPT ![w] = Tail(@)]

Room(s) == InPipe(s) < Capacity

Write(w, s) ==
    /\ At(w, s) /\ s \in open /\ Room(s)
    /\ wrote' = [wrote EXCEPT ![w][s] = @ + 1]
    /\ Advance(w)
    /\ UNCHANGED <<run, exit, ready, took, open, call, result, tasks, faults>>

\* Nobody reads any more: initdb and the postmaster ignore SIGPIPE and go on,
\* pg_ctl is killed by it.
WriteBroken(w, s) ==
    /\ At(w, s) /\ s \notin open
    /\ IF w = "child" /\ run.type # "initdb"
       THEN exit' = [exit EXCEPT ![w] = "failed"] /\ UNCHANGED todo
       ELSE Advance(w) /\ UNCHANGED exit
    /\ UNCHANGED <<run, ready, wrote, took, open, call, result, tasks, faults>>

Ready ==
    /\ At("server", "ready")
    /\ ready' = TRUE /\ Advance("server")
    /\ UNCHANGED <<run, exit, wrote, took, open, call, result, tasks, faults>>

\* pg_ctl start -w: the server is ready, or it is gone.
Await ==
    /\ At("child", "await")
    /\ \/ ready /\ Advance("child") /\ UNCHANGED exit
       \/ /\ ~Running("server")
          /\ exit' = [exit EXCEPT !["child"] = "failed"] /\ UNCHANGED todo
    /\ UNCHANGED <<run, ready, wrote, took, open, call, result, tasks, faults>>

\* The child is done; a server that is done stays until it is stopped.
ExitOk(w) ==
    /\ Running(w) /\ todo[w] = <<>>
    /\ exit' = [exit EXCEPT ![w] = "ok"]
    /\ ready' = (ready /\ w = "child")
    /\ UNCHANGED <<run, todo, wrote, took, open, call, result, tasks, faults>>

ExitError(w) ==
    /\ Running(w) /\ Fault("process")
    /\ exit' = [exit EXCEPT ![w] = "failed"]
    /\ ready' = (ready /\ w = "child")
    /\ UNCHANGED <<run, todo, wrote, took, open, call, result, tasks>>

----------------------------------------------------------------------------
(* The specification *)

Sync(s)   == SyncRead(s) \/ SyncEnd(s)
Reader(s) == Read(s) \/ Send(s) \/ Eof(s)
Logger    == (\E s \in Streams : Log(s)) \/ LogEnd

Process(w) == \E s \in Streams : Write(w, s) \/ WriteBroken(w, s)

Next ==
    \/ Spawn \/ SpawnError \/ Wait \/ WaitError \/ Timeout \/ Shutdown
    \/ \E s \in Streams : Sync(s) \/ Reader(s) \/ ReadError(s)
    \/ Logger
    \/ \E w \in Writers : Process(w) \/ ExitOk(w) \/ ExitError(w)
    \/ Ready \/ Await

Spec == Init /\ [][Next]_vars

\* The runtime polls a task that can go on and the operating system runs the
\* processes.  Nobody has to stop a server.
Fairness ==
    /\ WF_vars(Wait) /\ WF_vars(Logger)
    /\ \A s \in Streams : WF_vars(Sync(s)) /\ WF_vars(Reader(s))
    /\ \A w \in Writers : WF_vars(Process(w))
    /\ WF_vars(Ready) /\ WF_vars(Await) /\ WF_vars(ExitOk("child"))

FairSpec == Spec /\ Fairness

----------------------------------------------------------------------------
(* Properties *)

\* The streams nobody reads before the child is gone.
Undrained == IF run.caller = "async" THEN Streams ELSE {"stderr"}

\* Every line that the child or the server it left behind has written was
\* logged by the time logging ends, unless a line could not be read or the
\* runtime went away.
Drained == logger = "ended" \/ result = "unit"

NothingLost ==
    Drained /\ faults \intersect {"read", "shutdown"} = {} =>
        \A s \in Streams : logged[s] = wrote["child"][s] + wrote["server"][s]

\* A call answers after the exit and as the child exited, or it gives up.  The
\* answer of stop_db_sync says nothing of the exit, which it never reads: it
\* stands for whatever the exit was, and what is claimed of it is the order.
CommandAnswer ==
    IF call # "done" THEN "none"
    ELSE IF result = "unit" THEN exit["child"]
    ELSE IF result = StatusExit(run.type) THEN "ok"
    ELSE IF result = ErrorType(run.type) /\ exit["child"] # "none" THEN "failed"
    ELSE "gave_up"

Cmd == INSTANCE Command WITH exit <- exit["child"], answer <- CommandAnswer

\* The executor implements a command as its callers know it.
ImplementsCommand == Cmd!Spec

\* A call returns when the output that nobody reads in time fits in the pipes,
\* also when the server it started keeps them open.  (When it does not fit, the
\* child blocks on a pipe that nobody reads before its exit, and only a timeout
\* ends the call.)
Lines(w, s) ==
    wrote[w][s] + Cardinality({i \in DOMAIN todo[w] : todo[w][i] = s})

Fits == \A s \in Undrained : Lines("child", s) + Lines("server", s) <= Capacity

CallReturns == (call \notin {"new", "done"} /\ Fits) ~> (call = "done")

\* Once a call has returned, the server it left behind is never blocked for
\* good on a pipe, however much it writes: somebody reads it, or it is closed.
ServerNeverStuck == (call = "done") ~> (todo["server"] = <<>> \/ ~Running("server"))

\* The log task goes when the last process that writes to the pipes is gone.
LogTaskEnds ==
    (logger = "running" /\ \A w \in Writers : ~Running(w)) ~> (logger = "ended")
============================================================================
