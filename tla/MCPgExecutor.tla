---------------------------- MODULE MCPgExecutor ----------------------------
(***************************************************************************)
(* The commands PgEmbed runs, as programs of a few lines: with Capacity 2, *)
(* each kind of command has a case that fits in the pipes and one that     *)
(* does not.  The channel holds one line, less than the streams bring.     *)
(***************************************************************************)
EXTENDS PgExecutor

Out == "stdout"
Err == "stderr"

Case(caller, type, child, server) ==
    [caller |-> caller, type |-> type, child |-> child, server |-> server]

MCCases ==
    { \* initdb, a few lines and too many on either stream
      Case("async", "initdb", <<Out, Err, Out>>, <<>>),
      Case("async", "initdb", <<Out, Out, Out>>, <<>>),
      Case("async", "initdb", <<Err, Err, Err>>, <<>>),
      \* pg_ctl start and the server it leaves behind: quiet, talkative once it
      \* is ready, and with too much to say before
      Case("async", "start", <<"await", Out>>, <<Err, "ready", Out>>),
      Case("async", "start", <<Out, "await", Out>>, <<Err, "ready", Err, Err, Out>>),
      Case("async", "start", <<"await", Out>>, <<Err, Err, Err, "ready">>),
      \* pg_ctl stop, by the executor and by Drop
      Case("async", "stop", <<Out, Err>>, <<>>),
      Case("sync", "stop", <<Out, Err, Out, Out, Err>>, <<>>),
      Case("sync", "stop", <<Err, Err, Err, Out>>, <<>>) }
=============================================================================
