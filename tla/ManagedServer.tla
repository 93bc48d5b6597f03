--------------------------- MODULE ManagedServer ---------------------------
(***************************************************************************)
(* What a PgEmbed value promises about the server it manages and the       *)
(* cluster behind it (the doc comments of src/src/postgres.rs,             *)
(* src/README.md:130, src/docs/user-handbook.md:213-216).  The server goes *)
(* up only for a start_db and down only for a stop or the drop; the answer *)
(* of a call is true of the server; start_db is refused only for a reason; *)
(* the drop leaves no server, and a persistent value leaves its data.      *)
(*                                                                         *)
(* The promise ends with the first disturbance: a call that is given up,   *)
(* a child that cannot be spawned, a crash, or a PostgreSQL that fails by  *)
(* itself.                                                                 *)
(***************************************************************************)
VARIABLES
    call,        \* "none" without a value, "idle", or the method in progress
    persistent,  \* does the value, or did the last one, keep its data
    says,        \* what the answers so far tell about the server
    server,      \* the server itself
    data,        \* is there a finished cluster
    disturbed    \* has the environment interfered

vars == <<call, persistent, says, server, data, disturbed>>

Stops == {"stop_db", "stop_db_sync", "drop"}

Init ==
    /\ call = "none" /\ persistent \in BOOLEAN /\ says = "nothing"
    /\ server = "down" /\ data \in BOOLEAN /\ disturbed = FALSE

Create ==
    /\ call = "none" /\ call' = "idle"
    /\ persistent' \in BOOLEAN /\ says' = "nothing"
    /\ UNCHANGED <<server, data>>

\* A call that is about to change things takes back what was said; setup of a
\* finished cluster is over at once, and otherwise goes on as init_db.
Call ==
    /\ call = "idle"
    /\ call' \in {"idle", "init_db", "start_db", "stop_db"} /\ says' = "nothing"
    /\ UNCHANGED <<persistent, server, data>>

\* The synchronous stop and the drop leave "stopped" as it is.
CallSync ==
    /\ call = "idle" /\ call' \in {"stop_db_sync", "drop"}
    /\ says' = IF says = "stopped" THEN says ELSE "nothing"
    /\ UNCHANGED <<persistent, server, data>>

CreateCluster ==
    /\ call = "init_db" /\ ~data /\ data' = TRUE
    /\ UNCHANGED <<call, persistent, says, server>>

Launch ==
    /\ call = "start_db" /\ data
    /\ \/ server = "down" /\ server' = "starting"
       \/ server = "starting" /\ server' = "up"
    /\ UNCHANGED <<call, persistent, says, data>>

ShutDown ==
    /\ call \in Stops
    /\ \/ server = "up" /\ server' = "stopping"
       \/ server = "stopping" /\ server' = "down"
    /\ UNCHANGED <<call, persistent, says, data>>

\* Ok says that the server runs; an error, that it did before or cannot.
StartReturn ==
    /\ call = "start_db" /\ call' = "idle"
    /\ \/ server = "up" /\ says' \in {"running", "nothing"}
       \/ server = "down" /\ ~data /\ says' = "nothing"
    /\ UNCHANGED <<persistent, server, data>>

StopReturn ==
    /\ call \in {"stop_db", "stop_db_sync"} /\ call' = "idle"
    /\ server = "down"
    /\ says' \in {says} \union (IF call = "stop_db" THEN {"stopped"} ELSE {})
    /\ UNCHANGED <<persistent, server, data>>

InitReturn ==
    /\ call = "init_db" /\ call' = "idle"
    /\ UNCHANGED <<persistent, says, server, data>>

\* The data of a value that is not persistent goes too, if it can be removed.
DropReturn ==
    /\ call = "drop" /\ call' = "none"
    /\ server = "down" /\ says' = "nothing"
    /\ data' \in {data} \union (IF persistent THEN {} ELSE {FALSE})
    /\ UNCHANGED <<persistent, server>>

\* clean_up, with nobody at work in the directory.
CleanUp ==
    /\ call \in {"none", "idle"} /\ server = "down" /\ data' = FALSE
    /\ UNCHANGED <<call, persistent, says, server>>

Promised ==
    \/ Create \/ Call \/ CallSync
    \/ CreateCluster \/ Launch \/ ShutDown
    \/ StartReturn \/ StopReturn \/ InitReturn \/ DropReturn \/ CleanUp

Next ==
    \/ disturbed = FALSE /\ disturbed' = FALSE /\ Promised
    \/ disturbed' = TRUE

Spec == Init /\ [][Next]_vars

----------------------------------------------------------------------------
\* What follows for a user: between calls the server is up or down and never on
\* its way, what the answers say of it is true, and without a value there is no
\* server (Drop for PgEmbed, postgres.rs:127-140).
Reliable ==
    disturbed = FALSE =>
        /\ call \in {"none", "idle"} => server \in {"up", "down"}
        /\ says = "running" => server = "up"
        /\ says = "stopped" => server = "down"
        /\ call = "none" => server = "down"
============================================================================
