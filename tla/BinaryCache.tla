---------------------------- MODULE BinaryCache ----------------------------
(***************************************************************************)
(* What maybe_acquire_postgres promises (src/README.md:131,                *)
(* src/docs/user-handbook.md:255): a cache of binary distributions shared  *)
(* by the tasks of a process.  A request is answered Ok only when its      *)
(* distribution is installed as a whole, each distribution is installed    *)
(* once, on behalf of a task that asked for it, and stays.                 *)
(***************************************************************************)
CONSTANTS Tasks, Dirs, DirOf

VARIABLES
    request,   \* of a task: not made, in progress, or its answer
    installed  \* the distributions that are installed

cacheVars == <<request, installed>>

CacheTypeOK ==
    /\ request \in [Tasks -> {"none", "pending", "ok", "err"}]
    /\ installed \subseteq Dirs

CacheInit == request = [t \in Tasks |-> "none"] /\ installed = {}

Respond(t, answer) == request' = [request EXCEPT ![t] = answer]

Ask(t) ==
    /\ request[t] # "pending"
    /\ Respond(t, "pending") /\ UNCHANGED installed

Install(t) ==
    /\ request[t] = "pending" /\ DirOf[t] \notin installed
    /\ installed' = installed \union {DirOf[t]} /\ UNCHANGED request

Grant(t) ==
    /\ request[t] = "pending" /\ DirOf[t] \in installed
    /\ Respond(t, "ok") /\ UNCHANGED installed

Refuse(t) ==
    /\ request[t] = "pending"
    /\ Respond(t, "err") /\ UNCHANGED installed

CacheNext == \E t \in Tasks : Ask(t) \/ Install(t) \/ Grant(t) \/ Refuse(t)

Spec == CacheInit /\ [][CacheNext]_cacheVars
============================================================================
