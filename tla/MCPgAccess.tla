----------------------------- MODULE MCPgAccess -----------------------------
(***************************************************************************)
(* Instances of PgAccess for TLC: three tasks, two files.                  *)
(***************************************************************************)
EXTENDS PgAccess, TLC

CONSTANTS t1, t2, t3, p1, p2, d1, d2, initdb, lib

\* One process, two tasks on one cache directory and a third on another.
OneProcOf == t1 :> p1 @@ t2 :> p1 @@ t3 :> p1
TwoDirsOf == t1 :> d1 @@ t2 :> d1 @@ t3 :> d2

\* Two tasks of one process and one of another, on one cache directory.
TwoProcsOf == t1 :> p1 @@ t2 :> p1 @@ t3 :> p2
OneDirOf   == t1 :> d1 @@ t2 :> d1 @@ t3 :> d1

\* Two tasks of one process on one cache directory.
MCOneProc == t1 :> p1 @@ t2 :> p1
MCOneDir  == t1 :> d1 @@ t2 :> d1

\* Tasks of the same process and directory are interchangeable.
TaskSymmetry == {s \in Permutations({t1, t2, t3}) : s[t3] = t3}

\* The faults of each run.
MCShared   == {"io", "package", "cancel"}
MCIo       == {"io"}
MCFailing  == {"io", "package", "unpack", "cancel"}
MCAll      == FaultKinds
============================================================================
