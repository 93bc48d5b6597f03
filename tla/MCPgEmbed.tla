----------------------------- MODULE MCPgEmbed -----------------------------
(***************************************************************************)
(* Instances of PgEmbed for TLC: two child-process slots, so that a call   *)
(* can overlap with a child that an earlier, interrupted call left behind. *)
(***************************************************************************)
EXTENDS PgEmbed, TLC

\* The faults of each run.
MCAllFaults  == FaultKinds
MCLiveFaults == {"interrupt", "postgres"}
MCInterrupts == {"interrupt"}

\* Child-process slots are interchangeable.
JobSymmetry == Permutations(Jobs)
============================================================================
