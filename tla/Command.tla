------------------------------- MODULE Command -------------------------------
(***************************************************************************)
(* What a caller may rely on when it runs a command through a child        *)
(* process, and what PgEmbed takes a command to be: the child exits once,  *)
(* on its own account, and the call answers after the exit and with what   *)
(* it said, unless it gives up.                                            *)
(***************************************************************************)
VARIABLES exit, answer

Init == exit = "none" /\ answer = "none"

Spawn == exit = "none" /\ answer = "none" /\ exit' = "running" /\ UNCHANGED answer

Exit == exit = "running" /\ exit' \in {"ok", "failed"} /\ UNCHANGED answer

Answer == /\ exit \in {"ok", "failed"} /\ answer = "none"
          /\ answer' = exit
          /\ UNCHANGED exit

GiveUp == answer = "none" /\ answer' = "gave_up" /\ UNCHANGED exit

Next == Spawn \/ Exit \/ Answer \/ GiveUp

Spec == Init /\ [][Next]_<<exit, answer>>
============================================================================
