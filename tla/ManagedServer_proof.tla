-------------------------- MODULE ManagedServer_proof --------------------------
(***************************************************************************)
(* What the promise of ManagedServer amounts to for its users.             *)
(***************************************************************************)
EXTENDS ManagedServer, TLAPS

\* What was said survives only the calls that keep it true, and the server is on
\* its way only within a start or a stop.
Kept ==
    /\ call \in {"none", "idle", "init_db"} => server \in {"up", "down"}
    /\ call \in {"init_db", "start_db", "stop_db"} => says = "nothing"
    /\ says = "running" => server = "up" /\ call = "idle"
    /\ says = "stopped" => server = "down"
    /\ call = "none" => server = "down"

IInv == disturbed = FALSE => Kept

\* Every promised step keeps it.
LEMMA PromisedStep ==
    ASSUME Kept, Promised
    PROVE  Kept'
<1>1. CASE Create
  BY <1>1 DEF Create, Kept
<1>2. CASE Call
  BY <1>2 DEF Call, Kept
<1>3. CASE CallSync
  BY <1>3 DEF CallSync, Kept
<1>4. CASE CreateCluster
  BY <1>4 DEF CreateCluster, Kept
<1>5. CASE Launch
  BY <1>5 DEF Launch, Kept
<1>6. CASE ShutDown
  BY <1>6 DEF ShutDown, Stops, Kept
<1>7. CASE StartReturn
  BY <1>7 DEF StartReturn, Kept
<1>8. CASE StopReturn
  BY <1>8 DEF StopReturn, Kept
<1>9. CASE InitReturn
  BY <1>9 DEF InitReturn, Kept
<1>10. CASE DropReturn
  BY <1>10 DEF DropReturn, Kept
<1>11. CASE CleanUp
  BY <1>11 DEF CleanUp, Kept
<1> QED
  BY <1>1, <1>2, <1>3, <1>4, <1>5, <1>6, <1>7, <1>8, <1>9, <1>10, <1>11
     DEF Promised

\* Who may rely on the promise knows what the server does between calls.
THEOREM IsReliable == Spec => []Reliable
<1>1. Init => IInv
  BY DEF Init, IInv, Kept
<1>2. IInv /\ [Next]_vars => IInv'
  <2>1. CASE Next
    BY <2>1, PromisedStep DEF Next, IInv
  <2>2. CASE UNCHANGED vars
    BY <2>2 DEF vars, IInv, Kept
  <2> QED
    BY <2>1, <2>2
<1>3. IInv => Reliable
  BY DEF IInv, Kept, Reliable
<1> QED
  BY <1>1, <1>2, <1>3, PTL DEF Spec

================================================================================
