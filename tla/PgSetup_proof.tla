---------------------------- MODULE PgSetup_proof ----------------------------
(***************************************************************************)
(* Proofs about PgSetup for any values, directories, settings and faults:  *)
(* type correctness, the password a cluster gets and keeps, the success of *)
(* an undisturbed setup, the end of a password, and the fit of the         *)
(* binaries.                                                               *)
(***************************************************************************)
EXTENDS PgSetup, TLAPS

\* A live value has a directory of its own; background operations belong to
\* values that were constructed.
Owned ==
    /\ \A v \in Values : pc[v] \in Live => dir[v] # None /\ fetch[v] # None
    /\ \A v \in Values : pc[v] = "none" => dir[v] = None /\ v \notin kept \union alone
    /\ \A v \in late \union pending : dir[v] # None /\ pc[v] # "none"
    /\ \A v, w \in Values :
           dir[v] = dir[w] /\ pc[v] \in Live /\ pc[w] \in Live => v = w

\* An initdb works for a value that waits for it or has left it behind.
AtWork ==
    /\ \A v \in untidy : pc[v] \in {"failed", "dropped"}
    /\ \A v \in Values : pc[v] = "initdb" => child[v] # "none"
    /\ \A v \in Values : child[v] # "none" =>
           dir[v] # None /\ (pc[v] = "initdb" \/ v \in untidy)

\* Who is alone on a password file is its only user.
Solitary ==
    \A v \in alone :
        /\ dir[v] # None
        /\ v \in Users(PwFile(dir[v])) => Users(PwFile(dir[v])) \subseteq {v}

\* A password file of one's own holds one's own password, or nothing yet.
OwnFile ==
    \A v \in alone : pc[v] \in {"created", "written", "initdb"} =>
        pwfile[PwFile(dir[v])] \in {"empty", v}

\* Without a fault the password arrives, and initdb runs for a new cluster.
Arriving ==
    faults = {} =>
        /\ late = {} /\ untidy = {}
        /\ \A v \in Values : child[v] # "doomed"
        /\ \A v \in alone :
              /\ pc[v] # "failed"
              /\ pc[v] \in {"written", "initdb"} =>
                     v \in pending \/ pwfile[PwFile(dir[v])] = v
              /\ child[v] = "spawned" => clusters[dir[v]] = None

IInv == TypeOK /\ Owned /\ AtWork /\ Solitary /\ OwnFile /\ Arriving

(***************************************************************************)
(* Type correctness.                                                       *)
(***************************************************************************)

\* Every step keeps the types.
LEMMA TypeStep ==
    ASSUME TypeOK, Owned, AtWork, [Next]_vars
    PROVE  TypeOK'
<1> USE DEF vars, files, db, Live
<1>1. ASSUME NEW v \in Values, NEW d \in Directories, NEW s \in Settings, New(v, d, s)
      PROVE  TypeOK'
  BY <1>1 DEF TypeOK, Contents, New, Goto
<1>2. ASSUME NEW v \in Values, NewError(v) PROVE TypeOK'
  BY <1>2 DEF TypeOK, Contents, NewError, Fault, Goto
<1>3. ASSUME NEW v \in Values, Acquire(v) PROVE TypeOK'
  <2>1. fetch[v] \in Settings
    BY <1>3 DEF TypeOK, Owned, Acquire
  <2>2. packages' \in [CacheDirs -> {Artifact(s) : s \in Settings} \union {None}]
    BY <1>3, <2>1 DEF TypeOK, Acquire
  <2> QED
    BY <1>3, <2>2 DEF TypeOK, Acquire, Goto
<1>4. ASSUME NEW v \in Values, Create(v) PROVE TypeOK'
  BY <1>4 DEF TypeOK, Contents, Create, CreatePwFile, Goto
<1>5. ASSUME NEW v \in Values, Write(v) PROVE TypeOK'
  BY <1>5 DEF TypeOK, Contents, Write, Goto
<1>6. ASSUME NEW v \in Values, Check(v) PROVE TypeOK'
  BY <1>6 DEF TypeOK, Contents, Check, DbFilesExist, Goto
<1>7. ASSUME NEW v \in Values, GiveUp(v) PROVE TypeOK'
  BY <1>7 DEF TypeOK, Contents, GiveUp, Fault, Goto
<1>8. ASSUME NEW v \in Values, SetupError(v) PROVE TypeOK'
  BY <1>8 DEF TypeOK, Contents, SetupError, Fault, Goto
<1>9. ASSUME NEW v \in Values, CancelCreate(v) PROVE TypeOK'
  BY <1>9 DEF TypeOK, Contents, CancelCreate, Fault, Goto
<1>10. ASSUME NEW v \in Values, LateCreate(v) PROVE TypeOK'
  BY <1>10 DEF TypeOK, Contents, LateCreate, CreatePwFile
<1>11. ASSUME NEW v \in Values, Flush(v) PROVE TypeOK'
  <2>1. PICK content \in {v, "mixed"} : pwfile' = [pwfile EXCEPT ![PwFile(dir[v])] = content]
    BY <1>11 DEF Flush
  <2>2. pwfile' \in [PwFiles -> Contents]
    BY <2>1 DEF TypeOK, Contents
  <2> QED
    BY <1>11, <2>2 DEF TypeOK, Flush
<1>12. ASSUME NEW v \in Values, WriteLost(v) PROVE TypeOK'
  BY <1>12 DEF TypeOK, Contents, WriteLost, Fault
<1>13. ASSUME NEW v \in Values, Drop(v) PROVE TypeOK'
  <2>1. faults' \subseteq Faults /\ pending' \subseteq Values
    BY <1>13 DEF TypeOK, Drop, Clean, RemovePwFile
  <2>2. /\ clusters' \in [Directories -> Values \union {"mixed", None}]
        /\ child' \in [Values -> {"none", "spawned", "running", "doomed"}]
        /\ untidy' \subseteq Values
    BY <1>13 DEF TypeOK, Drop, Clean, Empty
  <2>3. pwfile' \in [PwFiles -> Contents]
    BY <1>13 DEF TypeOK, Contents, Drop, Clean, RemovePwFile
  <2> QED
    BY <1>13, <2>1, <2>2, <2>3 DEF TypeOK, Drop, Goto
<1>14. ASSUME NEW v \in Values, InitDbBegin(v) PROVE TypeOK'
  <2>1. pwfile[PwFile(dir[v])] \in Contents
    <3>1. dir[v] \in Directories
      BY <1>14 DEF TypeOK, AtWork, InitDbBegin
    <3> QED
      BY <3>1 DEF TypeOK, PwFiles
  <2>2. /\ clusters' \in [Directories -> Values \union {"mixed", None}]
        /\ child' \in [Values -> {"none", "spawned", "running", "doomed"}]
    BY <1>14, <2>1 DEF TypeOK, InitDbBegin, Contents
  <2>3. pc' \in [Values -> Live \union {"none", "dropped"}] /\ faults' \subseteq Faults
    BY <1>14 DEF TypeOK, InitDbBegin, Fault, Answer
  <2> QED
    BY <1>14, <2>2, <2>3 DEF TypeOK, InitDbBegin
<1>15. ASSUME NEW v \in Values, InitDbEnd(v) PROVE TypeOK'
  BY <1>15 DEF TypeOK, Contents, InitDbEnd, Answer
<1>16. ASSUME NEW v \in Values, InitDbFail(v) PROVE TypeOK'
  BY <1>16 DEF TypeOK, Contents, InitDbFail, Fault, Answer
<1>17. ASSUME NEW v \in Values, Crash(v) PROVE TypeOK'
  BY <1>17 DEF TypeOK, Contents, Crash, Fault, Goto
<1>18. CASE UNCHANGED vars
  BY <1>18 DEF TypeOK, Contents
<1> QED
  BY <1>1, <1>2, <1>3, <1>4, <1>5, <1>6, <1>7, <1>8, <1>9, <1>10, <1>11,
     <1>12, <1>13, <1>14, <1>15, <1>16, <1>17, <1>18 DEF Next, SetupStep, Background

(***************************************************************************)
(* The inductive invariant, part by part.                                  *)
(***************************************************************************)

\* Directories belong to one live value each.
LEMMA OwnedStep ==
    ASSUME TypeOK, Owned, AtWork, [Next]_vars
    PROVE  Owned'
<1> USE NoneAssumption DEF vars, files, db, Live
<1>1. ASSUME NEW v \in Values, NEW d \in Directories, NEW s \in Settings, New(v, d, s)
      PROVE  Owned'
  BY <1>1 DEF TypeOK, Owned, New, Goto
<1>2. ASSUME NEW v \in Values, NewError(v) PROVE Owned'
  BY <1>2 DEF TypeOK, Owned, NewError, Fault, Goto
<1>3. ASSUME NEW v \in Values, Acquire(v) PROVE Owned'
  BY <1>3 DEF TypeOK, Owned, Acquire, Goto
<1>4. ASSUME NEW v \in Values, Create(v) PROVE Owned'
  BY <1>4 DEF TypeOK, Owned, Create, CreatePwFile, Goto
<1>5. ASSUME NEW v \in Values, Write(v) PROVE Owned'
  BY <1>5 DEF TypeOK, Owned, Write, Goto
<1>6. ASSUME NEW v \in Values, Check(v) PROVE Owned'
  BY <1>6 DEF TypeOK, Owned, Check, DbFilesExist, Goto
<1>7. ASSUME NEW v \in Values, GiveUp(v) PROVE Owned'
  BY <1>7 DEF TypeOK, Owned, AtWork, GiveUp, Fault, Goto
<1>8. ASSUME NEW v \in Values, SetupError(v) PROVE Owned'
  BY <1>8 DEF TypeOK, Owned, SetupError, Fault, Goto
<1>9. ASSUME NEW v \in Values, CancelCreate(v) PROVE Owned'
  BY <1>9 DEF TypeOK, Owned, CancelCreate, Fault, Goto
<1>10. ASSUME NEW v \in Values, LateCreate(v) PROVE Owned'
  BY <1>10 DEF TypeOK, Owned, LateCreate, CreatePwFile
<1>11. ASSUME NEW v \in Values, Flush(v) PROVE Owned'
  BY <1>11 DEF TypeOK, Owned, Flush
<1>12. ASSUME NEW v \in Values, WriteLost(v) PROVE Owned'
  BY <1>12 DEF TypeOK, Owned, WriteLost, Fault
<1>13. ASSUME NEW v \in Values, Drop(v) PROVE Owned'
  BY <1>13 DEF TypeOK, Owned, Drop, Clean, RemovePwFile, Goto
<1>14. ASSUME NEW v \in Values, InitDbBegin(v) PROVE Owned'
  BY <1>14 DEF TypeOK, Owned, AtWork, InitDbBegin, Fault, Answer
<1>15. ASSUME NEW v \in Values, InitDbEnd(v) PROVE Owned'
  BY <1>15 DEF TypeOK, Owned, AtWork, InitDbEnd, Answer
<1>16. ASSUME NEW v \in Values, InitDbFail(v) PROVE Owned'
  BY <1>16 DEF TypeOK, Owned, AtWork, InitDbFail, Fault, Answer
<1>17. ASSUME NEW v \in Values, Crash(v) PROVE Owned'
  BY <1>17 DEF TypeOK, Owned, AtWork, Crash, Fault, Goto
<1>18. CASE UNCHANGED vars
  BY <1>18 DEF TypeOK, Owned
<1> QED
  BY <1>1, <1>2, <1>3, <1>4, <1>5, <1>6, <1>7, <1>8, <1>9, <1>10, <1>11,
     <1>12, <1>13, <1>14, <1>15, <1>16, <1>17, <1>18 DEF Next, SetupStep, Background

\* An initdb is spawned by a value that waits for it, and outlives the value.
LEMMA AtWorkStep ==
    ASSUME TypeOK, Owned, AtWork, [Next]_vars
    PROVE  AtWork'
<1> USE NoneAssumption DEF vars, files, db, Live
<1>1. ASSUME NEW v \in Values, NEW d \in Directories, NEW s \in Settings, New(v, d, s)
      PROVE  AtWork'
  BY <1>1 DEF TypeOK, Owned, AtWork, New, Goto
<1>2. ASSUME NEW v \in Values, NewError(v) PROVE AtWork'
  BY <1>2 DEF TypeOK, Owned, AtWork, NewError, Fault, Goto
<1>3. ASSUME NEW v \in Values, Acquire(v) PROVE AtWork'
  BY <1>3 DEF TypeOK, Owned, AtWork, Acquire, Goto
<1>4. ASSUME NEW v \in Values, Create(v) PROVE AtWork'
  BY <1>4 DEF TypeOK, Owned, AtWork, Create, Goto
<1>5. ASSUME NEW v \in Values, Write(v) PROVE AtWork'
  BY <1>5 DEF TypeOK, Owned, AtWork, Write, Goto
<1>6. ASSUME NEW v \in Values, Check(v) PROVE AtWork'
  BY <1>6 DEF TypeOK, Owned, AtWork, Check, Goto
<1>7. ASSUME NEW v \in Values, GiveUp(v) PROVE AtWork'
  BY <1>7 DEF TypeOK, Owned, AtWork, GiveUp, Fault, Goto
<1>8. ASSUME NEW v \in Values, SetupError(v) PROVE AtWork'
  BY <1>8 DEF TypeOK, Owned, AtWork, SetupError, Fault, Goto
<1>9. ASSUME NEW v \in Values, CancelCreate(v) PROVE AtWork'
  BY <1>9 DEF TypeOK, Owned, AtWork, CancelCreate, Fault, Goto
<1>10. ASSUME NEW v \in Values, LateCreate(v) PROVE AtWork'
  BY <1>10 DEF TypeOK, Owned, AtWork, LateCreate
<1>11. ASSUME NEW v \in Values, Flush(v) PROVE AtWork'
  BY <1>11 DEF TypeOK, Owned, AtWork, Flush
<1>12. ASSUME NEW v \in Values, WriteLost(v) PROVE AtWork'
  BY <1>12 DEF TypeOK, Owned, AtWork, WriteLost
<1>13. ASSUME NEW v \in Values, Drop(v) PROVE AtWork'
  BY <1>13 DEF TypeOK, Owned, AtWork, Drop, Clean, Empty, Goto
<1>14. ASSUME NEW v \in Values, InitDbBegin(v) PROVE AtWork'
  BY <1>14 DEF TypeOK, Owned, AtWork, InitDbBegin, Answer
<1>15. ASSUME NEW v \in Values, InitDbEnd(v) PROVE AtWork'
  BY <1>15 DEF TypeOK, Owned, AtWork, InitDbEnd, Answer
<1>16. ASSUME NEW v \in Values, InitDbFail(v) PROVE AtWork'
  BY <1>16 DEF TypeOK, Owned, AtWork, InitDbFail, Answer
<1>17. ASSUME NEW v \in Values, Crash(v) PROVE AtWork'
  BY <1>17 DEF TypeOK, Owned, AtWork, Crash, Fault, Goto
<1>18. CASE UNCHANGED vars
  BY <1>18 DEF TypeOK, AtWork
<1> QED
  BY <1>1, <1>2, <1>3, <1>4, <1>5, <1>6, <1>7, <1>8, <1>9, <1>10, <1>11,
     <1>12, <1>13, <1>14, <1>15, <1>16, <1>17, <1>18 DEF Next, SetupStep, Background

\* Nobody but a new value starts to use a password file.
Constructs == \E v \in Values, d \in Directories, s \in Settings : New(v, d, s)
OnlyFewer == /\ dir' = dir /\ alone' = alone
             /\ \A v \in alone : Users(PwFile(dir[v]))' \subseteq Users(PwFile(dir[v]))

\* Other steps only take users away.
LEMMA UsersStep ==
    ASSUME TypeOK, Owned, [Next]_vars
    PROVE  Constructs \/ OnlyFewer
<1> USE DEF vars, files, db, Live
<1>1. ASSUME NEW v \in Values, NEW d \in Directories, NEW s \in Settings, New(v, d, s)
      PROVE  Constructs \/ OnlyFewer
  BY <1>1 DEF Constructs
<1>2. ASSUME NEW v \in Values, NewError(v) PROVE Constructs \/ OnlyFewer
  BY <1>2 DEF TypeOK, Owned, Users, OnlyFewer, NewError, Fault, Goto
<1>3. ASSUME NEW v \in Values, Acquire(v) PROVE Constructs \/ OnlyFewer
  BY <1>3 DEF TypeOK, Owned, Users, OnlyFewer, Acquire, Goto
<1>4. ASSUME NEW v \in Values, Create(v) PROVE Constructs \/ OnlyFewer
  BY <1>4 DEF TypeOK, Owned, Users, OnlyFewer, Create, CreatePwFile, Goto
<1>5. ASSUME NEW v \in Values, Write(v) PROVE Constructs \/ OnlyFewer
  BY <1>5 DEF TypeOK, Owned, Users, OnlyFewer, Write, Goto
<1>6. ASSUME NEW v \in Values, Check(v) PROVE Constructs \/ OnlyFewer
  BY <1>6 DEF TypeOK, Owned, Users, OnlyFewer, Check, DbFilesExist, Goto
<1>7. ASSUME NEW v \in Values, GiveUp(v) PROVE Constructs \/ OnlyFewer
  BY <1>7 DEF TypeOK, Owned, Users, OnlyFewer, GiveUp, Fault, Goto
<1>8. ASSUME NEW v \in Values, SetupError(v) PROVE Constructs \/ OnlyFewer
  BY <1>8 DEF TypeOK, Owned, Users, OnlyFewer, SetupError, Fault, Goto
<1>9. ASSUME NEW v \in Values, CancelCreate(v) PROVE Constructs \/ OnlyFewer
  BY <1>9 DEF TypeOK, Owned, Users, OnlyFewer, CancelCreate, Fault, Goto
<1>10. ASSUME NEW v \in Values, LateCreate(v) PROVE Constructs \/ OnlyFewer
  BY <1>10 DEF TypeOK, Owned, Users, OnlyFewer, LateCreate, CreatePwFile
<1>11. ASSUME NEW v \in Values, Flush(v) PROVE Constructs \/ OnlyFewer
  BY <1>11 DEF TypeOK, Owned, Users, OnlyFewer, Flush
<1>12. ASSUME NEW v \in Values, WriteLost(v) PROVE Constructs \/ OnlyFewer
  BY <1>12 DEF TypeOK, Owned, Users, OnlyFewer, WriteLost, Fault
<1>13. ASSUME NEW v \in Values, Drop(v) PROVE Constructs \/ OnlyFewer
  BY <1>13 DEF TypeOK, Owned, Users, OnlyFewer, Drop, Clean, RemovePwFile, Goto
<1>14. ASSUME NEW v \in Values, InitDbBegin(v) PROVE Constructs \/ OnlyFewer
  BY <1>14 DEF TypeOK, Owned, Users, OnlyFewer, InitDbBegin, Fault, Answer
<1>15. ASSUME NEW v \in Values, InitDbEnd(v) PROVE Constructs \/ OnlyFewer
  BY <1>15 DEF TypeOK, Owned, Users, OnlyFewer, InitDbEnd, Answer
<1>16. ASSUME NEW v \in Values, InitDbFail(v) PROVE Constructs \/ OnlyFewer
  BY <1>16 DEF TypeOK, Owned, Users, OnlyFewer, InitDbFail, Fault, Answer
<1>17. ASSUME NEW v \in Values, Crash(v) PROVE Constructs \/ OnlyFewer
  BY <1>17 DEF TypeOK, Owned, Users, OnlyFewer, Crash, Fault, Goto
<1>18. CASE UNCHANGED vars
  BY <1>18 DEF TypeOK, Owned, Users, OnlyFewer
<1> QED
  BY <1>1, <1>2, <1>3, <1>4, <1>5, <1>6, <1>7, <1>8, <1>9, <1>10, <1>11,
     <1>12, <1>13, <1>14, <1>15, <1>16, <1>17, <1>18 DEF Next, SetupStep, Background

\* A new value is alone, or takes the others' solitude.
LEMMA SolitaryStep ==
    ASSUME TypeOK, Owned, Solitary, [Next]_vars
    PROVE  Solitary'
<1>1. CASE OnlyFewer
  BY <1>1 DEF Solitary, OnlyFewer
<1>2. ASSUME NEW v \in Values, NEW d \in Directories, NEW s \in Settings, New(v, d, s)
      PROVE  Solitary'
  <2> DEFINE p == PwFile(d)
  <2>1. /\ v \notin alone /\ v \notin late \union pending /\ pc[v] \notin Live
        /\ dir' = [dir EXCEPT ![v] = d] /\ pc' = [pc EXCEPT ![v] = "new"]
        /\ late' = late /\ pending' = pending
    BY <1>2 DEF TypeOK, Owned, New, Goto, files, Live
  <2>2. ASSUME NEW q, q # p PROVE Users(q)' = Users(q)
    BY <2>1, <2>2 DEF TypeOK, Users
  <2>3. Users(p)' = Users(p) \union {v}
    <3>1. dir'[v] = d /\ pc'[v] = "new"
      BY <2>1 DEF TypeOK
    <3>2. v \in Users(p)'
      BY <3>1, NoneAssumption DEF Users, Live
    <3> QED
      BY <2>1, <3>1, <3>2 DEF TypeOK, Users
  <2>4. dir'[v] = d /\ d # None
    BY <2>1, NoneAssumption DEF TypeOK
  <2>5. ASSUME NEW w \in alone, w # v, Users(p) = {} \/ w \notin Users(p)
        PROVE  /\ dir'[w] # None
               /\ w \in Users(PwFile(dir[w]))' => Users(PwFile(dir[w]))' \subseteq {w}
               /\ dir'[w] = dir[w]
    <3>1. dir'[w] = dir[w] /\ dir[w] # None
      BY <2>1, <2>5 DEF TypeOK, Solitary
    <3>2. CASE PwFile(dir[w]) = p
      BY <2>3, <2>5, <3>1, <3>2
    <3>3. CASE PwFile(dir[w]) # p
      BY <2>2, <3>1, <3>3 DEF Solitary
    <3> QED
      BY <3>1, <3>2, <3>3
  <2>6. CASE Users(p) = {}
    <3>1. alone' = alone \union {v}
      BY <1>2, <2>6 DEF New
    <3> QED
      BY <2>1, <2>3, <2>4, <2>5, <2>6, <3>1 DEF Solitary
  <2>7. CASE Users(p) # {}
    <3>1. alone' = alone \ Users(p)
      BY <1>2, <2>7 DEF New
    <3> QED
      BY <2>1, <2>5, <2>7, <3>1 DEF Solitary
  <2> QED
    BY <2>6, <2>7
<1> QED
  BY <1>1, <1>2, UsersStep DEF Constructs

\* Who works on the password file of a solitary value is that value.
LEMMA SoleUser ==
    ASSUME TypeOK, Owned, Solitary, NEW x \in alone, pc[x] \in Live,
           NEW w \in Values, pc[w] \in Live \/ w \in late \union pending,
           PwFile(dir[w]) = PwFile(dir[x])
    PROVE  w = x
<1>1. x \in Users(PwFile(dir[x]))
  BY DEF TypeOK, Owned, Solitary, Users
<1>2. w \in Users(PwFile(dir[x]))
  BY DEF TypeOK, Owned, Users
<1> QED
  BY <1>1, <1>2 DEF Solitary

\* Nothing but one's own password gets into a password file of one's own.
LEMMA OwnFileStep ==
    ASSUME TypeOK, Owned, Solitary, OwnFile, [Next]_vars
    PROVE  OwnFile'
<1> USE DEF vars, files, db, Live
<1>1. ASSUME NEW v \in Values, NEW d \in Directories, NEW s \in Settings, New(v, d, s)
      PROVE  OwnFile'
  <2>1. ASSUME NEW x \in alone', x # v PROVE x \in alone /\ pc'[x] = pc[x] /\ dir'[x] = dir[x]
    BY <1>1, <2>1 DEF TypeOK, New, Goto
  <2>2. pc'[v] = "new" /\ pwfile' = pwfile
    BY <1>1 DEF TypeOK, New, Goto
  <2> QED
    BY <2>1, <2>2 DEF OwnFile
<1>2. ASSUME NEW v \in Values, NewError(v) PROVE OwnFile'
  BY <1>2 DEF TypeOK, Owned, OwnFile, NewError, Fault, Goto
<1>3. ASSUME NEW v \in Values, Acquire(v) PROVE OwnFile'
  BY <1>3 DEF TypeOK, Owned, OwnFile, Acquire, Goto
<1>4. ASSUME NEW v \in Values, Create(v) PROVE OwnFile'
  <2>1. pwfile' = [pwfile EXCEPT ![PwFile(dir[v])] = "empty"]
    BY <1>4 DEF Create, CreatePwFile
  <2>2. SUFFICES ASSUME NEW x \in alone, pc'[x] \in {"created", "written", "initdb"}
                 PROVE  pwfile'[PwFile(dir[x])] \in {"empty", x}
    BY <1>4 DEF Create, OwnFile
  <2>3. x = v \/ pwfile[PwFile(dir[x])] \in {"empty", x}
    BY <1>4, <2>2 DEF TypeOK, OwnFile, Create, Goto
  <2>4. PwFile(dir[x]) \in PwFiles
    BY <1>4, <2>2 DEF TypeOK, Owned, PwFiles, Create, Goto
  <2> QED
    BY <2>1, <2>3, <2>4 DEF TypeOK
<1>5. ASSUME NEW v \in Values, Write(v) PROVE OwnFile'
  BY <1>5 DEF TypeOK, Owned, OwnFile, Write, Goto
<1>6. ASSUME NEW v \in Values, Check(v) PROVE OwnFile'
  BY <1>6 DEF TypeOK, Owned, OwnFile, Check, DbFilesExist, Goto
<1>7. ASSUME NEW v \in Values, GiveUp(v) PROVE OwnFile'
  BY <1>7 DEF TypeOK, Owned, OwnFile, GiveUp, Fault, Goto
<1>8. ASSUME NEW v \in Values, SetupError(v) PROVE OwnFile'
  BY <1>8 DEF TypeOK, Owned, OwnFile, SetupError, Fault, Goto
<1>9. ASSUME NEW v \in Values, CancelCreate(v) PROVE OwnFile'
  BY <1>9 DEF TypeOK, Owned, OwnFile, CancelCreate, Fault, Goto
<1>10. ASSUME NEW v \in Values, LateCreate(v) PROVE OwnFile'
  <2>1. pwfile' = [pwfile EXCEPT ![PwFile(dir[v])] = "empty"]
    BY <1>10 DEF LateCreate, CreatePwFile
  <2>2. SUFFICES ASSUME NEW x \in alone, pc'[x] \in {"created", "written", "initdb"}
                 PROVE  pwfile'[PwFile(dir[x])] \in {"empty", x}
    BY <1>10 DEF LateCreate, OwnFile
  <2>3. x = v \/ pwfile[PwFile(dir[x])] \in {"empty", x}
    BY <1>10, <2>2 DEF TypeOK, OwnFile, LateCreate, Goto
  <2>4. PwFile(dir[x]) \in PwFiles
    BY <1>10, <2>2 DEF TypeOK, Owned, PwFiles, LateCreate, Goto
  <2> QED
    BY <2>1, <2>3, <2>4 DEF TypeOK
<1>11. ASSUME NEW v \in Values, Flush(v) PROVE OwnFile'
  <2>1. PICK content \in IF pwfile[PwFile(dir[v])] \in {"empty", v} THEN {v} ELSE {v, "mixed"} :
               pwfile' = [pwfile EXCEPT ![PwFile(dir[v])] = content]
    BY <1>11 DEF Flush
  <2>2. SUFFICES ASSUME NEW x \in alone, pc[x] \in {"created", "written", "initdb"}
                 PROVE  pwfile'[PwFile(dir[x])] \in {"empty", x}
    BY <1>11 DEF Flush, OwnFile
  <2>3. PwFile(dir[x]) \in PwFiles /\ pwfile[PwFile(dir[x])] \in {"empty", x}
    BY <2>2 DEF TypeOK, Owned, PwFiles, OwnFile
  <2>4. CASE PwFile(dir[v]) = PwFile(dir[x])
    <3>1. v = x
      BY <1>11, <2>2, <2>4, SoleUser DEF TypeOK, Flush
    <3>2. content = x
      BY <2>1, <2>3, <3>1
    <3> QED
      BY <2>1, <2>3, <2>4, <3>2 DEF TypeOK
  <2>5. CASE PwFile(dir[v]) # PwFile(dir[x])
    BY <2>1, <2>3, <2>5 DEF TypeOK
  <2> QED
    BY <2>4, <2>5
<1>12. ASSUME NEW v \in Values, WriteLost(v) PROVE OwnFile'
  BY <1>12 DEF TypeOK, Owned, OwnFile, WriteLost, Fault
<1>13. ASSUME NEW v \in Values, Drop(v) PROVE OwnFile'
  <2>1. SUFFICES ASSUME NEW x \in alone, x # v, pc[x] \in {"created", "written", "initdb"}
                 PROVE  pwfile'[PwFile(dir[x])] \in {"empty", x}
    BY <1>13 DEF TypeOK, Drop, Goto, OwnFile
  <2>2. PwFile(dir[v]) # PwFile(dir[x])
    BY <1>13, <2>1, SoleUser DEF TypeOK, Drop
  <2>3. pwfile'[PwFile(dir[x])] = pwfile[PwFile(dir[x])]
    <3>1. \/ pwfile' = pwfile
          \/ pwfile' = [pwfile EXCEPT ![PwFile(dir[v])] = "absent"]
      BY <1>13 DEF Drop, Clean, RemovePwFile
    <3>2. PwFile(dir[x]) \in PwFiles
      BY <2>1 DEF TypeOK, Owned, PwFiles
    <3> QED
      BY <2>2, <3>1, <3>2 DEF TypeOK
  <2> QED
    BY <2>1, <2>3 DEF OwnFile
<1>14. ASSUME NEW v \in Values, InitDbBegin(v) PROVE OwnFile'
  BY <1>14 DEF TypeOK, Owned, OwnFile, InitDbBegin, Fault, Answer
<1>15. ASSUME NEW v \in Values, InitDbEnd(v) PROVE OwnFile'
  BY <1>15 DEF TypeOK, Owned, OwnFile, InitDbEnd, Answer
<1>16. ASSUME NEW v \in Values, InitDbFail(v) PROVE OwnFile'
  BY <1>16 DEF TypeOK, Owned, OwnFile, InitDbFail, Fault, Answer
<1>17. ASSUME NEW v \in Values, Crash(v) PROVE OwnFile'
  BY <1>17 DEF TypeOK, Owned, OwnFile, Crash, Fault, Goto
<1>18. CASE UNCHANGED vars
  BY <1>18 DEF TypeOK, Owned, OwnFile
<1> QED
  BY <1>1, <1>2, <1>3, <1>4, <1>5, <1>6, <1>7, <1>8, <1>9, <1>10, <1>11,
     <1>12, <1>13, <1>14, <1>15, <1>16, <1>17, <1>18 DEF Next, SetupStep, Background

\* A password of one's own arrives, and initdb finds it.
LEMMA ArrivingStep ==
    ASSUME TypeOK, Owned, AtWork, Solitary, OwnFile, Arriving, [Next]_vars
    PROVE  Arriving'
<1> USE DEF vars, files, db, Live
<1>1. ASSUME NEW v \in Values, NEW d \in Directories, NEW s \in Settings, New(v, d, s)
      PROVE  Arriving'
  <2>1. /\ faults' = faults /\ late' = late /\ pending' = pending /\ pwfile' = pwfile
        /\ clusters' = clusters /\ child' = child /\ untidy' = untidy
        /\ pc'[v] = "new" /\ child[v] = "none"
    BY <1>1 DEF TypeOK, AtWork, Owned, New, Goto
  <2>2. ASSUME NEW x \in alone', x # v PROVE x \in alone /\ pc'[x] = pc[x] /\ dir'[x] = dir[x]
    BY <1>1, <2>2 DEF TypeOK, New, Goto
  <2>3. ASSUME faults' = {}, NEW x \in alone', x # v
        PROVE  /\ pc'[x] # "failed"
               /\ pc'[x] \in {"written", "initdb"} =>
                      x \in pending' \/ pwfile'[PwFile(dir'[x])] = x
               /\ child'[x] = "spawned" => clusters'[dir'[x]] = None
    BY <2>1, <2>2, <2>3 DEF Arriving
  <2> QED
    BY <2>1, <2>3 DEF Arriving
<1>2. ASSUME NEW v \in Values, NewError(v) PROVE Arriving'
  <2>1. faults' # {}
    BY <1>2 DEF NewError, Fault
  <2> QED
    BY <2>1 DEF Arriving
<1>3. ASSUME NEW v \in Values, Acquire(v) PROVE Arriving'
  BY <1>3 DEF TypeOK, Arriving, Acquire, Goto
<1>4. ASSUME NEW v \in Values, Create(v) PROVE Arriving'
  <2>1. ASSUME NEW x \in alone, x # v, pc[x] \in Live PROVE PwFile(dir[v]) # PwFile(dir[x])
    BY <1>4, <2>1, SoleUser DEF TypeOK, Create
  <2>2. ASSUME NEW x \in alone, x # v, pc[x] \in {"written", "initdb"}
        PROVE  pwfile'[PwFile(dir[x])] = pwfile[PwFile(dir[x])]
    <3>1. PwFile(dir[x]) \in PwFiles
      BY <2>2 DEF TypeOK, Owned, PwFiles
    <3> QED
      BY <1>4, <2>1, <2>2, <3>1 DEF TypeOK, Create, CreatePwFile
  <2>3. pc'[v] = "created" /\ \A x \in Values : x # v => pc'[x] = pc[x]
    BY <1>4 DEF TypeOK, Create, Goto
  <2> QED
    BY <1>4, <2>2, <2>3 DEF TypeOK, Arriving, Create
<1>5. ASSUME NEW v \in Values, Write(v) PROVE Arriving'
  BY <1>5 DEF TypeOK, Arriving, Write, Goto
<1>6. ASSUME NEW v \in Values, Check(v) PROVE Arriving'
  BY <1>6 DEF TypeOK, Arriving, Check, DbFilesExist, Goto
<1>7. ASSUME NEW v \in Values, GiveUp(v) PROVE Arriving'
  BY <1>7 DEF TypeOK, Owned, Arriving, GiveUp, Fault, Goto
<1>8. ASSUME NEW v \in Values, SetupError(v) PROVE Arriving'
  <2>1. faults' # {}
    BY <1>8 DEF SetupError, Fault
  <2> QED
    BY <2>1 DEF Arriving
<1>9. ASSUME NEW v \in Values, CancelCreate(v) PROVE Arriving'
  <2>1. faults' # {}
    BY <1>9 DEF CancelCreate, Fault
  <2> QED
    BY <2>1 DEF Arriving
<1>10. ASSUME NEW v \in Values, LateCreate(v) PROVE Arriving'
  <2>1. faults' = faults /\ late # {}
    BY <1>10 DEF LateCreate
  <2> QED
    BY <2>1 DEF Arriving
<1>11. ASSUME NEW v \in Values, Flush(v) PROVE Arriving'
  <2>1. PICK content \in IF pwfile[PwFile(dir[v])] \in {"empty", v} THEN {v} ELSE {v, "mixed"} :
               pwfile' = [pwfile EXCEPT ![PwFile(dir[v])] = content]
    BY <1>11 DEF Flush
  <2>2. ASSUME NEW x \in alone, pc[x] \in {"written", "initdb"},
               x \in pending \/ pwfile[PwFile(dir[x])] = x
        PROVE  x \in pending' \/ pwfile'[PwFile(dir[x])] = x
    <3>1. PwFile(dir[x]) \in PwFiles /\ pwfile[PwFile(dir[x])] \in {"empty", x}
      BY <2>2 DEF TypeOK, Owned, PwFiles, OwnFile
    <3>2. CASE x = v
      BY <2>1, <3>1, <3>2 DEF TypeOK
    <3>3. CASE x # v
      <4>1. PwFile(dir[v]) # PwFile(dir[x])
        BY <1>11, <2>2, <3>3, SoleUser DEF TypeOK, Flush
      <4> QED
        BY <1>11, <2>1, <2>2, <3>1, <3>3, <4>1 DEF TypeOK, Flush
    <3> QED
      BY <3>2, <3>3
  <2> QED
    BY <1>11, <2>2 DEF Arriving, Flush
<1>12. ASSUME NEW v \in Values, WriteLost(v) PROVE Arriving'
  <2>1. faults' # {}
    BY <1>12 DEF WriteLost, Fault
  <2> QED
    BY <2>1 DEF Arriving
<1>13. ASSUME NEW v \in Values, Drop(v) PROVE Arriving'
  <2> SUFFICES ASSUME faults' = {} PROVE Arriving'
    BY DEF Arriving
  <2>1. pc'[v] = "dropped" /\ \A x \in Values : x # v => pc'[x] = pc[x]
    BY <1>13 DEF TypeOK, Drop, Goto
  <2>2. faults = {} /\ untidy' = untidy
    BY <1>13 DEF Drop, Clean
  <2>3. \A w \in Values : child[w] # "none" => pc[w] = "initdb" /\ dir[w] # dir[v]
    BY <1>13, <2>2 DEF TypeOK, Owned, AtWork, Arriving, Drop
  <2>4. child' = child
    BY <1>13, <2>3 DEF TypeOK, Drop, Clean, Empty
  <2>5. ASSUME NEW x \in alone, child[x] = "spawned"
        PROVE  clusters'[dir[x]] = clusters[dir[x]]
    <3>1. dir[x] # dir[v] /\ dir[x] \in Directories
      BY <2>3, <2>5 DEF TypeOK, AtWork
    <3>2. clusters' = clusters \/ clusters' = [clusters EXCEPT ![dir[v]] = None]
      BY <1>13 DEF Drop, Clean, Empty
    <3> QED
      BY <3>1, <3>2 DEF TypeOK
  <2>6. ASSUME NEW x \in alone, x # v, pc[x] \in Live
        PROVE  /\ x \in pending => x \in pending'
               /\ pwfile'[PwFile(dir[x])] = pwfile[PwFile(dir[x])]
    <3>1. PwFile(dir[v]) # PwFile(dir[x])
      BY <1>13, <2>6, SoleUser DEF TypeOK, Drop
    <3>2. \/ pwfile' = pwfile /\ pending' = pending
          \/ RemovePwFile(PwFile(dir[v]))
      BY <1>13 DEF Drop, Clean
    <3>3. PwFile(dir[x]) \in PwFiles
      BY <2>6 DEF TypeOK, Owned, PwFiles
    <3> QED
      BY <3>1, <3>2, <3>3 DEF TypeOK, RemovePwFile
  <2>7. late' = late /\ alone' = alone /\ dir' = dir
    BY <1>13 DEF Drop
  <2> QED
    BY <2>1, <2>2, <2>4, <2>5, <2>6, <2>7 DEF TypeOK, Arriving
<1>14. ASSUME NEW v \in Values, InitDbBegin(v) PROVE Arriving'
  <2> SUFFICES ASSUME faults' = {} PROVE Arriving'
    BY DEF Arriving
  <2>1. faults = {} /\ v \notin pending
    BY <1>14 DEF InitDbBegin, Fault
  <2>2. \A w \in Values : child[w] # "none" => pc[w] = "initdb"
    BY <2>1 DEF AtWork, Arriving
  <2>3. ASSUME v \in alone PROVE pc' = pc /\ child'[v] = "running"
    <3>1. pwfile[PwFile(dir[v])] = v /\ clusters[dir[v]] = None
      BY <1>14, <2>1, <2>2, <2>3 DEF Arriving, InitDbBegin
    <3> QED
      BY <1>14, <3>1, ValuesAssumption DEF TypeOK, InitDbBegin
  <2>4. \A x \in Values : x # v => pc'[x] = pc[x] /\ child'[x] = child[x]
    BY <1>14 DEF TypeOK, InitDbBegin, Answer
  <2>5. ASSUME NEW x \in alone, x # v, child[x] = "spawned"
        PROVE  clusters'[dir[x]] = clusters[dir[x]]
    <3>1. dir[x] # dir[v] /\ dir[x] \in Directories
      BY <1>14, <2>2, <2>5 DEF TypeOK, Owned, AtWork, InitDbBegin
    <3> QED
      BY <1>14, <3>1 DEF TypeOK, InitDbBegin
  <2>6. child'[v] # "doomed"
    BY <1>14 DEF TypeOK, InitDbBegin
  <2>7. UNCHANGED <<dir, alone, untidy, pwfile, late, pending>>
    BY <1>14 DEF InitDbBegin
  <2> QED
    BY <2>1, <2>3, <2>4, <2>5, <2>6, <2>7 DEF TypeOK, Arriving
<1>15. ASSUME NEW v \in Values, InitDbEnd(v) PROVE Arriving'
  BY <1>15 DEF TypeOK, Owned, Arriving, InitDbEnd, Answer
<1>16. ASSUME NEW v \in Values, InitDbFail(v) PROVE Arriving'
  BY <1>16 DEF TypeOK, Owned, Arriving, InitDbFail, Fault, Answer
<1>17. ASSUME NEW v \in Values, Crash(v) PROVE Arriving'
  BY <1>17 DEF TypeOK, Owned, Arriving, Crash, Fault, Goto
<1>18. CASE UNCHANGED vars
  BY <1>18 DEF TypeOK, Arriving
<1> QED
  BY <1>1, <1>2, <1>3, <1>4, <1>5, <1>6, <1>7, <1>8, <1>9, <1>10, <1>11,
     <1>12, <1>13, <1>14, <1>15, <1>16, <1>17, <1>18 DEF Next, SetupStep, Background

\* The invariant holds from the first state on.
THEOREM Invariance == Spec => []IInv
<1>1. Init => IInv
  <2> SUFFICES ASSUME Init PROVE IInv
    OBVIOUS
  <2>1. TypeOK
    BY DEF Init, TypeOK, Contents
  <2>2. Owned /\ AtWork /\ Solitary /\ OwnFile /\ Arriving
    BY DEF Init, Owned, AtWork, Solitary, OwnFile, Arriving, Live
  <2> QED
    BY <2>1, <2>2 DEF IInv
<1>2. IInv /\ [Next]_vars => IInv'
  BY TypeStep, OwnedStep, AtWorkStep, SolitaryStep, OwnFileStep, ArrivingStep DEF IInv
<1> QED
  BY <1>1, <1>2, PTL DEF Spec

(***************************************************************************)
(* The properties.                                                         *)
(***************************************************************************)

\* The files, the cache and the values are well formed for any values.
THEOREM TypeCorrect == Spec => []TypeOK
<1>1. IInv => TypeOK
  BY DEF IInv
<1> QED
  BY <1>1, Invariance, PTL

\* An undisturbed setup succeeds, for any number of other values.
THEOREM SetupDoesSucceed == Spec => []SetupSucceeds
<1>1. IInv => SetupSucceeds
  BY DEF IInv, Arriving, SetupSucceeds
<1> QED
  BY <1>1, Invariance, PTL

\* No cluster gets the password of another value, unless they share the file.
THEOREM PasswordIsOwn == Spec => OwnPassword
<1>1. IInv /\ [Next]_vars =>
         [\A v \in alone :
              pc[v] = "initdb" /\ clusters'[dir[v]] \notin {clusters[dir[v]], None} =>
                  clusters'[dir[v]] = v]_vars
  <2> SUFFICES ASSUME IInv, Next, NEW x \in alone, pc[x] = "initdb",
                      clusters'[dir[x]] \notin {clusters[dir[x]], None}
               PROVE  clusters'[dir[x]] = x
    OBVIOUS
  <2>1. x \in Values /\ dir[x] \in Directories
    BY DEF IInv, TypeOK, Owned, Live
  <2>2. PICK v \in Values : InitDbBegin(v) \/ InitDbFail(v) \/ Drop(v)
    BY DEF Next, SetupStep, Background, New, NewError, Acquire, Create, Write,
           Check, GiveUp, SetupError, CancelCreate, LateCreate, Flush,
           WriteLost, InitDbEnd, Crash, files, db
  <2>3. CASE InitDbBegin(v)
    <3>1. /\ dir[v] = dir[x] /\ clusters'[dir[x]] = pwfile[PwFile(dir[v])]
          /\ pwfile[PwFile(dir[v])] # "empty"
      BY <2>1, <2>3 DEF IInv, TypeOK, InitDbBegin
    <3> QED
      BY <3>1 DEF IInv, OwnFile
  <2>4. CASE InitDbFail(v) \/ Drop(v)
    <3>1. clusters' = clusters \/ clusters' = [clusters EXCEPT ![dir[v]] = None]
      BY <2>4 DEF InitDbFail, Drop, Clean, Empty, db
    <3> QED
      BY <2>1, <3>1 DEF IInv, TypeOK
  <2> QED
    BY <2>2, <2>3, <2>4
<1> QED
  BY <1>1, Invariance, PTL DEF Spec, OwnPassword

\* Only a pending write brings a password into a file, and it goes with the file.
LEMMA SecretStep ==
    ASSUME TypeOK, Owned, SecretGone, [Next]_vars
    PROVE  SecretGone'
<1> USE ValuesAssumption DEF vars, files, db, Live
<1>1. ASSUME NEW v \in Values, NEW d \in Directories, NEW s \in Settings, New(v, d, s)
      PROVE  SecretGone'
  BY <1>1 DEF TypeOK, Owned, SecretGone, New, Goto
<1>2. ASSUME NEW v \in Values, NewError(v) PROVE SecretGone'
  BY <1>2 DEF TypeOK, Owned, SecretGone, NewError, Fault, Goto
<1>3. ASSUME NEW v \in Values, Acquire(v) PROVE SecretGone'
  BY <1>3 DEF TypeOK, Owned, SecretGone, Acquire, Goto
<1>4. ASSUME NEW v \in Values, Create(v) PROVE SecretGone'
  BY <1>4 DEF TypeOK, Owned, SecretGone, Create, CreatePwFile, Goto
<1>5. ASSUME NEW v \in Values, Write(v) PROVE SecretGone'
  BY <1>5 DEF TypeOK, Owned, SecretGone, Write, Goto
<1>6. ASSUME NEW v \in Values, Check(v) PROVE SecretGone'
  BY <1>6 DEF TypeOK, Owned, SecretGone, Check, DbFilesExist, Goto
<1>7. ASSUME NEW v \in Values, GiveUp(v) PROVE SecretGone'
  BY <1>7 DEF TypeOK, Owned, SecretGone, GiveUp, Fault, Goto
<1>8. ASSUME NEW v \in Values, SetupError(v) PROVE SecretGone'
  BY <1>8 DEF TypeOK, Owned, SecretGone, SetupError, Fault, Goto
<1>9. ASSUME NEW v \in Values, CancelCreate(v) PROVE SecretGone'
  BY <1>9 DEF TypeOK, Owned, SecretGone, CancelCreate, Fault, Goto
<1>10. ASSUME NEW v \in Values, LateCreate(v) PROVE SecretGone'
  BY <1>10 DEF TypeOK, Owned, SecretGone, LateCreate, CreatePwFile
<1>11. ASSUME NEW v \in Values, Flush(v) PROVE SecretGone'
  BY <1>11 DEF TypeOK, Owned, SecretGone, Flush
<1>12. ASSUME NEW v \in Values, WriteLost(v) PROVE SecretGone'
  BY <1>12 DEF TypeOK, Owned, SecretGone, WriteLost, Fault
<1>13. ASSUME NEW v \in Values, Drop(v) PROVE SecretGone'
  <2> SUFFICES ASSUME faults' \intersect {"clean_pw", "crash"} = {}, NEW x \in Values, x \notin kept,
                      pc'[x] = "dropped", dir[x] # None
               PROVE  pwfile'[PwFile(dir[x])] # x /\ x \notin pending'
    BY <1>13 DEF SecretGone, Drop
  <2>1. faults \subseteq faults' /\ pending' \subseteq pending
    BY <1>13 DEF Drop, Clean, RemovePwFile
  <2>2. CASE x = v
    <3>1. RemovePwFile(PwFile(dir[v]))
      BY <1>13, <2>2 DEF Drop, Clean
    <3>2. dir[v] \in Directories /\ PwFile(dir[v]) \in PwFiles
      BY <1>13 DEF TypeOK, Owned, Drop, PwFiles
    <3> QED
      BY <2>2, <3>1, <3>2, ValuesAssumption DEF TypeOK, RemovePwFile
  <2>3. CASE x # v
    <3>1. pwfile[PwFile(dir[x])] # x /\ x \notin pending
      BY <1>13, <2>1, <2>3 DEF TypeOK, SecretGone, Drop, Goto
    <3>2. PwFile(dir[x]) \in PwFiles
      BY DEF TypeOK, PwFiles
    <3>3. \/ pwfile' = pwfile
          \/ pwfile' = [pwfile EXCEPT ![PwFile(dir[v])] = "absent"]
      BY <1>13 DEF Drop, Clean, RemovePwFile
    <3> QED
      BY <2>1, <3>1, <3>2, <3>3, ValuesAssumption DEF TypeOK
  <2> QED
    BY <2>2, <2>3
<1>14. ASSUME NEW v \in Values, InitDbBegin(v) PROVE SecretGone'
  BY <1>14 DEF TypeOK, Owned, SecretGone, InitDbBegin, Fault, Answer
<1>15. ASSUME NEW v \in Values, InitDbEnd(v) PROVE SecretGone'
  BY <1>15 DEF TypeOK, Owned, SecretGone, InitDbEnd, Answer
<1>16. ASSUME NEW v \in Values, InitDbFail(v) PROVE SecretGone'
  BY <1>16 DEF TypeOK, Owned, SecretGone, InitDbFail, Fault, Answer
<1>17. ASSUME NEW v \in Values, Crash(v) PROVE SecretGone'
  BY <1>17 DEF TypeOK, Owned, SecretGone, Crash, Fault, Goto
<1>18. CASE UNCHANGED vars
  BY <1>18 DEF TypeOK, Owned, SecretGone
<1> QED
  BY <1>1, <1>2, <1>3, <1>4, <1>5, <1>6, <1>7, <1>8, <1>9, <1>10, <1>11,
     <1>12, <1>13, <1>14, <1>15, <1>16, <1>17, <1>18 DEF Next, SetupStep, Background

\* The password of a value that is not persistent does not outlive it.
THEOREM SecretIsGone == Spec => []SecretGone
<1>1. Init => SecretGone
  BY DEF Init, SecretGone
<1>2. IInv /\ SecretGone /\ [Next]_vars => SecretGone'
  BY SecretStep DEF IInv
<1> QED
  BY <1>1, <1>2, Invariance, PTL DEF Spec

(***************************************************************************)
(* The password of a cluster and the password in the URI.                  *)
(***************************************************************************)

\* A value has a cluster when it is set up, or while its initdb makes it.
Has(v) == pc[v] = "ready" \/ (pc[v] = "initdb" /\ child[v] = "running")

\* Steps that touch no cluster and give none to a value.
Bystanding ==
    /\ clusters' = clusters /\ kept \subseteq kept' /\ untidy \subseteq untidy'
    /\ \A u \in Values : /\ Has(u)' => Has(u)
                         /\ Has(u) => Has(u)' \/ u \in untidy'
                         /\ pc[u] = "dropped" => pc'[u] = "dropped"
                         /\ dir[u] # None => dir'[u] = dir[u]
                         /\ Has(u) /\ u \in alone' => u \in alone

\* The steps that are not.
Handling(v) == Check(v) \/ InitDbBegin(v) \/ InitDbFail(v) \/ Drop(v)

\* All steps but the check for a cluster, the start and the failure of an initdb
\* and the drop only stand by.
LEMMA BystandingStep ==
    ASSUME TypeOK, Owned, AtWork, [Next]_vars
    PROVE  Bystanding \/ \E v \in Values : Handling(v)
<1> USE DEF vars, files, db, Live
<1>1. ASSUME NEW v \in Values, NEW d \in Directories, NEW s \in Settings, New(v, d, s)
      PROVE  Bystanding
  BY <1>1 DEF TypeOK, Owned, AtWork, Bystanding, Has, New, Goto
<1>2. ASSUME NEW v \in Values, NewError(v) PROVE Bystanding
  BY <1>2 DEF TypeOK, Owned, AtWork, Bystanding, Has, NewError, Fault, Goto
<1>3. ASSUME NEW v \in Values, Acquire(v) PROVE Bystanding
  BY <1>3 DEF TypeOK, Owned, AtWork, Bystanding, Has, Acquire, Goto
<1>4. ASSUME NEW v \in Values, Create(v) PROVE Bystanding
  BY <1>4 DEF TypeOK, Owned, AtWork, Bystanding, Has, Create, Goto
<1>5. ASSUME NEW v \in Values, Write(v) PROVE Bystanding
  BY <1>5 DEF TypeOK, Owned, AtWork, Bystanding, Has, Write, Goto
<1>6. ASSUME NEW v \in Values, GiveUp(v) PROVE Bystanding
  BY <1>6 DEF TypeOK, Owned, AtWork, Bystanding, Has, GiveUp, Fault, Goto
<1>7. ASSUME NEW v \in Values, SetupError(v) PROVE Bystanding
  BY <1>7 DEF TypeOK, Owned, AtWork, Bystanding, Has, SetupError, Fault, Goto
<1>8. ASSUME NEW v \in Values, CancelCreate(v) PROVE Bystanding
  BY <1>8 DEF TypeOK, Owned, AtWork, Bystanding, Has, CancelCreate, Fault, Goto
<1>9. ASSUME NEW v \in Values, LateCreate(v) PROVE Bystanding
  BY <1>9 DEF TypeOK, Owned, AtWork, Bystanding, Has, LateCreate
<1>10. ASSUME NEW v \in Values, Flush(v) PROVE Bystanding
  BY <1>10 DEF TypeOK, Owned, AtWork, Bystanding, Has, Flush
<1>11. ASSUME NEW v \in Values, WriteLost(v) PROVE Bystanding
  BY <1>11 DEF TypeOK, Owned, AtWork, Bystanding, Has, WriteLost
<1>12. ASSUME NEW v \in Values, InitDbEnd(v) PROVE Bystanding
  BY <1>12 DEF TypeOK, Owned, AtWork, Bystanding, Has, InitDbEnd, Answer
<1>13. ASSUME NEW v \in Values, Crash(v) PROVE Bystanding
  BY <1>13 DEF TypeOK, Owned, AtWork, Bystanding, Has, Crash, Fault, Goto
<1>14. CASE UNCHANGED vars
  BY <1>14 DEF TypeOK, Bystanding, Has
<1> QED
  BY <1>1, <1>2, <1>3, <1>4, <1>5, <1>6, <1>7, <1>8, <1>9, <1>10, <1>11,
     <1>12, <1>13, <1>14 DEF Next, SetupStep, Background, Handling

\* A cluster has somebody to answer for it: the value that has it, a persistent
\* value that left it, or one that may have left it against its will.
Answers(u, d) ==
    /\ dir[u] = d
    /\ Has(u) \/ (u \in kept /\ pc[u] = "dropped") \/ u \in untidy

Answered == \A d \in Directories :
    clusters[d] # None => \E u \in Values : Answers(u, d)

\* Only initdb makes a cluster, for the value that waits for it or gave it up;
\* the drop removes the cluster or leaves it to be answered for.
LEMMA AnsweredStep ==
    ASSUME TypeOK, Owned, AtWork, Answered, [Next]_vars
    PROVE  Answered'
<1> USE DEF Live
<1>1. CASE Bystanding
  <2> SUFFICES ASSUME NEW d \in Directories, clusters'[d] # None
               PROVE  \E u \in Values : Answers(u, d)'
    BY DEF Answered
  <2>1. PICK u \in Values : Answers(u, d)
    BY <1>1 DEF Answered, Bystanding
  <2>2. dir'[u] = d
    BY <1>1, <2>1, NoneAssumption DEF Answers, Bystanding
  <2> QED
    BY <1>1, <2>1, <2>2 DEF Answers, Bystanding
<1>2. ASSUME NEW v \in Values, Check(v) PROVE Answered'
  <2>1. \A u \in Values, d \in Directories : Answers(u, d) => Answers(u, d)'
    BY <1>2 DEF TypeOK, AtWork, Answers, Has, Check, Goto, files
  <2> QED
    BY <1>2, <2>1 DEF Answered, Check
<1>3. ASSUME NEW v \in Values, InitDbBegin(v) PROVE Answered'
  <2>1. \A u \in Values, d \in Directories : Answers(u, d) => Answers(u, d)'
    BY <1>3 DEF TypeOK, Answers, Has, InitDbBegin, Answer
  <2>2. ASSUME NEW d \in Directories, clusters'[d] # clusters[d]
        PROVE  Answers(v, d)'
    <3>1. /\ child' = [child EXCEPT ![v] = "running"] /\ d = dir[v]
          /\ UNCHANGED <<pc, dir, untidy>>
      BY <1>3, <2>2 DEF TypeOK, InitDbBegin
    <3> QED
      BY <1>3, <3>1 DEF TypeOK, AtWork, Answers, Has, InitDbBegin
  <2> QED
    BY <2>1, <2>2 DEF Answered
<1>4. ASSUME NEW v \in Values, InitDbFail(v) PROVE Answered'
  <2>1. ASSUME NEW u \in Values, NEW d \in Directories, d # dir[v], Answers(u, d)
        PROVE  Answers(u, d)'
    BY <1>4, <2>1 DEF TypeOK, Answers, Has, InitDbFail, Answer
  <2>2. ASSUME NEW d \in Directories, clusters'[d] # None
        PROVE  d # dir[v] /\ clusters[d] # None
    BY <1>4, <2>2 DEF TypeOK, InitDbFail
  <2> QED
    BY <2>1, <2>2 DEF Answered
<1>5. ASSUME NEW v \in Values, Drop(v) PROVE Answered'
  <2> SUFFICES ASSUME NEW d \in Directories, clusters'[d] # None
               PROVE  \E u \in Values : Answers(u, d)'
    BY DEF Answered
  <2>1. /\ clusters[d] # None /\ untidy \subseteq untidy'
        /\ d = dir[v] => v \in kept \union untidy'
    BY <1>5 DEF TypeOK, Drop, Clean, Empty, db
  <2>2. pc' = [pc EXCEPT ![v] = "dropped"] /\ dir' = dir /\ kept' = kept
    BY <1>5 DEF Drop, Goto
  <2>3. PICK u \in Values : Answers(u, d)
    BY <2>1 DEF Answered
  <2>4. CASE u = v
    BY <2>1, <2>2, <2>3, <2>4 DEF TypeOK, Answers
  <2>5. CASE u # v /\ ~Has(u)
    BY <2>1, <2>2, <2>3, <2>5 DEF TypeOK, Answers
  <2>6. CASE u # v /\ Has(u)
    <3>1. dir[u] # dir[v] /\ pc'[u] = pc[u]
      BY <1>5, <2>2, <2>6 DEF TypeOK, Owned, Has, Drop
    <3>2. child'[u] = child[u]
      BY <1>5, <3>1 DEF TypeOK, Drop, Clean, Empty, db
    <3> QED
      BY <2>2, <2>3, <2>6, <3>1, <3>2 DEF Answers, Has
  <2> QED
    BY <2>4, <2>5, <2>6
<1> QED
  BY <1>1, <1>2, <1>3, <1>4, <1>5, BystandingStep DEF Handling

\* Nobody else has left anything in the directory of v.
Undisturbed(v) == \A w \in (kept \union untidy) \ {v} : dir[w] # dir[v]

\* The property, from the moment on when initdb has read the password.
Matching == \A v \in alone : Has(v) /\ Undisturbed(v) => clusters[dir[v]] = v

\* Who gets a cluster finds none, or one that another value answers for; and
\* nobody else works on the directory of a value that has one.
LEMMA MatchingStep ==
    ASSUME IInv, Answered, Matching, [Next]_vars
    PROVE  Matching'
<1> SUFFICES ASSUME NEW x \in alone', Has(x)', Undisturbed(x)'
             PROVE  clusters'[dir'[x]] = x
  BY DEF Matching
<1> USE DEF Live
<1>1. CASE Bystanding
  <2>1. x \in Values /\ Has(x) /\ x \in alone
    BY <1>1, TypeStep DEF IInv, TypeOK, Bystanding
  <2>2. dir'[x] = dir[x] /\ dir[x] # None
    BY <1>1, <2>1 DEF IInv, Owned, Has, Bystanding
  <2>3. ASSUME NEW w \in (kept \union untidy) \ {x} PROVE dir[w] # dir[x]
    BY <1>1, <2>2, <2>3 DEF IInv, TypeOK, Bystanding, Undisturbed
  <2> QED
    BY <1>1, <2>1, <2>2, <2>3 DEF Matching, Bystanding, Undisturbed
<1>2. ASSUME NEW v \in Values, Handling(v)
      PROVE  clusters'[dir'[x]] = x
  <2>1. /\ dir' = dir /\ alone' = alone /\ kept' = kept
        /\ untidy \subseteq untidy'
    BY <1>2 DEF Handling, Check, InitDbBegin, InitDbFail, Drop, Clean, db
  <2>2. x \in Values /\ x \in alone /\ dir[x] \in Directories
    BY <2>1 DEF IInv, TypeOK, Solitary
  <2>3. Undisturbed(x)
    BY <2>1 DEF Undisturbed
  <2>4. ASSUME NEW w \in Values, w # x, pc[x] \in Live, dir[w] = dir[x]
        PROVE  pc[w] \notin Live /\ child[w] = "none" /\ w \notin kept \union untidy
    BY <2>2, <2>3, <2>4 DEF IInv, TypeOK, Owned, AtWork, Undisturbed
  <2>5. CASE Check(v)
    <3>1. CASE x # v
      BY <2>1, <2>2, <2>3, <2>5, <3>1
         DEF IInv, TypeOK, Check, Goto, Has, Matching
    <3>2. CASE x = v
      <4>1. pc[x] = "written" /\ clusters[dir[x]] # None
        BY <2>2, <2>5, <3>2 DEF IInv, TypeOK, Check, DbFilesExist, Goto, Has
      <4>2. PICK u \in Values : Answers(u, dir[x])
        BY <2>2, <4>1 DEF Answered
      <4>3. u = x
        BY <2>4, <4>1, <4>2 DEF Answers, Has
      <4> QED
        BY <4>1, <4>2, <4>3 DEF IInv, AtWork, Answers, Has
    <3> QED
      BY <3>1, <3>2
  <2>6. CASE InitDbBegin(v)
    <3>1. pc[x] \in {"ready", "initdb"}
      BY <2>2, <2>6 DEF IInv, TypeOK, InitDbBegin, Answer, Has
    <3>2. CASE x # v
      <4>1. Has(x)
        BY <2>2, <2>6, <3>2 DEF IInv, TypeOK, InitDbBegin, Answer, Has
      <4>2. dir[v] # dir[x]
        BY <2>4, <2>6, <3>1, <3>2 DEF InitDbBegin
      <4>3. clusters'[dir[x]] = clusters[dir[x]]
        BY <2>2, <2>6, <4>2 DEF IInv, TypeOK, InitDbBegin
      <4> QED
        BY <2>1, <2>2, <2>3, <4>1, <4>3 DEF Matching
    <3>3. CASE x = v
      <4>1. pc[x] = "initdb"
        BY <2>2, <2>6, <3>1, <3>3 DEF IInv, AtWork, InitDbBegin
      <4>2. child'[x] = "running"
        BY <2>2, <2>6, <3>3, <4>1 DEF IInv, TypeOK, InitDbBegin, Answer, Has
      <4>3. /\ clusters'[dir[x]] = pwfile[PwFile(dir[x])]
            /\ pwfile[PwFile(dir[x])] # "empty"
        BY <2>2, <2>6, <3>3, <4>2 DEF IInv, TypeOK, InitDbBegin
      <4> QED
        BY <2>1, <2>2, <4>1, <4>3 DEF IInv, OwnFile
    <3> QED
      BY <3>2, <3>3
  <2>7. CASE InitDbFail(v)
    <3>1. x # v /\ Has(x)
      BY <2>2, <2>7 DEF IInv, TypeOK, AtWork, InitDbFail, Answer, Has
    <3>2. dir[v] # dir[x]
      BY <2>4, <2>7, <3>1 DEF InitDbFail, Has
    <3>3. clusters'[dir[x]] = clusters[dir[x]]
      BY <2>2, <2>7, <3>2 DEF IInv, TypeOK, InitDbFail
    <3> QED
      BY <2>1, <2>2, <2>3, <3>1, <3>3 DEF Matching
  <2>8. CASE Drop(v)
    <3>1. x # v /\ pc'[x] = pc[x]
      BY <2>2, <2>8 DEF IInv, TypeOK, Drop, Goto, Has
    <3>2. child'[x] = "running" => child[x] = "running"
      BY <2>2, <2>8 DEF IInv, TypeOK, Drop, Clean, Empty, db
    <3>3. Has(x)
      BY <3>1, <3>2 DEF Has
    <3>4. dir[v] # dir[x]
      BY <2>4, <2>8, <3>1, <3>3 DEF Drop, Has
    <3>5. clusters'[dir[x]] = clusters[dir[x]]
      BY <2>2, <2>8, <3>4 DEF IInv, TypeOK, Drop, Clean, Empty, db
    <3> QED
      BY <2>1, <2>2, <2>3, <3>3, <3>5 DEF Matching
  <2> QED
    BY <1>2, <2>5, <2>6, <2>7, <2>8 DEF Handling
<1> QED
  BY <1>1, <1>2, BystandingStep DEF IInv

\* The URI of a value opens the cluster it was set up on, unless a value before
\* it was persistent or left an initdb or the directory behind.
THEOREM PasswordDoesFit == Spec => []PasswordFits
<1>1. Init => Answered /\ Matching
  BY DEF Init, Answered, Matching
<1>2. IInv /\ Answered /\ Matching /\ [Next]_vars => Answered' /\ Matching'
  BY AnsweredStep, MatchingStep DEF IInv
<1>3. Matching => PasswordFits
  BY DEF Matching, PasswordFits, Has, Undisturbed
<1> QED
  BY <1>1, <1>2, <1>3, Invariance, PTL DEF Spec

(***************************************************************************)
(* The cache of binaries.                                                  *)
(***************************************************************************)

\* Settings with one cache directory name one platform and one version.
LEMMA CacheDirFits ==
    ASSUME NEW s, NEW t, CacheDir(s) = CacheDir(t)
    PROVE  Platform(s) = Platform(t) /\ s.version = t.version
<1>1. /\ OsName(s.operating_system) = OsName(t.operating_system)
      /\ ArchName(s.architecture) = ArchName(t.architecture)
      /\ s.version = t.version
      /\ (IF s.operating_system = "AlpineLinux" THEN "arch_" ELSE "")
            = (IF t.operating_system = "AlpineLinux" THEN "arch_" ELSE "")
  BY DEF CacheDir
<1>2. s.operating_system = "AlpineLinux" <=> t.operating_system = "AlpineLinux"
  BY <1>1
<1> QED
  BY <1>1, <1>2 DEF Platform

\* What is in a cache directory was downloaded for it.
Labelled == \A c \in CacheDirs : packages[c] # None =>
    \E s \in Settings : CacheDir(s) = c /\ packages[c] = Artifact(s)

\* What a value has acquired stays.
Stocked == \A v \in Values :
    pc[v] \in {"acquired", "created", "written", "initdb", "ready"} =>
        packages[CacheDir(fetch[v])] # None

\* Only an acquisition changes the cache, and only where it was empty.
LEMMA CacheStep ==
    ASSUME TypeOK, Owned, Labelled, Stocked, [Next]_vars
    PROVE  Labelled' /\ Stocked'
<1> USE DEF vars, files, db, Live
<1>1. ASSUME NEW v \in Values, NEW d \in Directories, NEW s \in Settings, New(v, d, s)
      PROVE  Labelled' /\ Stocked'
  BY <1>1 DEF TypeOK, Labelled, Stocked, New, Goto
<1>2. ASSUME NEW v \in Values, NewError(v) PROVE Labelled' /\ Stocked'
  BY <1>2 DEF TypeOK, Labelled, Stocked, NewError, Fault, Goto
<1>3. ASSUME NEW v \in Values, Acquire(v) PROVE Labelled' /\ Stocked'
  <2>1. fetch[v] \in Settings /\ CacheDir(fetch[v]) \in CacheDirs
    BY <1>3 DEF TypeOK, Owned, Acquire, CacheDirs
  <2>2. None # Artifact(fetch[v])
    BY <2>1, NoneAssumption
  <2>3. packages'[CacheDir(fetch[v])] # None
    BY <1>3, <2>1, <2>2 DEF TypeOK, Acquire
  <2>4. \A c \in CacheDirs : packages[c] # None => packages'[c] = packages[c]
    BY <1>3, <2>1 DEF TypeOK, Acquire
  <2>5. \A c \in CacheDirs :
            \/ packages'[c] = packages[c]
            \/ c = CacheDir(fetch[v]) /\ packages'[c] = Artifact(fetch[v])
    BY <1>3, <2>1 DEF TypeOK, Acquire
  <2>6. Labelled'
    BY <2>1, <2>5 DEF Labelled
  <2>7. Stocked'
    <3> SUFFICES ASSUME NEW x \in Values,
                        pc'[x] \in {"acquired", "created", "written", "initdb", "ready"}
                 PROVE  packages'[CacheDir(fetch[x])] # None
      BY <1>3 DEF Stocked, Acquire
    <3>1. CASE x = v
      BY <2>3, <3>1
    <3>2. CASE x # v
      <4>1. pc'[x] = pc[x]
        BY <1>3, <3>2 DEF TypeOK, Acquire, Goto
      <4>2. CacheDir(fetch[x]) \in CacheDirs
        BY <4>1 DEF TypeOK, Owned, CacheDirs
      <4> QED
        BY <2>4, <4>1, <4>2 DEF Stocked
    <3> QED
      BY <3>1, <3>2
  <2> QED
    BY <2>6, <2>7
<1>4. ASSUME NEW v \in Values, Create(v) PROVE Labelled' /\ Stocked'
  BY <1>4 DEF TypeOK, Labelled, Stocked, Create, CreatePwFile, Goto
<1>5. ASSUME NEW v \in Values, Write(v) PROVE Labelled' /\ Stocked'
  BY <1>5 DEF TypeOK, Labelled, Stocked, Write, Goto
<1>6. ASSUME NEW v \in Values, Check(v) PROVE Labelled' /\ Stocked'
  BY <1>6 DEF TypeOK, Labelled, Stocked, Check, DbFilesExist, Goto
<1>7. ASSUME NEW v \in Values, GiveUp(v) PROVE Labelled' /\ Stocked'
  BY <1>7 DEF TypeOK, Labelled, Stocked, GiveUp, Fault, Goto
<1>8. ASSUME NEW v \in Values, SetupError(v) PROVE Labelled' /\ Stocked'
  BY <1>8 DEF TypeOK, Labelled, Stocked, SetupError, Fault, Goto
<1>9. ASSUME NEW v \in Values, CancelCreate(v) PROVE Labelled' /\ Stocked'
  BY <1>9 DEF TypeOK, Labelled, Stocked, CancelCreate, Fault, Goto
<1>10. ASSUME NEW v \in Values, LateCreate(v) PROVE Labelled' /\ Stocked'
  BY <1>10 DEF TypeOK, Labelled, Stocked, LateCreate, CreatePwFile
<1>11. ASSUME NEW v \in Values, Flush(v) PROVE Labelled' /\ Stocked'
  BY <1>11 DEF TypeOK, Labelled, Stocked, Flush
<1>12. ASSUME NEW v \in Values, WriteLost(v) PROVE Labelled' /\ Stocked'
  BY <1>12 DEF TypeOK, Labelled, Stocked, WriteLost, Fault
<1>13. ASSUME NEW v \in Values, Drop(v) PROVE Labelled' /\ Stocked'
  BY <1>13 DEF TypeOK, Labelled, Stocked, Drop, Clean, RemovePwFile, Goto
<1>14. ASSUME NEW v \in Values, InitDbBegin(v) PROVE Labelled' /\ Stocked'
  BY <1>14 DEF TypeOK, Labelled, Stocked, InitDbBegin, Fault, Answer
<1>15. ASSUME NEW v \in Values, InitDbEnd(v) PROVE Labelled' /\ Stocked'
  BY <1>15 DEF TypeOK, Labelled, Stocked, InitDbEnd, Answer
<1>16. ASSUME NEW v \in Values, InitDbFail(v) PROVE Labelled' /\ Stocked'
  BY <1>16 DEF TypeOK, Labelled, Stocked, InitDbFail, Fault, Answer
<1>17. ASSUME NEW v \in Values, Crash(v) PROVE Labelled' /\ Stocked'
  BY <1>17 DEF TypeOK, Labelled, Stocked, Crash, Fault, Goto
<1>18. CASE UNCHANGED vars
  BY <1>18 DEF TypeOK, Labelled, Stocked
<1> QED
  BY <1>1, <1>2, <1>3, <1>4, <1>5, <1>6, <1>7, <1>8, <1>9, <1>10, <1>11,
     <1>12, <1>13, <1>14, <1>15, <1>16, <1>17, <1>18 DEF Next, SetupStep, Background

\* Whatever settings the values have: nobody runs binaries of another platform
\* or version.
THEOREM PackageDoesFit == Spec => []PackageFits
<1>1. Init => Labelled /\ Stocked
  BY DEF Init, Labelled, Stocked
<1>2. IInv /\ Labelled /\ Stocked /\ [Next]_vars => Labelled' /\ Stocked'
  BY CacheStep DEF IInv
<1>3. IInv /\ Labelled /\ Stocked => PackageFits
  <2> SUFFICES ASSUME IInv, Labelled, Stocked, NEW v \in Values,
                      pc[v] \in {"acquired", "created", "written", "initdb", "ready"}
               PROVE  /\ packages[CacheDir(fetch[v])] # None
                      /\ packages[CacheDir(fetch[v])].platform = Platform(fetch[v])
                      /\ packages[CacheDir(fetch[v])].version = fetch[v].version
    BY DEF PackageFits
  <2>1. CacheDir(fetch[v]) \in CacheDirs /\ packages[CacheDir(fetch[v])] # None
    BY DEF IInv, TypeOK, Owned, Live, CacheDirs, Stocked
  <2>2. PICK s \in Settings : /\ CacheDir(s) = CacheDir(fetch[v])
                              /\ packages[CacheDir(fetch[v])] = Artifact(s)
    BY <2>1 DEF Labelled
  <2>3. Platform(s) = Platform(fetch[v]) /\ s.version = fetch[v].version
    BY <2>2, CacheDirFits
  <2>4. Artifact(s).platform = Platform(s) /\ Artifact(s).version = s.version
    BY DEF Artifact
  <2> QED
    BY <2>1, <2>2, <2>3, <2>4
<1> QED
  BY <1>1, <1>2, <1>3, Invariance, PTL DEF Spec

=============================================================================
