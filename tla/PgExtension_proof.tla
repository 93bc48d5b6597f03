-------------------------- MODULE PgExtension_proof --------------------------
(***************************************************************************)
(* Proofs about PgExtension for any installs, builds, entries and faults:  *)
(* type correctness, and what an install that succeeds has installed.      *)
(***************************************************************************)
EXTENDS PgExtension, TLAPS

\* The course of an install: a copy belongs to one that runs or was cancelled,
\* and writes one of its own files; what is over stays over.
Courses ==
    /\ \A j \in Installers : copying[j] # None => pc[j] \in {"entries", "cancelled"}
    /\ \A j \in stale : pc[j] # "idle"
    /\ \A i \in Installers : \A j \in before[i] : Over(j)
    /\ \A j \in Installers : pc[j] = "entries" /\ copying[j] # None =>
           \E e \in Wanted : copying[j] = <<Destination(j, e), e>>

\* Without a misplaced install the only share directory is the package's own.
InPlace ==
    ~Misplaced =>
        /\ tree \intersect Layouts \subseteq {layout}
        /\ \A j \in Installers :
               pc[j] \in {"lib", "share_dir", "read_dir", "entries"} =>
                   ShareDir(j) = layout

\* Nothing has spoiled what i installs.
Unspoilt(i) ==
    i \notin stale /\ ~Misplaced /\ \A j \in Installers \ {i} : Harmless(j, i)

\* A file is of i's build, and whole or about to be.
Good(i, p) ==
    /\ file[p].by = {build[i]}
    /\ file[p].whole \/ \E j \in intact : copying[j] = p

\* What i has copied, and what it copies, is good.
Kept ==
    \A i \in Installers : pc[i] \in {"entries", "ok"} /\ Unspoilt(i) =>
        /\ \A e \in Wanted \ todo[i] : Good(i, Place(e))
        /\ copying[i] # None => Good(i, copying[i])

IInv == TypeOK /\ Courses /\ InPlace /\ Kept

(***************************************************************************)
(* Type correctness.                                                       *)
(***************************************************************************)

\* The two places an extension's scripts may have.
LEMMA CandidatesAre ==
    /\ DOMAIN Candidates = {1, 2} /\ Len(Candidates) = 2
    /\ \A n \in DOMAIN Candidates : Candidates[n] \in Layouts
BY DEF Candidates, Layouts

\* A file is copied to one of the paths the specification knows.
LEMMA DestinationIsPath ==
    ASSUME NEW i \in Installers, NEW e \in Wanted, share[i] \in DOMAIN Candidates
    PROVE  <<Destination(i, e), e>> \in Paths /\ <<Destination(i, e), e>> # None
BY CandidatesAre, NoneAssumption
   DEF Destination, Paths, Libraries, Wanted, ShareDir

\* The initial state has its types.
LEMMA TypeInit == Init => TypeOK
<1> SUFFICES ASSUME Init PROVE TypeOK
  OBVIOUS
<1>1. share \in [Installers -> DOMAIN Candidates]
  BY CandidatesAre DEF Init
<1>2. file \in [Paths -> [by : SUBSET Builds, whole : BOOLEAN]]
  BY DEF Init, Absent
<1>3. /\ pc \in [Installers -> Running \union Outcomes \union {"idle"}]
      /\ todo \in [Installers -> SUBSET Entries]
      /\ copying \in [Installers -> Paths \union {None}]
      /\ before \in [Installers -> SUBSET Installers]
      /\ \A i \in Installers : pc[i] = "ok" => todo[i] = {} /\ copying[i] = None
  BY DEF Init
<1> QED
  BY <1>1, <1>2, <1>3 DEF Init, TypeOK

\* Every step keeps the types.
LEMMA TypeStep ==
    ASSUME TypeOK, [Next]_vars
    PROVE  TypeOK'
<1> USE DEF vars, cache, calls, files, history, Running, Outcomes, Failures
<1>1. ASSUME Unpack PROVE TypeOK'
  BY <1>1 DEF TypeOK, Unpack
<1>2. ASSUME Purge PROVE TypeOK'
  BY <1>2 DEF TypeOK, Purge, Fault, Absent
<1>3. ASSUME NEW i \in Installers, Begin(i) PROVE TypeOK'
  BY <1>3 DEF TypeOK, Begin, Goto
<1>4. ASSUME NEW i \in Installers, ShareExtensionDir(i) PROVE TypeOK'
  <2>1. share' \in [Installers -> DOMAIN Candidates]
    BY <1>4, CandidatesAre DEF TypeOK, ShareExtensionDir
  <2>2. /\ pc' \in [Installers -> Running \union Outcomes \union {"idle"}]
        /\ faults' \subseteq Faults /\ missed' \in BOOLEAN
    BY <1>4 DEF TypeOK, ShareExtensionDir, Fault, Goto
  <2>3. \A j \in Installers : /\ pc'[j] = "ok" => pc[j] = "ok"
                              /\ pc[j] = "cancelled" => pc'[j] = "cancelled"
    BY <1>4 DEF TypeOK, ShareExtensionDir, Goto
  <2> QED
    BY <1>4, <2>1, <2>2, <2>3 DEF TypeOK, ShareExtensionDir
<1>5. ASSUME NEW i \in Installers, CreateDirs(i) PROVE TypeOK'
  <2>1. ShareDir(i) \in Layouts
    BY CandidatesAre DEF TypeOK, ShareDir
  <2> QED
    BY <1>5, <2>1 DEF TypeOK, CreateDirs, Goto
<1>6. ASSUME NEW i \in Installers, ReadDir(i) PROVE TypeOK'
  BY <1>6 DEF TypeOK, ReadDir, Goto
<1>7. ASSUME NEW i \in Installers, InstallError(i) PROVE TypeOK'
  BY <1>7 DEF TypeOK, InstallError, Fault, Goto
<1>8. ASSUME NEW i \in Installers, Skip(i) PROVE TypeOK'
  BY <1>8 DEF TypeOK, Skip
<1>9. ASSUME NEW i \in Installers, CopyBegin(i) PROVE TypeOK'
  <2>1. PICK e \in todo[i] \intersect Wanted : Truncate(i, <<Destination(i, e), e>>)
    BY <1>9 DEF CopyBegin
  <2> DEFINE p == <<Destination(i, e), e>>
  <2>2. p \in Paths /\ p # None
    BY DestinationIsPath DEF TypeOK
  <2>3. {build[j] : j \in Writers(p) \union {i}} \subseteq Builds
    BY DEF TypeOK, Writers
  <2> HIDE DEF p
  <2>4. file' \in [Paths -> [by : SUBSET Builds, whole : BOOLEAN]]
    BY <2>1, <2>2, <2>3 DEF TypeOK, Truncate, p
  <2>5. /\ copying' = [copying EXCEPT ![i] = p]
        /\ intact' = (intact \ Writers(p)) \union {i}
    BY <2>1 DEF Truncate, p
  <2>6. /\ copying' \in [Installers -> Paths \union {None}]
        /\ intact' \subseteq {j \in Installers : copying'[j] # None}
    BY <2>2, <2>5 DEF TypeOK
  <2>7. pc[i] # "ok" /\ \A j \in Installers \ {i} : copying'[j] = copying[j]
    BY <1>9, <2>5 DEF TypeOK, CopyBegin, Asked
  <2> QED
    BY <1>9, <2>4, <2>6, <2>7 DEF TypeOK, CopyBegin
<1>10. ASSUME NEW i \in Installers, CopyNone(i) PROVE TypeOK'
  BY <1>10 DEF TypeOK, CopyNone, Fault, Goto
<1>11. ASSUME NEW i \in Installers, CopyEnd(i) PROVE TypeOK'
  <2>1. file' \in [Paths -> [by : SUBSET Builds, whole : BOOLEAN]]
    BY <1>11 DEF TypeOK, CopyEnd, Copied
  <2>2. /\ copying' \in [Installers -> Paths \union {None}]
        /\ intact' \subseteq {j \in Installers : copying'[j] # None}
        /\ todo' \in [Installers -> SUBSET Entries]
    BY <1>11 DEF TypeOK, CopyEnd, Copied
  <2>3. \A j \in Installers : pc[j] = "ok" => todo'[j] = {} /\ copying'[j] = None
    BY <1>11 DEF TypeOK, CopyEnd, Copied
  <2>4. \A j \in Installers : copying[j] = None => copying'[j] = None
    BY <1>11 DEF TypeOK, CopyEnd, Copied
  <2> QED
    BY <1>11, <2>1, <2>2, <2>3, <2>4 DEF TypeOK, CopyEnd
<1>12. ASSUME NEW i \in Installers, CopyFail(i) PROVE TypeOK'
  BY <1>12 DEF TypeOK, CopyFail, Fault
<1>13. ASSUME NEW i \in Installers, Ok(i) PROVE TypeOK'
  BY <1>13 DEF TypeOK, Ok, Goto
<1>14. ASSUME NEW i \in Installers, Cancel(i) PROVE TypeOK'
  BY <1>14 DEF TypeOK, Cancel, Asked, Fault, Goto
<1>15. CASE UNCHANGED vars
  BY <1>15 DEF TypeOK
<1> QED
  BY <1>1, <1>2, <1>3, <1>4, <1>5, <1>6, <1>7, <1>8, <1>9, <1>10, <1>11,
     <1>12, <1>13, <1>14, <1>15 DEF Next, Step

\* Cache, files and calls are well formed, whatever fails (PgExtension, TypeOK).
THEOREM TypeCorrect == Spec => []TypeOK
<1>1. TypeOK /\ [Next]_vars => TypeOK'
  BY TypeStep
<1> QED
  BY <1>1, TypeInit, PTL DEF Spec

(***************************************************************************)
(* The inductive invariant, part by part.                                  *)
(***************************************************************************)

\* No step disturbs the course of another install.
LEMMA CoursesStep ==
    ASSUME TypeOK, Courses, [Next]_vars
    PROVE  Courses'
<1> USE DEF vars, cache, calls, files, history, Running, Outcomes, Failures, Over
<1>1. ASSUME Unpack PROVE Courses'
  BY <1>1 DEF TypeOK, Courses, Unpack, Destination, ShareDir
<1>2. ASSUME Purge PROVE Courses'
  BY <1>2 DEF TypeOK, Courses, Purge, Destination, ShareDir
<1>3. ASSUME NEW i \in Installers, Begin(i) PROVE Courses'
  BY <1>3 DEF TypeOK, Courses, Begin, Goto, Destination, ShareDir
<1>4. ASSUME NEW i \in Installers, ShareExtensionDir(i) PROVE Courses'
  <2>1. /\ pc[i] = "share" /\ pc'[i] \in {"share", "lib"} /\ copying' = copying
        /\ \A j \in Installers \ {i} : pc'[j] = pc[j] /\ share'[j] = share[j]
        /\ before' = before /\ stale' = stale /\ queued' = queued
    BY <1>4 DEF TypeOK, ShareExtensionDir, Goto
  <2> QED
    BY <2>1 DEF TypeOK, Courses, Destination, ShareDir
<1>5. ASSUME NEW i \in Installers, CreateDirs(i) PROVE Courses'
  BY <1>5 DEF TypeOK, Courses, CreateDirs, Goto, Destination, ShareDir
<1>6. ASSUME NEW i \in Installers, ReadDir(i) PROVE Courses'
  BY <1>6 DEF TypeOK, Courses, ReadDir, Goto, Destination, ShareDir
<1>7. ASSUME NEW i \in Installers, InstallError(i) PROVE Courses'
  BY <1>7 DEF TypeOK, Courses, InstallError, Goto, Destination, ShareDir
<1>8. ASSUME NEW i \in Installers, Skip(i) PROVE Courses'
  BY <1>8 DEF TypeOK, Courses, Skip, Destination, ShareDir
<1>9. ASSUME NEW i \in Installers, CopyBegin(i) PROVE Courses'
  <2>1. PICK e \in Wanted : copying' = [copying EXCEPT ![i] = <<Destination(i, e), e>>]
    BY <1>9 DEF CopyBegin, Truncate
  <2>2. copying'[i] = <<Destination(i, e), e>>' /\ pc[i] \in {"entries", "cancelled"}
    BY <1>9, <2>1 DEF TypeOK, CopyBegin, Asked, Destination, ShareDir
  <2>3. \A j \in Installers \ {i} : copying'[j] = copying[j]
    BY <2>1 DEF TypeOK
  <2> QED
    BY <1>9, <2>2, <2>3 DEF TypeOK, Courses, CopyBegin, Asked, Destination, ShareDir
<1>10. ASSUME NEW i \in Installers, CopyNone(i) PROVE Courses'
  BY <1>10 DEF TypeOK, Courses, CopyNone, Asked, Destination, ShareDir
<1>11. ASSUME NEW i \in Installers, CopyEnd(i) PROVE Courses'
  BY <1>11 DEF TypeOK, Courses, CopyEnd, Copied, Destination, ShareDir
<1>12. ASSUME NEW i \in Installers, CopyFail(i) PROVE Courses'
  BY <1>12 DEF TypeOK, Courses, CopyFail, Destination, ShareDir
<1>13. ASSUME NEW i \in Installers, Ok(i) PROVE Courses'
  BY <1>13 DEF TypeOK, Courses, Ok, Goto, Destination, ShareDir
<1>14. ASSUME NEW i \in Installers, Cancel(i) PROVE Courses'
  BY <1>14 DEF TypeOK, Courses, Cancel, Goto, Destination, ShareDir
<1>15. CASE UNCHANGED vars
  BY <1>15 DEF TypeOK, Courses, Destination, ShareDir
<1> QED
  BY <1>1, <1>2, <1>3, <1>4, <1>5, <1>6, <1>7, <1>8, <1>9, <1>10, <1>11,
     <1>12, <1>13, <1>14, <1>15 DEF Next, Step

\* The two steps that choose or make a directory keep to the package's own.
LEMMA InPlaceStep ==
    ASSUME TypeOK, InPlace, [Next]_vars
    PROVE  InPlace'
<1> USE DEF vars, cache, calls, files, history
<1>1. Lib \notin Layouts
  BY DEF Lib, Layouts, Candidates
<1>2. layout' = layout /\ (Misplaced => Misplaced')
  BY DEF Next, Step, Unpack, Purge, Begin, ShareExtensionDir, CreateDirs,
         ReadDir, InstallError, Skip, CopyBegin, CopyNone, CopyEnd, CopyFail,
         Ok, Cancel, Misplaced, TypeOK
<1> SUFFICES ASSUME ~Misplaced' PROVE InPlace'
  BY DEF InPlace
<1>3. /\ tree \intersect Layouts \subseteq {layout}
      /\ \A j \in Installers :
             pc[j] \in {"lib", "share_dir", "read_dir", "entries"} =>
                 ShareDir(j) = layout
  BY <1>2 DEF InPlace
<1>4. ASSUME NEW i \in Installers, ShareExtensionDir(i) PROVE InPlace'
  <2>1. CASE pc'[i] = "share"
    BY <1>2, <1>3, <1>4, <2>1 DEF TypeOK, InPlace, ShareExtensionDir, Goto, ShareDir
  <2>2. CASE pc'[i] = "lib" /\ missed'
    <3>1. \/ share'[i] = 1
          \/ share' = share /\ Candidates[share[i]] \in tree
      BY <1>4, <2>2 DEF TypeOK, ShareExtensionDir, Goto
    <3>2. layout = Candidates[1]
      BY <1>2, <2>2 DEF Misplaced
    <3>3. Candidates[share'[i]] = layout
      <4>1. CASE share'[i] = 1
        BY <3>2, <4>1
      <4>2. CASE share' = share /\ Candidates[share[i]] \in tree
        <5>1. Candidates[share[i]] \in Layouts
          BY CandidatesAre DEF TypeOK
        <5> QED
          BY <1>3, <4>2, <5>1
      <4> QED
        BY <3>1, <4>1, <4>2
    <3> QED
      BY <1>2, <1>3, <1>4, <3>3 DEF TypeOK, InPlace, ShareExtensionDir, Goto, ShareDir
  <2>3. CASE pc'[i] = "lib" /\ ~missed'
    <3>1. Candidates[share[i]] \in tree /\ share' = share
      BY <1>4, <2>3 DEF TypeOK, ShareExtensionDir, Goto
    <3>2. Candidates[share[i]] = layout
      BY <1>3, <3>1, CandidatesAre DEF TypeOK
    <3> QED
      BY <1>2, <1>3, <1>4, <3>1, <3>2
         DEF TypeOK, InPlace, ShareExtensionDir, Goto, ShareDir
  <2> QED
    BY <1>4, <2>1, <2>2, <2>3 DEF TypeOK, ShareExtensionDir, Goto
<1>5. ASSUME NEW i \in Installers, CreateDirs(i) PROVE InPlace'
  BY <1>1, <1>3, <1>5 DEF TypeOK, InPlace, CreateDirs, Goto, ShareDir
<1>6. CASE Unpack
  BY <1>1, <1>3, <1>6 DEF TypeOK, InPlace, Unpack, ShareDir
<1>7. CASE Purge
  BY <1>3, <1>7 DEF TypeOK, InPlace, Purge, ShareDir
<1>8. ASSUME NEW i \in Installers,
             \/ Begin(i) \/ ReadDir(i) \/ InstallError(i) \/ Skip(i)
             \/ CopyBegin(i) \/ CopyNone(i) \/ CopyEnd(i) \/ CopyFail(i)
             \/ Ok(i) \/ Cancel(i)
      PROVE  InPlace'
  <2>1. /\ tree' = tree /\ share' = share
        /\ \A j \in Installers :
               pc'[j] \in {"lib", "share_dir", "read_dir", "entries"} =>
                   pc[j] \in {"lib", "share_dir", "read_dir", "entries"}
    BY <1>8 DEF TypeOK, Begin, ReadDir, InstallError, Skip, CopyBegin, CopyNone,
                CopyEnd, CopyFail, Ok, Cancel, Goto
  <2> QED
    BY <1>2, <1>3, <2>1 DEF InPlace, ShareDir
<1>9. CASE UNCHANGED vars
  BY <1>3, <1>9 DEF InPlace, ShareDir
<1> QED
  BY <1>4, <1>5, <1>6, <1>7, <1>8, <1>9 DEF Next, Step

\* What has been spoilt stays so, from the beginning of an install on.
LEMMA SpoiltStays ==
    ASSUME TypeOK, Courses, [Next]_vars,
           NEW i \in Installers, pc[i] # "idle", Unspoilt(i)'
    PROVE  Unspoilt(i) /\ ~Purge /\ build'[i] = build[i]
<1> USE DEF vars, cache, calls, files, history
<1>1. ~Purge
  BY DEF Purge, Unspoilt, TypeOK
<1>2. /\ layout' = layout /\ build' = build /\ stale' = stale
      /\ (missed => missed') /\ faults \subseteq faults'
      /\ before'[i] = before[i]
  BY <1>1 DEF Next, Step, Unpack, Begin, ShareExtensionDir, CreateDirs,
         ReadDir, InstallError, Skip, CopyBegin, CopyNone, CopyEnd, CopyFail,
         Ok, Cancel, Fault, TypeOK
<1>3. \A j \in Installers : /\ pc[j] # "idle" => pc'[j] # "idle"
                            /\ pc[j] \in {"WriteFileError", "cancelled"} => pc'[j] = pc[j]
  BY <1>1 DEF Next, Step, Unpack, Begin, ShareExtensionDir, CreateDirs,
         ReadDir, InstallError, Skip, CopyBegin, CopyNone, CopyEnd, CopyFail,
         Ok, Cancel, Goto, TypeOK, Running
<1>4. ASSUME NEW j \in Installers \ {i}, Harmless(j, i)' PROVE Harmless(j, i)
  BY <1>2, <1>3, <1>4 DEF Harmless
<1> QED
  BY <1>1, <1>2, <1>4 DEF Unspoilt, Misplaced

\* Where the server looks for a file is one of the paths.
LEMMA PlaceIsPath ==
    ASSUME TypeOK, NEW e \in Wanted
    PROVE  Place(e) \in Paths /\ Place(e) # None
BY NoneAssumption DEF TypeOK, Place, Paths, Libraries, Wanted

\* Who copies next to an unspoilt install copies the same build.
LEMMA RivalsAgree ==
    ASSUME TypeOK, Courses, NEW i \in Installers, Unspoilt(i),
           NEW k \in Installers, copying[k] # None \/ pc[k] = "entries" \/ k \in queued
    PROVE  build[k] = build[i]
BY DEF TypeOK, Courses, Unspoilt, Harmless, Over, Outcomes, Failures

\* A copy that begins next to an unspoilt install, or for it, makes its file
\* good.
LEMMA BeginIsGood ==
    ASSUME TypeOK, Courses, NEW i \in Installers, Unspoilt(i), build' = build,
           NEW j \in Installers, Asked(j),
           NEW q \in Paths, Truncate(j, q)
    PROVE  Good(i, q)'
<1>1. \A k \in Writers(q) \union {j} : k \in Installers /\ build[k] = build[i]
  BY RivalsAgree, NoneAssumption DEF Writers, Asked
<1>2. {build[k] : k \in Writers(q) \union {j}} = {build[i]}
  BY <1>1
<1>3. file'[q].by = {build[i]}
  BY <1>2 DEF Truncate, TypeOK
<1>4. j \in intact' /\ copying'[j] = q
  BY DEF Truncate, TypeOK
<1> QED
  BY <1>3, <1>4 DEF Good

\* A good file of an install stays good as long as nothing spoils the install.
LEMMA GoodStays ==
    ASSUME TypeOK, Courses, [Next]_vars,
           NEW i \in Installers, pc[i] \in {"entries", "ok"},
           pc'[i] \in {"entries", "ok"}, Unspoilt(i)',
           NEW p \in Paths, Good(i, p)
    PROVE  Good(i, p)'
<1> USE DEF vars, cache, calls, files, history
<1>1. Unspoilt(i) /\ ~Purge /\ build'[i] = build[i]
  BY SpoiltStays
<1>2. p # None
  BY NoneAssumption
<1>3. ASSUME NEW j \in Installers, CopyBegin(j) PROVE Good(i, p)'
  <2>1. PICK e \in todo[j] \intersect Wanted : Truncate(j, <<Destination(j, e), e>>)
    BY <1>3 DEF CopyBegin
  <2> DEFINE q == <<Destination(j, e), e>>
  <2>2. q \in Paths
    BY DestinationIsPath DEF TypeOK
  <2>3. Truncate(j, q)
    BY <2>1
  <2> HIDE DEF q
  <2>4. CASE q = p
    BY <1>1, <1>3, <2>2, <2>3, <2>4, BeginIsGood DEF CopyBegin
  <2>5. CASE q # p
    <3>1. file'[p] = file[p]
      BY <2>2, <2>3, <2>5 DEF Truncate, TypeOK
    <3>2. ASSUME NEW k \in intact, copying[k] = p
          PROVE  k \in intact' /\ copying'[k] = p
      BY <1>2, <1>3, <2>3, <2>5, <3>2 DEF Truncate, Writers, CopyBegin, Asked, TypeOK
    <3> QED
      BY <1>1, <3>1, <3>2 DEF Good
  <2> QED
    BY <2>4, <2>5
<1>4. ASSUME NEW j \in Installers, CopyEnd(j) PROVE Good(i, p)'
  <2>1. /\ file' = IF j \in intact THEN [file EXCEPT ![copying[j]].whole = TRUE]
                                   ELSE file
        /\ copying[j] \in Paths
    BY <1>4 DEF CopyEnd, Copied, TypeOK
  <2>2. file'[p].by = file[p].by
    BY <2>1, Zenon DEF TypeOK
  <2>3. file[p].whole => file'[p].whole
    BY <2>1 DEF TypeOK
  <2>4. ASSUME NEW k \in intact, copying[k] = p, k # j
        PROVE  k \in intact' /\ copying'[k] = p
    BY <1>4, <2>4 DEF CopyEnd, Copied, TypeOK
  <2>5. j \in intact /\ copying[j] = p => file'[p].whole
    BY <2>1 DEF TypeOK
  <2> QED
    BY <1>1, <2>2, <2>3, <2>4, <2>5 DEF Good
<1>5. ASSUME NEW j \in Installers, CopyFail(j) PROVE FALSE
  <2>1. copying[j] # None /\ pc[j] \in {"entries", "cancelled"}
    BY <1>5 DEF CopyFail, Courses
  <2>2. j # i
    BY <1>5, <2>1 DEF CopyFail, TypeOK
  <2>3. j \notin before'[i] /\ before' = before
    BY <1>5, <2>1 DEF CopyFail, Courses, Over
  <2>4. \/ pc'[j] = "WriteFileError"
        \/ pc'[j] = "cancelled" /\ "io" \in faults'
    BY <1>5, <2>1 DEF CopyFail, Fault, TypeOK
  <2> QED
    BY <2>2, <2>3, <2>4 DEF Unspoilt, Harmless
<1>6. CASE UNCHANGED <<file, copying, intact, build>>
  BY <1>6 DEF Good
<1> QED
  BY <1>1, <1>3, <1>4, <1>5, <1>6
     DEF Next, Step, Unpack, Begin, ShareExtensionDir, CreateDirs, ReadDir,
         InstallError, Skip, CopyNone, Ok, Cancel

\* An install adds good files only.
LEMMA KeptStep ==
    ASSUME IInv, [Next]_vars
    PROVE  Kept'
<1> USE DEF vars, cache, calls, files, history
<1>1. TypeOK /\ Courses /\ InPlace /\ Kept
  BY DEF IInv
<1> SUFFICES ASSUME NEW i \in Installers, pc'[i] \in {"entries", "ok"}, Unspoilt(i)'
             PROVE  /\ \A e \in Wanted \ todo'[i] : Good(i, Place(e))'
                    /\ copying'[i] # None => Good(i, copying[i])'
  BY DEF Kept
<1>2. pc[i] \in {"read_dir", "entries", "ok"}
  BY <1>1 DEF TypeOK, Next, Step, Unpack, Purge, Begin, ShareExtensionDir,
              CreateDirs, ReadDir, InstallError, Skip, CopyBegin, CopyNone,
              CopyEnd, CopyFail, Ok, Cancel, Goto
<1>3. Unspoilt(i) /\ ~Purge /\ build'[i] = build[i]
  BY <1>1, <1>2, SpoiltStays
<1>4. CASE pc[i] = "read_dir"
  <2>1. ReadDir(i)
    BY <1>1, <1>4 DEF TypeOK, Next, Step, Unpack, Purge, Begin,
              ShareExtensionDir, CreateDirs, ReadDir, InstallError, Skip,
              CopyBegin, CopyNone, CopyEnd, CopyFail, Ok, Cancel, Goto
  <2>2. todo'[i] = Entries /\ copying'[i] = None
    BY <1>1, <1>4, <2>1 DEF TypeOK, Courses, ReadDir
  <2> QED
    BY <2>2 DEF Wanted
<1>5. CASE pc[i] \in {"entries", "ok"}
  <2>1. /\ \A e \in Wanted \ todo[i] : Good(i, Place(e))
        /\ copying[i] # None => Good(i, copying[i])
    BY <1>1, <1>3, <1>5 DEF Kept
  <2>2. \A p \in Paths : Good(i, p) => Good(i, p)'
    BY <1>1, <1>5, GoodStays
  <2>3. layout' = layout
    BY DEF Next, Step, Unpack, Purge, Begin, ShareExtensionDir, CreateDirs,
           ReadDir, InstallError, Skip, CopyBegin, CopyNone, CopyEnd, CopyFail,
           Ok, Cancel
  <2>4. ASSUME NEW e \in Wanted \ todo'[i] PROVE Good(i, Place(e))'
    <3>1. Good(i, Place(e)) => Good(i, Place(e))'
      BY <1>1, <2>2, <2>3, PlaceIsPath DEF Place, Good
    <3>2. CASE e \notin todo[i]
      BY <2>1, <3>1, <3>2
    <3>3. CASE e \in todo[i]
      <4>1. CopyEnd(i) /\ pc[i] = "entries"
        BY <1>1, <1>3, <1>5, <3>3
           DEF TypeOK, Next, Step, Unpack, Begin, ShareExtensionDir, CreateDirs,
               ReadDir, InstallError, Skip, CopyBegin, CopyNone, CopyEnd,
               CopyFail, Ok, Cancel
      <4>2. copying[i] # None /\ e = copying[i][2]
        BY <1>1, <3>3, <4>1 DEF CopyEnd, TypeOK
      <4>3. PICK d \in Wanted : copying[i] = <<Destination(i, d), d>>
        BY <1>1, <4>1, <4>2 DEF Courses
      <4>4. d = e /\ copying[i] = <<Destination(i, e), e>>
        BY <4>2, <4>3
      <4>5. ShareDir(i) = layout
        BY <1>1, <1>3, <4>1 DEF InPlace, Unspoilt
      <4>6. copying[i] = Place(e)
        BY <4>4, <4>5 DEF Destination, Place
      <4> QED
        BY <2>1, <3>1, <4>2, <4>6
    <3> QED
      BY <3>2, <3>3
  <2>5. ASSUME copying'[i] # None PROVE Good(i, copying[i])'
    <3>1. CASE copying'[i] = copying[i]
      <4>1. copying[i] \in Paths
        BY <1>1, <2>5, <3>1 DEF TypeOK
      <4>2. Good(i, copying[i])
        BY <2>1, <2>5, <3>1
      <4> QED
        BY <2>2, <3>1, <4>1, <4>2 DEF Good
    <3>2. CASE copying'[i] # copying[i]
      <4>1. CopyBegin(i)
        BY <1>1, <2>5, <3>2
           DEF TypeOK, Next, Step, Unpack, Purge, Begin, ShareExtensionDir,
               CreateDirs, ReadDir, InstallError, Skip, CopyBegin, CopyNone,
               CopyEnd, CopyFail, Ok, Cancel, Copied, Truncate
      <4>2. PICK e \in Wanted : Truncate(i, <<Destination(i, e), e>>)
        BY <4>1 DEF CopyBegin
      <4>3. PICK q \in Paths : Truncate(i, q)
        BY <1>1, <4>2, DestinationIsPath DEF TypeOK
      <4>4. Good(i, q)'
        BY <1>1, <1>3, <4>1, <4>3, BeginIsGood DEF CopyBegin
      <4>5. copying'[i] = q
        BY <1>1, <4>3 DEF Truncate, TypeOK
      <4> QED
        BY <4>4, <4>5 DEF Good
    <3> QED
      BY <3>1, <3>2
  <2> QED
    BY <2>4, <2>5
<1> QED
  BY <1>2, <1>4, <1>5

\* The initial state is in place, and nothing has been copied.
LEMMA IInvInit == Init => IInv
<1> SUFFICES ASSUME Init PROVE IInv
  OBVIOUS
<1>1. TypeOK
  BY TypeInit
<1>2. Courses
  BY DEF Init, Courses
<1>3. InPlace
  BY DEF Init, InPlace
<1>4. Kept
  BY DEF Init, Kept
<1> QED
  BY <1>1, <1>2, <1>3, <1>4 DEF IInv

(***************************************************************************)
(* The theorems.                                                           *)
(***************************************************************************)

\* The inductive invariant: the course of the installs, the directories they
\* choose, and the files they have copied.
THEOREM Invariance == Spec => []IInv
<1>1. IInv /\ [Next]_vars => IInv'
  BY TypeStep, CoursesStep, InPlaceStep, KeptStep DEF IInv
<1> QED
  BY <1>1, IInvInit, PTL DEF Spec

\* install_extension that returns Ok leaves every file whole, of its build and
\* where the server looks for it, unless a purge, a rival or an install before
\* the acquisition spoilt it (PgExtension, InstalledMeansUsable).
THEOREM InstalledIsUsable == Spec => []InstalledMeansUsable
<1>1. IInv => InstalledMeansUsable
  <2> SUFFICES ASSUME IInv, NEW i \in Installers,
                      pc[i] = "ok", i \notin stale, ~Misplaced,
                      \A j \in Installers \ {i} : Harmless(j, i) /\ copying[j] = None
               PROVE  Has(build[i])
    BY DEF InstalledMeansUsable
  <2>1. TypeOK /\ Kept
    BY DEF IInv
  <2>2. todo[i] = {} /\ \A j \in Installers : copying[j] = None
    BY <2>1 DEF TypeOK
  <2>3. intact = {}
    BY <2>1, <2>2 DEF TypeOK
  <2>4. ASSUME NEW e \in Wanted
        PROVE  file[Place(e)] = [by |-> {build[i]}, whole |-> TRUE]
    <3>1. Good(i, Place(e))
      BY <2>1, <2>2 DEF Kept, Unspoilt
    <3>2. file[Place(e)].by = {build[i]} /\ file[Place(e)].whole
      BY <2>3, <3>1 DEF Good
    <3>3. file[Place(e)] \in [by : SUBSET Builds, whole : BOOLEAN]
      BY <2>1, PlaceIsPath DEF TypeOK
    <3>4. file[Place(e)].whole = TRUE
      BY <3>2, <3>3
    <3> QED
      BY <3>2, <3>3, <3>4
  <2> QED
    BY <2>4 DEF Has
<1> QED
  BY <1>1, Invariance, PTL
=============================================================================
