------------------------------- MODULE PgSetup -------------------------------
(***************************************************************************)
(* PgEmbed::new and setup of several values on one file system: what they  *)
(* share is the cache of binaries, whose directories are named after the   *)
(* fetch settings, and the password files, which are named after the       *)
(* database directories with their extension replaced.                     *)
(*                                                                         *)
(* The acquisition is one step here, as BinaryCache allows (PgAccess).  A  *)
(* value stands for its own password.  tokio::fs::File writes in the       *)
(* background: create_password_file returns when the bytes are buffered,   *)
(* and a file operation outlives the future that asked for it.  So does an *)
(* initdb, and it outlives the process of its value too.                   *)
(***************************************************************************)
EXTENDS PgTypes

CONSTANTS
    Values,       \* PgEmbed values, each constructed once
    Directories,  \* database directories, as pairs of a stem and an extension
    Settings,     \* fetch settings
    None,         \* the value of what is not there
    Faults        \* the kinds of fault the environment may produce

FaultKinds == {
    "io",         \* a directory, download, file, check or initdb fails
    "write",      \* the background write fails; nobody asks for its outcome
    "slow",       \* the background write is not done when initdb wants the file
    "cancel",     \* setup times out, or the caller drops its future
    "crash",      \* the process of a value ends without a drop
    "clean_dir",  \* drop cannot remove the database directory
    "clean_pw" }  \* drop cannot remove the password file

ASSUME ValuesAssumption == Values \intersect {"absent", "empty", "mixed"} = {}
ASSUME SettingsAssumption ==
    Settings \subseteq PgFetchSettings({s.host : s \in Settings})
ASSUME NoneAssumption ==
    /\ None \notin Values /\ None \notin Directories /\ None # "mixed"
    /\ \A s \in Settings : None \notin {s, Artifact(s)}
ASSUME FaultsAssumption == Faults \subseteq FaultKinds

VARIABLES
    pc,        \* where a value is
    dir,       \* its database directory
    fetch,     \* its fetch settings
    kept,      \* the values that are persistent
    packages,  \* the artifact in each directory of the cache
    pwfile,    \* what a password file holds
    late,      \* the values whose File::create is still to happen
    pending,   \* the values whose buffered password is still to be written
    child,     \* the initdb of a value
    clusters,  \* the password a cluster was initialised with
    alone,     \* the values nobody else shared a password file with (history)
    untidy,    \* the values that may have left an initdb or a directory that
               \* they meant to remove: see GiveUp, Crash and Clean (history)
    faults     \* the kinds of fault that have happened (history)

files == <<pwfile, late, pending>>
db    == <<child, clusters, untidy>>
vars  == <<pc, dir, fetch, kept, packages, files, db, alone, faults>>

CacheDirs == {CacheDir(s) : s \in Settings}

\* set_extension("pwfile")
PwFile(d) == d[1]
PwFiles == {PwFile(d) : d \in Directories}

Contents == Values \union {"absent", "empty", "mixed"}

Live == {"new", "acquired", "created", "written", "initdb", "ready", "failed"}

TypeOK ==
    /\ pc \in [Values -> Live \union {"none", "dropped"}]
    /\ dir \in [Values -> Directories \union {None}]
    /\ fetch \in [Values -> Settings \union {None}]
    /\ kept \subseteq Values
    /\ packages \in [CacheDirs -> {Artifact(s) : s \in Settings} \union {None}]
    /\ pwfile \in [PwFiles -> Contents]
    /\ late \subseteq Values /\ pending \subseteq Values
    /\ clusters \in [Directories -> Values \union {"mixed", None}]
    /\ child \in [Values -> {"none", "spawned", "running", "doomed"}]
    /\ alone \subseteq Values /\ untidy \subseteq Values /\ faults \subseteq Faults

Init ==
    /\ pc = [v \in Values |-> "none"]
    /\ dir = [v \in Values |-> None] /\ fetch = [v \in Values |-> None]
    /\ kept = {}
    /\ packages = [c \in CacheDirs |-> None]
    /\ pwfile = [p \in PwFiles |-> "absent"]
    /\ late = {} /\ pending = {}
    /\ clusters = [d \in Directories |-> None]
    /\ child = [v \in Values |-> "none"]
    /\ alone = {} /\ untidy = {} /\ faults = {}

Fault(kind) == kind \in Faults /\ faults' = faults \union {kind}
Goto(v, label) == pc' = [pc EXCEPT ![v] = label]

\* The values that still have something to do with a password file.
Users(p) == {v \in Values : /\ dir[v] # None /\ PwFile(dir[v]) = p
                            /\ pc[v] \in Live \/ v \in late \union pending}

----------------------------------------------------------------------------
(* PgEmbed::new *)

\* PgAccess::new creates both directories.  No two live values are given one
\* database directory.
New(v, d, s) ==
    /\ pc[v] = "none"
    /\ \A w \in Values : dir[w] = d => pc[w] \notin Live
    /\ Goto(v, "new")
    /\ dir' = [dir EXCEPT ![v] = d] /\ fetch' = [fetch EXCEPT ![v] = s]
    /\ kept' \in {kept, kept \union {v}}
    /\ alone' = IF Users(PwFile(d)) = {} THEN alone \union {v}
                                         ELSE alone \ Users(PwFile(d))
    /\ UNCHANGED <<packages, files, db, faults>>

NewError(v) ==
    /\ pc[v] = "none" /\ Fault("io")
    /\ Goto(v, "dropped")
    /\ UNCHANGED <<dir, fetch, kept, packages, files, db, alone>>

----------------------------------------------------------------------------
(* setup *)

\* maybe_acquire_postgres downloads unless initdb is there.
Acquire(v) ==
    /\ pc[v] = "new"
    /\ packages' = [packages EXCEPT ![CacheDir(fetch[v])] =
                        IF @ = None THEN Artifact(fetch[v]) ELSE @]
    /\ Goto(v, "acquired")
    /\ UNCHANGED <<dir, fetch, kept, files, db, alone, faults>>

\* Mutant: the file is opened for writing without truncating it.
CreatePwFile_keepsOld(v) ==
    LET p == PwFile(dir[v]) IN
    pwfile' = [pwfile EXCEPT ![p] = IF @ = "absent" THEN "empty" ELSE @]

\* File::create truncates a file that exists.
CreatePwFile(v) == pwfile' = [pwfile EXCEPT ![PwFile(dir[v])] = "empty"]

\* create_password_file, up to the file and up to the buffered password.
Create(v) ==
    /\ pc[v] = "acquired"
    /\ CreatePwFile(v)
    /\ Goto(v, "created")
    /\ UNCHANGED <<dir, fetch, kept, packages, late, pending, db, alone, faults>>

Write(v) ==
    /\ pc[v] = "created"
    /\ pending' = pending \union {v}
    /\ Goto(v, "written")
    /\ UNCHANGED <<dir, fetch, kept, packages, pwfile, late, db, alone, faults>>

\* Mutant: a finished cluster is initialised again.
DbFilesExist_never(v) == FALSE

\* db_files_exist: initdb is there since the acquisition.
DbFilesExist(v) == clusters[dir[v]] # None

\* init_db spawns initdb for a directory without a cluster.
Check(v) ==
    /\ pc[v] = "written"
    /\ Goto(v, IF DbFilesExist(v) THEN "ready" ELSE "initdb")
    /\ child' = IF DbFilesExist(v) THEN child ELSE [child EXCEPT ![v] = "spawned"]
    /\ UNCHANGED <<dir, fetch, kept, packages, files, clusters, untidy, alone,
                   faults>>

\* A step fails, or is cancelled with nothing on its way.
SetupError(v) ==
    /\ pc[v] \in {"new", "acquired", "created", "written"} /\ Fault("io")
    /\ Goto(v, "failed")
    /\ UNCHANGED <<dir, fetch, kept, packages, files, db, alone>>

\* The deadline of init_db passes, or the future is dropped: initdb goes on.
GiveUp(v) ==
    /\ pc[v] = "initdb" /\ Fault("cancel")
    /\ Goto(v, "failed") /\ untidy' = untidy \union {v}
    /\ UNCHANGED <<dir, fetch, kept, packages, files, child, clusters, alone>>

\* The future is dropped while File::create waits for the blocking pool.
CancelCreate(v) ==
    /\ pc[v] = "acquired" /\ Fault("cancel")
    /\ late' = late \union {v}
    /\ Goto(v, "failed")
    /\ UNCHANGED <<dir, fetch, kept, packages, pwfile, pending, db, alone>>

----------------------------------------------------------------------------
(* initdb (external) *)

\* Whoever still waits for the initdb of v learns how it ended.
Answer(v, label) == pc' = IF pc[v] = "initdb" THEN [pc EXCEPT ![v] = label] ELSE pc

\* Mutant: the --pwfile argument is missing.
InitDbBegin_noPwFile(v) ==
    /\ child[v] = "spawned"
    /\ child' = [child EXCEPT ![v] = "running"]
    /\ clusters' = [clusters EXCEPT ![dir[v]] = "empty"]
    /\ UNCHANGED <<pc, dir, fetch, kept, packages, files, untidy, alone, faults>>

\* initdb reads the password file once and gives up on one that is not there or
\* empty, or on a directory with a cluster in it.  From here on the directory
\* holds a cluster for whoever looks for PG_VERSION.
InitDbBegin(v) ==
    LET password == pwfile[PwFile(dir[v])] IN
    /\ child[v] = "spawned"
    /\ IF v \in pending THEN Fault("slow") ELSE UNCHANGED faults
    /\ IF password \in {"absent", "empty"} \/ clusters[dir[v]] # None
       THEN /\ child' = [child EXCEPT ![v] = "none"] /\ Answer(v, "failed")
            /\ UNCHANGED clusters
       ELSE /\ child' = [child EXCEPT ![v] = "running"]
            /\ clusters' = [clusters EXCEPT ![dir[v]] = password]
            /\ UNCHANGED pc
    /\ UNCHANGED <<dir, fetch, kept, packages, files, untidy, alone>>

InitDbEnd(v) ==
    /\ child[v] = "running"
    /\ child' = [child EXCEPT ![v] = "none"] /\ Answer(v, "ready")
    /\ UNCHANGED <<dir, fetch, kept, packages, files, clusters, untidy, alone,
                   faults>>

\* The directory loses its contents, and an initdb that is at work there
\* cannot succeed any more.
Empty(d) ==
    /\ clusters' = [clusters EXCEPT ![d] = None]
    /\ child' = [w \in Values |-> IF child[w] = "running" /\ dir[w] = d
                                 THEN "doomed" ELSE child[w]]

\* An initdb that fails removes what is in the directory, whose it may be.
InitDbFail(v) ==
    /\ \/ child[v] = "running" /\ Fault("io")
       \/ child[v] = "doomed" /\ UNCHANGED faults
    /\ clusters' = [clusters EXCEPT ![dir[v]] = None]
    /\ child' = [w \in Values |->
                   IF w = v THEN "none"
                   ELSE IF child[w] = "running" /\ dir[w] = dir[v]
                        THEN "doomed" ELSE child[w]]
    /\ Answer(v, "failed")
    /\ UNCHANGED <<dir, fetch, kept, packages, files, untidy, alone>>

----------------------------------------------------------------------------
(* What goes on in the background (external) *)

LateCreate(v) ==
    /\ v \in late
    /\ late' = late \ {v}
    /\ CreatePwFile(v)
    /\ UNCHANGED <<pc, dir, fetch, kept, packages, pending, db, alone, faults>>

\* The write starts at offset 0: over a longer password it leaves a tail.
Flush(v) ==
    LET p == PwFile(dir[v]) IN
    /\ v \in pending
    /\ pending' = pending \ {v}
    /\ \E content \in IF pwfile[p] \in {"empty", v} THEN {v} ELSE {v, "mixed"} :
           pwfile' = [pwfile EXCEPT ![p] = content]
    /\ UNCHANGED <<pc, dir, fetch, kept, packages, late, db, alone, faults>>

WriteLost(v) ==
    /\ v \in pending /\ Fault("write")
    /\ pending' = pending \ {v}
    /\ UNCHANGED <<pc, dir, fetch, kept, packages, pwfile, late, db, alone>>

----------------------------------------------------------------------------
(* Drop *)

\* A removed file keeps what is written to it from now on to itself.
RemovePwFile(p) ==
    /\ pwfile' = [pwfile EXCEPT ![p] = "absent"]
    /\ pending' = {w \in pending : PwFile(dir[w]) # p}

\* Mutant: clean stops at the first removal that fails.
Clean_firstError(v) ==
    \/ /\ Empty(dir[v]) /\ UNCHANGED untidy
       /\ \/ RemovePwFile(PwFile(dir[v])) /\ UNCHANGED faults
          \/ Fault("clean_pw") /\ UNCHANGED <<pwfile, pending>>
    \/ /\ Fault("clean_dir") /\ untidy' = untidy \union {v}
       /\ UNCHANGED <<child, clusters, pwfile, pending>>

\* Mutant: clean removes the password file first, and stops if it cannot.
Clean_pwFirst(v) ==
    \/ /\ RemovePwFile(PwFile(dir[v]))
       /\ \/ Empty(dir[v]) /\ UNCHANGED <<faults, untidy>>
          \/ /\ Fault("clean_dir") /\ untidy' = untidy \union {v}
             /\ UNCHANGED <<child, clusters>>
    \/ Fault("clean_pw") /\ UNCHANGED <<db, pwfile, pending>>

\* clean: both removals are tried.
Clean(v) ==
    \E failed \in SUBSET ({"clean_dir", "clean_pw"} \intersect Faults) :
        /\ faults' = faults \union failed
        /\ IF "clean_dir" \in failed
           THEN untidy' = untidy \union {v} /\ UNCHANGED <<child, clusters>>
           ELSE Empty(dir[v]) /\ UNCHANGED untidy
        /\ IF "clean_pw" \in failed
           THEN UNCHANGED <<pwfile, pending>>
           ELSE RemovePwFile(PwFile(dir[v]))

\* A call that waits for initdb has to be given up first; other awaits of setup
\* may go with the value.
Drop(v) ==
    /\ pc[v] \in Live \ {"initdb"}
    /\ Goto(v, "dropped")
    /\ IF v \in kept THEN UNCHANGED <<db, pwfile, pending, faults>> ELSE Clean(v)
    /\ UNCHANGED <<dir, fetch, kept, packages, late, alone>>

\* The process of the value ends, with its threads and without a drop.
Crash(v) ==
    /\ pc[v] \in Live /\ Fault("crash")
    /\ Goto(v, "dropped")
    /\ late' = late \ {v} /\ pending' = pending \ {v}
    /\ untidy' = untidy \union {v}
    /\ UNCHANGED <<dir, fetch, kept, packages, pwfile, child, clusters, alone>>

----------------------------------------------------------------------------
(* The specification *)

SetupStep(v) ==
    \/ Acquire(v) \/ Create(v) \/ Write(v) \/ Check(v)
    \/ SetupError(v) \/ CancelCreate(v) \/ GiveUp(v)

Background(v) ==
    \/ LateCreate(v) \/ Flush(v) \/ WriteLost(v)
    \/ InitDbBegin(v) \/ InitDbEnd(v) \/ InitDbFail(v)

Next == \E v \in Values :
    \/ \E d \in Directories, s \in Settings : New(v, d, s)
    \/ NewError(v) \/ SetupStep(v) \/ Background(v) \/ Drop(v) \/ Crash(v)

Spec == Init /\ [][Next]_vars

----------------------------------------------------------------------------
(* Properties *)

\* A cluster is initialised with the password of the value that initialises it,
\* whatever an earlier value left in the password file, however late the write
\* is and whatever fails, unless another value uses the same password file.
OwnPassword == [][
    \A v \in alone :
        pc[v] = "initdb" /\ clusters'[dir[v]] \notin {clusters[dir[v]], None} =>
            clusters'[dir[v]] = v ]_vars

\* The password in db_uri is that of the cluster behind it: whoever is set up on
\* a directory finds no cluster with another password there, unless a value that
\* used the directory before was persistent (such a cluster keeps its password),
\* gave its initdb up, lost its process or could not remove the directory: in
\* each of these cases a cluster with the earlier password may be there, or yet
\* to come, and setup accepts it.  It takes nothing else: an initdb or a setup
\* that failed, a write that was late or lost, a password file that an earlier
\* value left or created after its drop do no harm.  The password file must not
\* be shared.
PasswordFits ==
    \A v \in alone :
        /\ pc[v] = "ready"
        /\ \A w \in (kept \union untidy) \ {v} : dir[w] # dir[v]
        => clusters[dir[v]] = v

\* Without a fault, and with a password file of its own, setup succeeds: also
\* over the cluster or the password file of an earlier value, and when another
\* value shares the binaries.
SetupSucceeds == faults = {} => \A v \in alone : pc[v] # "failed"

\* The password of a value that is not persistent is in no password file when
\* the value is dropped, and no write is under way that would bring it back (a
\* process that ends without the drop leaves it).
SecretGone ==
    faults \intersect {"clean_pw", "crash"} = {} =>
        \A v \in Values \ kept : pc[v] = "dropped" /\ dir[v] # None =>
            pwfile[PwFile(dir[v])] # v /\ v \notin pending

\* The binaries a value finds in its cache directory are built for its platform
\* and its version, whoever downloaded them.
PackageFits ==
    \A v \in Values :
        pc[v] \in {"acquired", "created", "written", "initdb", "ready"} =>
            /\ packages[CacheDir(fetch[v])] # None
            /\ packages[CacheDir(fetch[v])].platform = Platform(fetch[v])
            /\ packages[CacheDir(fetch[v])].version = fetch[v].version
============================================================================
