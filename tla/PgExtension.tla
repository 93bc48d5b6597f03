----------------------------- MODULE PgExtension -----------------------------
(***************************************************************************)
(* PgAccess::install_extension: the files of an extension are copied into  *)
(* the cache of binaries, one after the other and without a lock.  Calls   *)
(* of one or of several programs overlap with each other, with the         *)
(* acquisition of the binaries and with purge.                             *)
(*                                                                         *)
(* tokio::fs::copy truncates the destination and fills it on a thread that *)
(* a dropped future does not stop.  A file is described by the builds of   *)
(* the extension that may have bytes in it, and by whether a copy begun    *)
(* with its last truncation has come to its end.                           *)
(***************************************************************************)
EXTENDS Sequences, Naturals

CONSTANTS
    Installers,  \* calls of install_extension
    Builds,      \* builds of the extension, each with the same file names
    Entries,     \* the entries of an extension's directory
    KindOf,      \* what the name of an entry says it is
    None,
    Faults       \* the kinds of fault the environment may produce

FaultKinds == {
    "io",        \* a check, a directory, a read or a copy fails
    "cancel",    \* the future of install_extension is dropped
    "purge" }    \* PgAccess::purge is called

\* .so, .dylib and .dll; .control and .sql; all else and subdirectories
Kinds == {"library", "script", "other"}

ASSUME EntriesAssumption == KindOf \in [Entries -> Kinds]
ASSUME FaultsAssumption  == Faults \subseteq FaultKinds

VARIABLES
    binaries,  \* the binaries are unpacked
    layout,    \* where the server of this package looks for the scripts
    tree,      \* the directories that exist in the cache
    file,      \* the state of each destination file
    pc,        \* where a call is, or how it ended
    build,     \* the build it installs
    share,     \* the candidate it looks at, then the one it has chosen
    todo,      \* the entries it has still to look at
    queued,    \* the cancelled calls whose copy still waits for its thread
    copying,   \* the file its copy writes, also after the call has ended
    intact,    \* the calls whose copy nobody has truncated since
    before,    \* the calls that were over when it began (history)
    stale,     \* the calls begun before the last purge (history)
    missed,    \* a call found no share directory to choose (history)
    faults     \* the kinds of fault that have happened (history)

cache   == <<binaries, layout, tree>>
calls   == <<pc, build, share, todo, before>>
files   == <<file, queued, copying, intact>>
history == <<stale, missed, faults>>
vars    == <<cache, calls, files, history>>

Lib        == "lib"
Candidates == <<"share/postgresql/extension", "share/extension">>
Layouts    == {Candidates[n] : n \in DOMAIN Candidates}
Wanted     == {e \in Entries : KindOf[e] # "other"}
Libraries  == {e \in Entries : KindOf[e] = "library"}
Paths      == ({Lib} \X Libraries) \union (Layouts \X (Wanted \ Libraries))

ASSUME NoneAssumption == None \notin Paths

Failures == {"DirCreationError", "ReadFileError", "WriteFileError"}
Outcomes == Failures \union {"ok", "cancelled"}
Running  == {"share", "lib", "share_dir", "read_dir", "entries"}

Over(i) == pc[i] \in Outcomes /\ copying[i] = None /\ i \notin queued

TypeOK ==
    /\ binaries \in BOOLEAN /\ layout \in Layouts
    /\ tree \subseteq Layouts \union {Lib}
    /\ file \in [Paths -> [by : SUBSET Builds, whole : BOOLEAN]]
    /\ pc \in [Installers -> Running \union Outcomes \union {"idle"}]
    /\ build \in [Installers -> Builds]
    /\ share \in [Installers -> DOMAIN Candidates]
    /\ todo \in [Installers -> SUBSET Entries]
    /\ queued \subseteq {i \in Installers : pc[i] = "cancelled" /\ copying[i] = None}
    /\ copying \in [Installers -> Paths \union {None}]
    /\ intact \subseteq {i \in Installers : copying[i] # None}
    /\ before \in [Installers -> SUBSET Installers]
    /\ stale \subseteq Installers /\ missed \in BOOLEAN
    /\ faults \subseteq Faults
    /\ \A i \in Installers : pc[i] = "ok" => todo[i] = {} /\ copying[i] = None

Absent == [by |-> {}, whole |-> FALSE]

Init ==
    /\ binaries = FALSE /\ layout \in Layouts /\ tree = {}
    /\ file = [p \in Paths |-> Absent]
    /\ pc = [i \in Installers |-> "idle"]
    /\ build \in [Installers -> Builds]
    /\ share = [i \in Installers |-> 1]
    /\ todo = [i \in Installers |-> {}]
    /\ queued = {} /\ copying = [i \in Installers |-> None] /\ intact = {}
    /\ before = [i \in Installers |-> {}]
    /\ stale = {} /\ missed = FALSE /\ faults = {}

Fault(kind) == kind \in Faults /\ faults' = faults \union {kind}
Goto(i, label) == pc' = [pc EXCEPT ![i] = label]

----------------------------------------------------------------------------
(* The cache *)

\* maybe_acquire_postgres unpacks a package with its own layout.
Unpack ==
    /\ ~binaries
    /\ binaries' = TRUE /\ tree' = tree \union {Lib, layout}
    /\ UNCHANGED <<layout, calls, files, history>>

\* purge removes the cache under whatever is going on; a copy that runs goes
\* on into a file without a name.
Purge ==
    /\ tree # {} /\ Fault("purge")
    /\ binaries' = FALSE /\ tree' = {}
    /\ file' = [p \in Paths |-> Absent] /\ intact' = {}
    /\ stale' = {i \in Installers : pc[i] # "idle"}
    /\ UNCHANGED <<layout, calls, queued, copying, missed>>

----------------------------------------------------------------------------
(* install_extension *)

Begin(i) ==
    /\ pc[i] = "idle" /\ Goto(i, "share")
    /\ before' = [before EXCEPT ![i] = {j \in Installers : Over(j)}]
    /\ UNCHANGED <<cache, build, share, todo, files, history>>

\* Mutant: the standard location, without a look at the layout.
ShareExtensionDir_standard(i) ==
    /\ pc[i] = "share" /\ Goto(i, "lib")
    /\ UNCHANGED <<cache, build, share, todo, before, files, history>>

\* share_extension_dir, one candidate a step: the first that exists, else the
\* first of all.  A check that fails is taken for a no.
ShareExtensionDir(i) ==
    /\ pc[i] = "share"
    /\ \/ /\ Candidates[share[i]] \in tree
          /\ Goto(i, "lib") /\ UNCHANGED <<share, missed, faults>>
       \/ /\ \/ Candidates[share[i]] \notin tree /\ UNCHANGED faults
             \/ Candidates[share[i]] \in tree /\ Fault("io")
          /\ \/ /\ share[i] < Len(Candidates)
                /\ share' = [share EXCEPT ![i] = @ + 1]
                /\ UNCHANGED <<pc, missed>>
             \/ /\ share[i] = Len(Candidates)
                /\ share' = [share EXCEPT ![i] = 1] /\ Goto(i, "lib")
                /\ missed' = TRUE
    /\ UNCHANGED <<cache, build, todo, before, files, stale>>

ShareDir(i) == Candidates[share[i]]

\* create_dir_all for lib, then for the share directory; both make the cache
\* directory again when it was purged.
CreateDirs(i) ==
    /\ \/ /\ pc[i] = "lib" /\ Goto(i, "share_dir")
          /\ tree' = tree \union {Lib}
       \/ /\ pc[i] = "share_dir" /\ Goto(i, "read_dir")
          /\ tree' = tree \union {ShareDir(i)}
    /\ UNCHANGED <<binaries, layout, build, share, todo, before, files,
                   history>>

ReadDir(i) ==
    /\ pc[i] = "read_dir" /\ Goto(i, "entries")
    /\ todo' = [todo EXCEPT ![i] = Entries]
    /\ UNCHANGED <<cache, build, share, before, files, history>>

\* An error of a directory, of the listing or of an entry ends the call.
InstallError(i) ==
    /\ Fault("io") /\ copying[i] = None
    /\ \/ pc[i] \in {"lib", "share_dir"} /\ Goto(i, "DirCreationError")
       \/ pc[i] \in {"read_dir", "entries"} /\ Goto(i, "ReadFileError")
    /\ UNCHANGED <<cache, build, share, todo, before, files, stale, missed>>

\* Mutant: scripts are taken for libraries.
Destination_libOnly(i, e) == Lib

\* The directory an entry is copied to.
Destination(i, e) == IF KindOf[e] = "library" THEN Lib ELSE ShareDir(i)

\* next_entry, in the order of the file system: all but the extension's own
\* files is skipped.
Skip(i) ==
    /\ pc[i] = "entries" /\ copying[i] = None
    /\ \E e \in todo[i] \ Wanted : todo' = [todo EXCEPT ![i] = @ \ {e}]
    /\ UNCHANGED <<cache, pc, build, share, before, files, history>>

Writers(p) == {i \in Installers : copying[i] = p}

Truncate(i, p) ==
    /\ file' = [file EXCEPT ![p] =
                  [by |-> {build[j] : j \in Writers(p) \union {i}},
                   whole |-> FALSE]]
    /\ copying' = [copying EXCEPT ![i] = p]
    /\ intact' = (intact \ Writers(p)) \union {i}

\* A copy is asked for, by a call that waits for it or did before its end.
Asked(i) == copying[i] = None /\ (pc[i] = "entries" \/ i \in queued)

\* The copy begins; whoever else writes the file writes on.
CopyBegin(i) ==
    /\ Asked(i)
    /\ \E e \in todo[i] \intersect Wanted :
          /\ Destination(i, e) \in tree
          /\ Truncate(i, <<Destination(i, e), e>>)
    /\ queued' = queued \ {i}
    /\ UNCHANGED <<cache, calls, history>>

\* The destination cannot be opened: its directory is gone, or an i/o error.
CopyNone(i) ==
    /\ Asked(i)
    /\ \E e \in todo[i] \intersect Wanted :
          \/ Destination(i, e) \notin tree /\ UNCHANGED faults
          \/ Destination(i, e) \in tree /\ Fault("io")
    /\ pc' = IF pc[i] = "entries" THEN [pc EXCEPT ![i] = "WriteFileError"]
                                  ELSE pc
    /\ queued' = queued \ {i}
    /\ UNCHANGED <<cache, build, share, todo, before, file, copying, intact,
                   stale, missed>>

\* What the end of a copy leaves in the file.
Copied(i) ==
    /\ file' = IF i \in intact THEN [file EXCEPT ![copying[i]].whole = TRUE]
                               ELSE file
    /\ copying' = [copying EXCEPT ![i] = None] /\ intact' = intact \ {i}

\* The copy ends, and the call goes on with the next entry if there still is
\* a call.
CopyEnd(i) ==
    /\ copying[i] # None
    /\ Copied(i)
    /\ todo' = IF pc[i] = "entries"
                 THEN [todo EXCEPT ![i] = @ \ {copying[i][2]}] ELSE todo
    /\ UNCHANGED <<cache, pc, build, share, before, queued, history>>

\* The copy fails and leaves part of the file.
CopyFail(i) ==
    /\ copying[i] # None /\ Fault("io")
    /\ copying' = [copying EXCEPT ![i] = None] /\ intact' = intact \ {i}
    /\ pc' = IF pc[i] = "entries" THEN [pc EXCEPT ![i] = "WriteFileError"]
                                  ELSE pc
    /\ UNCHANGED <<cache, file, queued, build, share, todo, before, stale, missed>>

Ok(i) ==
    /\ pc[i] = "entries" /\ copying[i] = None /\ todo[i] = {}
    /\ Goto(i, "ok")
    /\ UNCHANGED <<cache, build, share, todo, before, files, history>>

\* The future is dropped: a copy that was asked for is not, whether it runs or
\* still waits for a thread of the runtime.
Cancel(i) ==
    /\ pc[i] \in Running /\ Fault("cancel")
    /\ Goto(i, "cancelled")
    /\ queued' \in {queued, queued \union {j \in {i} : Asked(j)}}
    /\ UNCHANGED <<cache, build, share, todo, before, file, copying, intact,
                   stale, missed>>

\* What the runtime does of itself, as against what the user does.
Step(i) ==
    \/ ShareExtensionDir(i) \/ CreateDirs(i) \/ ReadDir(i) \/ InstallError(i)
    \/ Skip(i) \/ CopyBegin(i) \/ CopyNone(i) \/ CopyEnd(i) \/ CopyFail(i)
    \/ Ok(i)

Next ==
    \/ Unpack \/ Purge
    \/ \E i \in Installers : Begin(i) \/ Step(i) \/ Cancel(i)

Spec == Init /\ [][Next]_vars

----------------------------------------------------------------------------
(* What an installation promises *)

\* Where the server looks for a file of the extension.
Place(e) == <<IF KindOf[e] = "library" THEN Lib ELSE layout, e>>

Has(b) == \A e \in Wanted : file[Place(e)] = [by |-> {b}, whole |-> TRUE]

\* The server of this package finds one build of the extension, whole.
Usable ==
    /\ binaries /\ \E b \in Builds : Has(b)
    /\ \A i \in Installers : copying[i] = None

\* An install before setup finds no share directory and makes the standard
\* one, in a package that may have another; every later install then takes it
\* for the package's own.
Misplaced == missed /\ layout # Candidates[1]

\* Another call cannot have spoiled what i wrote: it was over before, has not
\* begun, or writes the same bytes and its last copy has not failed, which
\* nobody learns of a cancelled call.
Harmless(j, i) ==
    \/ j \in before[i] \/ pc[j] = "idle"
    \/ /\ build[j] = build[i] /\ pc[j] # "WriteFileError"
       /\ pc[j] = "cancelled" => "io" \notin faults

\* install_extension has returned Ok, the cache was not purged since it began,
\* no call made a share directory of its own, and no other call interfered:
\* every file of the extension is whole, of this build, and where the server
\* looks for it, whatever earlier installs, failed or cancelled, had left there.
InstalledMeansUsable ==
    \A i \in Installers :
        /\ pc[i] = "ok" /\ i \notin stale /\ ~Misplaced
        /\ \A j \in Installers \ {i} : Harmless(j, i) /\ copying[j] = None
        => Has(build[i])
============================================================================
