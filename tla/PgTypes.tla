------------------------------- MODULE PgTypes -------------------------------
(***************************************************************************)
(* The data types the components share: server status, process types and   *)
(* the status and error each maps to, the errors of the library, and the   *)
(* settings that name a binary package and its place in the cache.         *)
(***************************************************************************)

\* PgServerStatus
PgServerStatus == {"Uninitialized", "Initializing", "Initialized", "Starting",
                   "Started", "Stopping", "Stopped", "Failure"}

\* PgProcessType, by the names it displays.
Commands == {"initdb", "start", "stop"}

\* Error.  PgPurgeFailure, PgBufferReadError, PgLockError, PgProcessError and
\* SendFailure exist although nothing returns them.
Error == {"InvalidPgUrl", "InvalidPgPackage", "WriteFileError", "ReadFileError",
          "DirCreationError", "UnpackFailure", "PgStartFailure",
          "PgStopFailure", "PgInitFailure", "PgCleanUpFailure",
          "PgPurgeFailure", "PgBufferReadError", "PgLockError",
          "PgProcessError", "PgTimedOutError", "PgTaskJoinError", "PgError",
          "DownloadFailure", "ConversionFailure", "SendFailure",
          "SqlQueryError", "MigrationError"}

----------------------------------------------------------------------------
(* ProcessStatus for PgProcessType *)

StatusExit(c) == CASE c = "initdb" -> "Initialized"
                   [] c = "start"  -> "Started"
                   [] c = "stop"   -> "Stopped"

ErrorType(c) == CASE c = "initdb" -> "PgInitFailure"
                  [] c = "start"  -> "PgStartFailure"
                  [] c = "stop"   -> "PgStopFailure"

TimeoutError == "PgTimedOutError"
WrapError    == "PgError"

----------------------------------------------------------------------------
(* Packages and their place in the cache *)

OperationSystem == {"Darwin", "Windows", "Linux", "AlpineLinux"}

Architecture == {"Amd64", "I386", "Arm32v6", "Arm32v7", "Arm64v8", "Ppc64le"}

\* PG_V10 .. PG_V18
PostgresVersion == {"10.23.0", "11.22.1", "12.22.0", "13.23.0", "14.21.0",
                    "15.16.0", "16.12.0", "17.8.0", "18.2.0"}

\* PgFetchSettings, for the repositories a program uses.
PgFetchSettings(Hosts) ==
    [host : Hosts, operating_system : OperationSystem,
     architecture : Architecture, version : PostgresVersion]

\* The defaults for the target a program is compiled for.  Alpine is a linux
\* like any other, and what is not known counts as macOS on amd64.
DefaultSystem(target_os) ==
    CASE target_os = "linux"   -> "Linux"
      [] target_os = "windows" -> "Windows"
      [] OTHER                 -> "Darwin"

DefaultArchitecture(target_arch) ==
    CASE target_arch = "x86"       -> "I386"
      [] target_arch = "arm"       -> "Arm32v7"
      [] target_arch = "aarch64"   -> "Arm64v8"
      [] target_arch = "powerpc64" -> "Ppc64le"
      [] OTHER                     -> "Amd64"

DefaultSettings(target_os, target_arch) ==
    [host |-> "https://repo1.maven.org",
     operating_system |-> DefaultSystem(target_os),
     architecture |-> DefaultArchitecture(target_arch), version |-> "18.2.0"]

\* Display for OperationSystem: Alpine shows as linux.
OsName(os) == CASE os = "Darwin"  -> "darwin"
                [] os = "Windows" -> "windows"
                [] os \in {"Linux", "AlpineLinux"} -> "linux"

\* Display for Architecture.
ArchName(arch) == CASE arch = "Amd64"   -> "amd64"
                    [] arch = "I386"    -> "i386"
                    [] arch = "Arm32v6" -> "arm32v6"
                    [] arch = "Arm32v7" -> "arm32v7"
                    [] arch = "Arm64v8" -> "arm64v8"
                    [] arch = "Ppc64le" -> "ppc64le"

\* PgFetchSettings::platform, the classifier of the artifact, by its parts.
Platform(s) ==
    <<OsName(s.operating_system), ArchName(s.architecture),
      IF s.operating_system = "AlpineLinux" THEN "-alpine" ELSE "">>

\* The artifact start_download asks for: host, classifier and version.
Artifact(s) == [host |-> s.host, platform |-> Platform(s), version |-> s.version]

\* Mutant: the cache path uses the displayed name of every system.
CacheDir_displayed(s) ==
    <<"", OsName(s.operating_system), ArchName(s.architecture), s.version>>

\* create_cache_dir_structure: {os}/{arch}/{version} under the cache directory,
\* where Alpine is set apart by a prefix.  The host is not part of the path.
CacheDir(s) ==
    <<IF s.operating_system = "AlpineLinux" THEN "arch_" ELSE "",
      OsName(s.operating_system), ArchName(s.architecture), s.version>>
============================================================================
