---- MODULE MCPgExtension ----
(* Two calls, two builds, an extension of a library and a script next to *)
(* a file that is skipped.                                                 *)
EXTENDS PgExtension, TLC
CONSTANTS i1, i2, b1, b2, library, script, readme
MCKindOf ==
    (library :> "library") @@ (script :> "script") @@ (readme :> "other")
MCFaults == {"io", "cancel", "purge"}
MCSymmetry == Permutations(Installers) \union Permutations(Builds)
====
