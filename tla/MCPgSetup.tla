----------------------------- MODULE MCPgSetup -----------------------------
(***************************************************************************)
(* Two values on three database directories, two of which share a password *)
(* file, with fetch settings that differ in the host and in the system.    *)
(***************************************************************************)
EXTENDS PgSetup, TLC

\* /x/a.1, /x/a.2 and /x/b
MCDirectories == {<<"a", "1">>, <<"a", "2">>, <<"b", "">>}

\* The defaults on amd64 linux, with another host, and for Alpine.
MCSettings ==
    LET default == DefaultSettings("linux", "x86_64") IN
    { default, [default EXCEPT !.host = "mirror"],
      [default EXCEPT !.operating_system = "AlpineLinux"] }

\* The values are interchangeable.
MCSymmetry == Permutations(Values)
=============================================================================
