---- MODULE MCPgSession ----
(* One install of an extension that is a single library, two calls about *)
(* one database, two migrations of which the second needs the extension.   *)
EXTENDS PgSession, TLC
CONSTANTS i1, b1, library, t1, t2, app, postgres
MCKindOf == library :> "library"
MCMigrations == <<"plain", "extension">>
MCFaults == {}
MCDbFaults == {"error", "crash"}
====
