---------------------------- MODULE MCMigration ----------------------------
(* An old and a new server, and the migrate command of both releases. *)
EXTENDS Migration, TLC

CONSTANTS old, new, migrate, migrateOld

MCRequired == (old :> 2) @@ (new :> 3) @@ (migrate :> 3) @@ (migrateOld :> 2)
MCVisible == ("sqlite" :> {1, 3}) @@ ("postgres" :> {1, 2})
=============================================================================
