---------------------------- MODULE MCMigrations ----------------------------
(* Two instances of the release that brings the last file, the web service  *)
(* and the worker, start while one of the release before is still there.    *)
EXTENDS Migrations

CONSTANTS old, web, worker

OneReleaseBehind == [s \in Instances |-> IF s = old THEN NFiles - 1 ELSE NFiles]
=============================================================================
