----------------------------- MODULE SchemaPlan -----------------------------
(***************************************************************************)
(* What the migration files promise to whoever reads the database: the     *)
(* schema is a version.  It starts empty and grows by one file at a time,  *)
(* in the order of the files' names, and no file is ever undone.           *)
(*                                                                         *)
(* File 0 is the table of records itself, schema_migrations.               *)
(***************************************************************************)
EXTENDS Integers

CONSTANT NFiles

VARIABLE schema    \* the files whose statements have been committed

Init == schema = {}

Grow == \E k \in 0..NFiles :
    /\ schema = 0..(k - 1)
    /\ schema' = 0..k

Spec == Init /\ [][Grow]_schema
=============================================================================
