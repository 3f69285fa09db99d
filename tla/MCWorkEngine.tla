---------------------------- MODULE MCWorkEngine ----------------------------
(***************************************************************************)
(* Three pieces of work, one of them rediscovered by every run, under a    *)
(* budget that pays for a few tasks: a dear task first, cheap ones later.  *)
(***************************************************************************)
EXTENDS WorkEngine

CONSTANTS sweep, probe, audit

MCAxes == {"actions", "cpu_ms"}
MCLimits == [axis \in MCAxes |-> IF axis = "actions" THEN 4 ELSE 5]
MCPriority == [w \in Work |-> CASE w = sweep -> 3 [] w = probe -> 2 [] w = audit -> 1]
MCCost == [w \in Work |-> [axis \in MCAxes |-> IF axis = "cpu_ms" /\ w = sweep THEN 3 ELSE 1]]
=============================================================================
