-------------------------- MODULE ResourceGovernor --------------------------
(***************************************************************************)
(* The resource governor, scripts/acorn-resource-governor.mjs: what work   *)
(* may still consume of each axis (cpu_ms, actions, ...), and the usage    *)
(* that a reservation leaves.  It keeps no state: whoever reserves hands   *)
(* in the usage and keeps the one returned.  A limit is always a finite    *)
(* number, the default where the environment has none.                     *)
(***************************************************************************)
EXTENDS Integers

CONSTANTS
    Axes,  \* the axes that bind, out of RESOURCE_AXES
    Limits \* limitsFromEnv

ASSUME LimitsAssumption == Limits \in [Axes -> Nat]

Usage == [Axes -> Nat]
NoUsage == [axis \in Axes |-> 0]

RemainingBudget(usage) == [axis \in Axes |-> Limits[axis] - usage[axis]]

(* Mutant: the axis with the most left decides. *)
CanConsumeSome(usage, cost) == \E axis \in Axes : cost[axis] <= RemainingBudget(usage)[axis]
CanConsume(usage, cost) == \A axis \in Axes : cost[axis] <= RemainingBudget(usage)[axis]
Reserved(usage, cost) == [axis \in Axes |-> usage[axis] + cost[axis]]
=============================================================================
