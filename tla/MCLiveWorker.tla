---------------------------- MODULE MCLiveWorker ----------------------------
(* Instances of LiveWorker for TLC: jobs r1, r2 are about requests, o1 is    *)
(* an order the worker ingests, c1 a job the commercial API enqueues.       *)
EXTENDS LiveWorker, TLC

CONSTANTS r1, r2, o1, c1

Rank == r1 :> 1 @@ o1 :> 2 @@ c1 :> 3 @@ r2 :> 4
MCCreatedAt == [j \in Jobs |-> Rank[j]]

\* Processes start alike; jobs differ in kind and rank.
Symmetry == Permutations(Workers)
=============================================================================
