---------------------------- MODULE MCCognition ----------------------------
(* Instances of Cognition for TLC: a roster of three in a fixed order.     *)
(* Positions, projects and clients are only compared for equality.         *)
EXTENDS Cognition, TLC

ThreeThinkers == <<"grok", "mistral", "lechat">>

(* A consensus and a dispute of nobody, and a dispute with one.            *)
SomeClaims == {[status |-> "consensus", disagreement |-> {}],
               [status |-> "disputed", disagreement |-> {}],
               [status |-> "disputed", disagreement |-> {"grok"}]}

Names == Permutations(Positions) \cup Permutations(Projects)
           \cup Permutations(Clients)
=============================================================================
