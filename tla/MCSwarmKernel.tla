--------------------------- MODULE MCSwarmKernel ---------------------------
(* One lease that allows a loss of 1, and one envelope, an invitation.     *)
EXTENDS SwarmKernel

MCLossMax == [l \in Leases |-> 1]
MCNonceOf == [e \in Envelopes |-> "n"]
=============================================================================
