------------------------- MODULE MCCommercialOrders -------------------------
(* Instances of CommercialOrders for TLC: events by what they are.  Every    *)
(* event is about order o1 except weird, which names no order, and paid2,    *)
(* about o2; wrong is a payment of another amount, bare one that names none. *)
EXTENDS CommercialOrders, TLC

CONSTANTS o1, o2, paid, again, wrong, completed, failed, refund, dispute, other,
          weird, bare, paid2

Type == paid :> "payment" @@ again :> "payment" @@ wrong :> "payment"
        @@ completed :> "completed" @@ failed :> "failed" @@ refund :> "refund"
        @@ dispute :> "dispute" @@ other :> "other" @@ weird :> "unknown"
        @@ bare :> "payment" @@ paid2 :> "payment"

MCKind == [e \in Events |-> Type[e]]
MCOrderOf == [e \in Events |-> IF e \in {weird, bare} THEN None
                               ELSE IF e = paid2 THEN o2 ELSE o1]
MCAmount == [e \in Events |-> IF e = wrong THEN "mismatch"
                              ELSE IF e \in {weird, other} THEN "none" ELSE "match"]

Symmetry == Permutations(Handlers)
=============================================================================
