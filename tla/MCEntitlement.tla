---------------------------- MODULE MCEntitlement ----------------------------
(* Instances of Entitlement for TLC. *)
EXTENDS Entitlement, TLC

CONSTANTS u1, e1, e2, e3, d1, d2, d3

OneUser == {u1}
ThreeEvents == {e1, e2, e3}
TwoDeliveries == {d1, d2}

\* Events and deliveries are interchangeable.
Interchangeable == Permutations(Events) \cup Permutations(Deliveries)
=============================================================================
