--------------------------- MODULE EntitlementOnce ---------------------------
(***************************************************************************)
(* What the billing webhook promises, with nothing of how: an entitlement  *)
(* event is consumed at most once, in any order, and the subscription of a *)
(* user is the newest event consumed since the account was last deleted.   *)
(***************************************************************************)
EXTENDS Naturals

CONSTANTS Users, Events, Types, NoRow

VARIABLES
    event,     \* event[e]: [user, stamp, type]
    consumed,  \* the events that took part in a decision
    row        \* row[u]: NoRow or [stamp, active]

vars == <<event, consumed, row>>

Init ==
    /\ event \in [Events -> [user : Users, stamp : Nat, type : Types]]
    /\ consumed = {}
    /\ row = [u \in Users |-> NoRow]

Newest(old, new) == IF old = NoRow \/ new.stamp >= old.stamp THEN new ELSE old

Consume(e) ==
    /\ e \notin consumed
    /\ consumed' = consumed \cup {e}
    /\ row' = [row EXCEPT ![event[e].user] =
                 Newest(@, [stamp |-> event[e].stamp, active |-> event[e].type = "grant"])]
    /\ UNCHANGED event

Forget(u) ==
    /\ row' = [row EXCEPT ![u] = NoRow]
    /\ UNCHANGED <<event, consumed>>

Next == (\E e \in Events : Consume(e)) \/ (\E u \in Users : Forget(u))

Spec == Init /\ [][Next]_vars
=============================================================================
