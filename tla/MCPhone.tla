------------------------------ MODULE MCPhone ------------------------------
EXTENDS Phone

CONSTANTS u1, u2, top1, dress1, shoes1, look1, look2, call1, call2

MCUsers == {u1, u2}
MCGarments == {top1, dress1, shoes1}
MCLooks == {look1, look2}
MCLanes == {call1, call2}
MCOwner == [g \in MCGarments |-> u1]
MCSlotOf == (top1 :> "top") @@ (dress1 :> "dress") @@ (shoes1 :> "shoes")

MCAlike == <<{dress1, shoes1}, {top1, shoes1}>>

Bounds(acts, moves, faults, ages) ==
  [acts |-> acts, moves |-> moves, faults |-> faults, ages |-> ages]
Rack(clean, dirty) ==
  [status |-> [g \in MCGarments |-> IF g \in clean THEN "clean"
                                    ELSE IF g \in dirty THEN "dirty" ELSE "gone"],
   worn |-> [g \in MCGarments |-> 0],
   looks |-> [l \in MCLooks |-> NoLook], palette |-> {}]
OnePhoto == [Rack({top1}, {}) EXCEPT !.status[dress1] = "unmade"]
Scene(tabs, users, start, booted, bounds) ==
  [tabs |-> tabs, users |-> users, store |-> start, booted |-> booted, left |-> bounds]

\* A load of laundry; a look worn, then another; merges and looks; the
\* builder; two people on one phone; photos added around a deletion.
MCPlans ==
  {Scene({"wardrobe", "laundry"}, {u1}, Rack({}, {top1, shoes1}), TRUE, Bounds(2, 3, 0, 0)),
   Scene({"wardrobe", "laundry"}, {u1}, Rack({}, {top1, shoes1}), TRUE, Bounds(2, 2, 1, 0)),
   Scene({"wardrobe", "suggestions"}, {u1}, Rack({top1, shoes1}, {}), TRUE, Bounds(1, 2, 1, 0)),
   Scene({"wardrobe", "suggestions"}, {u1}, Rack({top1}, {}), TRUE, Bounds(2, 2, 0, 0)),
   Scene({"wardrobe", "suggestions"}, {u1}, Rack({top1}, {shoes1}), TRUE, Bounds(2, 1, 0, 0)),
   Scene({"wardrobe", "outfits"}, {u1},
         [Rack({dress1, shoes1}, {}) EXCEPT
            !.looks[look1] = [of |-> u1, items |-> {dress1, shoes1}, name |-> "named"]],
         TRUE, Bounds(2, 2, 0, 0)),
   Scene({"outfits"}, {u1}, Rack({top1, dress1, shoes1}, {}), TRUE, Bounds(1, 1, 1, 0)),
   Scene({"wardrobe", "account"}, {u1, u2},
         [Rack({top1}, {}) EXCEPT !.palette = {u1}], FALSE, Bounds(2, 2, 0, 0)),
   Scene({"wardrobe", "account"}, {u1, u2},
         [Rack({top1}, {}) EXCEPT !.palette = {u1}], FALSE, Bounds(1, 2, 0, 1)),
   Scene({"wardrobe", "add", "account"}, {u1}, OnePhoto, TRUE, Bounds(2, 3, 0, 0)),
   Scene({"wardrobe", "add"}, {u1, u2}, OnePhoto, TRUE, Bounds(2, 2, 1, 0))}
=============================================================================
