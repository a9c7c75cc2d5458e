---------------------------- MODULE MCAccountData ----------------------------
(* An instance of AccountData for TLC: an account with two garments, a parse  *)
(* job and a palette, a stranger's garment, the garments of a parse, an       *)
(* outfit of two and a wear to come, and a deletion sent twice.               *)
EXTENDS AccountData, TLC

CONSTANTS anna, bea, j, g1, g2, g3, g4, pal, s1,
          o2, m2, m3, w2, parse, outfit, wear, d1, d2

MCTable ==
    j :> "parse_jobs" @@ g1 :> "wardrobe_items" @@ g2 :> "wardrobe_items"
    @@ g3 :> "wardrobe_items" @@ g4 :> "wardrobe_items" @@ pal :> "palette_profile"
    @@ s1 :> "wardrobe_items" @@ o2 :> "outfits" @@ m2 :> "outfit_items"
    @@ m3 :> "outfit_items" @@ w2 :> "wear_log"

MCRows == DOMAIN MCTable
MCOwner == s1 :> bea @@ [r \in MCRows |-> anna]

MCRefs ==
    [r \in MCRows |->
        CASE r \in {g2, g3, g4} -> {j}
          [] r = m2 -> {o2, g1}
          [] r = m3 -> {o2, g2}
          [] r = w2 -> {g2}
          [] OTHER -> {}]

MCPlace == j :> 1 @@ g1 :> 2 @@ g2 :> 3 @@ s1 :> 4 @@ g3 :> 5 @@ g4 :> 6 @@ o2 :> 7
           @@ m2 :> 8 @@ m3 :> 9 @@ w2 :> 10 @@ pal :> 11

MCStored == {j, g1, g2, pal, s1}

\* The garments of one parse share a stamp.
MCCreatedAt == [r \in MCRows |-> CASE r = g1 -> 1 [] OTHER -> 2]
MCId == g1 :> 2 @@ g2 :> 3 @@ g3 :> 1 @@ g4 :> 4 @@ s1 :> 5

MCBatch == parse :> {g3, g4} @@ outfit :> {o2, m2, m3} @@ wear :> {w2}

MCTokens == [signed : BOOLEAN, ours : BOOLEAN, expiry : {"ahead", "none", "past"}, sub : {anna}]

\* The two deletions are copies of one request.
Retries == Permutations(Deleters)
=============================================================================
