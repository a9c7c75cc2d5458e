----------------------------- MODULE PhoneDraft -----------------------------
(***************************************************************************)
(* The selections the phone keeps in one useState each: the outfit draft   *)
(* of features/outfits/draft.ts and the laundry basket of                  *)
(* features/laundry/basket.ts, both pure.                                  *)
(***************************************************************************)
EXTENDS PhoneCache

CONSTANT SlotOf     \* [Garments -> OutfitSlots]: slotForCategory of the garment

OutfitSlots == {"outerwear", "top", "dress", "bottom", "shoes", "accessory"}

ASSUME Slotted == SlotOf \in [Garments -> OutfitSlots] /\ None \notin Garments

Drafts == [OutfitSlots -> Garments \cup {None}]
EmptyDraft == [s \in OutfitSlots |-> None]
Items(draft) == {draft[s] : s \in OutfitSlots} \ {None}

Empties(draft, slots) == [s \in OutfitSlots |-> IF s \in slots THEN None ELSE draft[s]]
Clashing(slot) ==
  CASE slot = "dress" -> {"top", "bottom"}
    [] slot \in {"top", "bottom"} -> {"dress"}
    [] OTHER -> {}

Bug_PlaceOverADress(draft, g) ==
  IF SlotOf[g] = "dress" THEN Empties([draft EXCEPT !["dress"] = g], {"top", "bottom"})
  ELSE [draft EXCEPT ![SlotOf[g]] = g]

\* The occupant of the slot is replaced; what a dress excludes is cleared.
Place(draft, g) == Empties([draft EXCEPT ![SlotOf[g]] = g], Clashing(SlotOf[g]))
TakeOff(draft, slot) == Empties(draft, {slot})

\* Tapping the placed garment takes it out again.
Tap(draft, g) == IF draft[SlotOf[g]] = g THEN TakeOff(draft, SlotOf[g]) ELSE Place(draft, g)

IsComplete(draft) == draft["dress"] # None \/ Cardinality(Items(draft)) >= 2

-----------------------------------------------------------------------------
Toggle(basket, g) == IF g \in basket THEN basket \ {g} ELSE basket \cup {g}
Pending(basket, visible) == basket \cap visible
Bug_PruneKeeps(basket, visible) == basket
Prune(basket, visible) == basket \cap visible
SelectAll(basket, visible) == IF Cardinality(basket) = Cardinality(visible) THEN {} ELSE visible
=============================================================================
