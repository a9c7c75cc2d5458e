------------------------------- MODULE Suggest -------------------------------
(***************************************************************************)
(* Today's look: suggestItems (packages/shared/src/suggestion.ts) over     *)
(* stored rows (wardrobeSuggestion.ts), and the two re-runs with which     *)
(* SuggestionsScreen decides what its explanation may claim.               *)
(*                                                                         *)
(* A row is [id, category, availability, color]; ids are integers in the   *)
(* order of the code's string comparison.  A palette or a recent-wear list *)
(* that has not arrived yet is the empty set, as on the screen.            *)
(***************************************************************************)
EXTENDS ColorRules, Lists

WarmthByCategory ==
  [outerwear |-> 4, top |-> 2, dress |-> 2, bottom |-> 2, shoes |-> 1, accessory |-> 1]

\* An unrecognised category is kept, at the lightest warmth that is not zero.
ToSuggestionItem(row) ==
  [id |-> row.id, status |-> row.availability, family |-> ColorFamily(row.color),
   warmth |-> IF row.category \in DOMAIN WarmthByCategory
              THEN WarmthByCategory[row.category] ELSE 1]

AggregateWarmth(items) == Total([i \in DOMAIN items |-> items[i].warmth], Len(items))

\* 1 + ceil((25 - tempC) / 10), never below 1.
TargetLayerCount(tempC) ==
  IF tempC >= 25 THEN 1 ELSE 1 + (25 - tempC + 9) \div 10

Affinity(item, palette) ==
  IF item.family = None THEN 0 ELSE PaletteAffinity(item.family, palette)

Bug_BeforePaletteFirst(x, y, palette, recent) ==
  LET ax == Affinity(x, palette)
      ay == Affinity(y, palette)
  IN  \/ ax > ay
      \/ ax = ay /\ x.warmth > y.warmth
      \/ ax = ay /\ x.warmth = y.warmth /\ x.id < y.id

Bug_BeforeWornFirst(x, y, palette, recent) ==
  LET ax == Affinity(x, palette)
      ay == Affinity(y, palette)
  IN  \/ x.warmth > y.warmth
      \/ x.warmth = y.warmth /\ ax > ay
      \/ x.warmth = y.warmth /\ ax = ay /\ x.id \in recent /\ y.id \notin recent
      \/ /\ x.warmth = y.warmth /\ ax = ay
         /\ (x.id \in recent) = (y.id \in recent)
         /\ x.id < y.id

\* The comparator, key by key: warmer, then nearer the palette, then not
\* worn recently, then the lower id.
Before(x, y, palette, recent) ==
  LET ax == Affinity(x, palette)
      ay == Affinity(y, palette)
  IN  \/ x.warmth > y.warmth
      \/ x.warmth = y.warmth /\ ax > ay
      \/ x.warmth = y.warmth /\ ax = ay /\ x.id \notin recent /\ y.id \in recent
      \/ /\ x.warmth = y.warmth /\ ax = ay
         /\ (x.id \in recent) = (y.id \in recent)
         /\ x.id < y.id

\* suggestItems: the chosen garments in order; << >> is the fallback
\* (no_clean_items).
SuggestItems(rows, tempC, hues, recent) ==
  LET palette == PaletteFromSwatches(hues)
      clean == {item \in {ToSuggestionItem(row) : row \in rows} : item.status = "clean"}
      ranked == Sorted(clean, {xy \in clean \X clean : Before(xy[1], xy[2], palette, recent)})
  IN  SubSeq(ranked, 1, Least(TargetLayerCount(tempC), Len(ranked)))

ChosenIds(look) == [i \in DOMAIN look |-> look[i].id]

\* SuggestionsScreen's two attributions: run again without the input and
\* compare the chosen ids in order.
PaletteInfluencedOrder(rows, tempC, hues, recent) ==
  /\ hues # {}
  /\ ChosenIds(SuggestItems(rows, tempC, {}, {}))
       # ChosenIds(SuggestItems(rows, tempC, hues, recent))
FreshnessInfluencedOrder(rows, tempC, hues, recent) ==
  /\ recent # {}
  /\ ChosenIds(SuggestItems(rows, tempC, hues, {}))
       # ChosenIds(SuggestItems(rows, tempC, hues, recent))
=============================================================================
