----------------------------- MODULE ColorRules -----------------------------
(***************************************************************************)
(* The colour rules of packages/shared: hex or token to colour family      *)
(* (colorFamily.ts), the harmony of two families on the 12-hue wheel       *)
(* (harmony.ts), the palette of the swatch quiz and its score (palette.ts, *)
(* swatchQuiz.ts), the note under a look and the explanation of it         *)
(* (suggestionNote.ts, suggestionRationale.ts).                            *)
(*                                                                         *)
(* A stored colour is one of                                               *)
(*   [kind |-> "hex", r, g, b]    a #rrggbb value, channels 0..255,        *)
(*   [kind |-> "token", family]   an already canonical family token,       *)
(*   [kind |-> "other"]           null or anything the classifier ignores. *)
(* The code's doubles are replaced by exact fractions of integers.         *)
(***************************************************************************)
EXTENDS Integers, Sequences, FiniteSets

None == "none"
Unknown == -1

(* --- the wheel -------------------------------------------------------- *)
Chromatic == << "red", "orange", "yellow", "chartreuse", "green", "teal",
                "cyan", "azure", "blue", "violet", "magenta", "pink" >>
Neutral == {"black", "white", "gray", "beige", "navy"}
Hues == {Chromatic[i] : i \in DOMAIN Chromatic}
ColorFamilies == Hues \cup Neutral

HueIndex(f) == CHOOSE i \in DOMAIN Chromatic : Chromatic[i] = f

Least(x, y) == IF x < y THEN x ELSE y
Greatest(S) == CHOOSE m \in S : \A x \in S : x <= m
Abs(x) == IF x < 0 THEN -x ELSE x

Bug_HueDistanceClamped(a, b) == Least(Abs(HueIndex(a) - HueIndex(b)), 6)

\* 30-degree steps between two hues the short way round: 0..6.
HueDistance(a, b) ==
  LET raw == Abs(HueIndex(a) - HueIndex(b))
  IN  Least(raw, Len(Chromatic) - raw)

VerdictByDistance ==
  << "monochromatic", "analogous", "clash", "clash",
     "triadic", "split-complementary", "complementary" >>

Harmony(a, b) ==
  IF {a, b} \cap Neutral # {} THEN "neutral"
  ELSE VerdictByDistance[HueDistance(a, b) + 1]

\* Of two colour signals: a pair that clashes by hue is let go when either
\* colour is too muted to have one.
HarmonyWithChroma(s, t) ==
  LET base == Harmony(s.family, t.family)
  IN  IF base = "clash" /\ (s.muted \/ t.muted) THEN "neutral" ELSE base

\* A colour as it is stored: a hex, a family, or something unreadable.
IsColor(c) ==
  \/ c \in [kind : {"hex"}, r : 0..255, g : 0..255, b : 0..255]
  \/ c \in [kind : {"token"}, family : ColorFamilies]
  \/ c \in [kind : {"other"}]

(* --- hex to family ---------------------------------------------------- *)
\* The HSL tests of classify, multiplied out: with M and m the largest and
\* the smallest channel, lightness is (M + m) / 510 and saturation is
\* (M - m) / (255 - |M + m - 255|).
HslWithin(c, m, M) ==
  LET delta == M - m
      room == 255 - Abs(M + m - 255)
      turn == CASE M = c.r -> (c.g - c.b)
                [] M # c.r /\ M = c.g -> (c.b - c.r) + 2 * delta
                [] OTHER -> (c.r - c.g) + 4 * delta
  IN  [sum |-> M + m,
       delta |-> delta,
       hue |-> 60 * turn + (IF turn < 0 THEN 360 * delta ELSE 0),
       muted |-> 100 * delta < 35 * room,
       achromatic |-> \/ delta = 0
                      \/ 100 * delta < 15 * room
                      \/ M + m < 102
                      \/ (M + m) * 100 > 85 * 510]
Hsl(c) == HslWithin(c, -Greatest({-c.r, -c.g, -c.b}), Greatest({c.r, c.g, c.b}))

\* Buckets are centred on each family's angle: red owns [345, 15).
ChromaticFamily(hue, delta) ==
  LET turned == (hue + 15 * delta) % (360 * delta)
  IN  Chromatic[((turned \div (30 * delta)) % 12) + 1]

\* A colour signal: the family, M + m as its lightness (Unknown for a token)
\* and whether its chroma is known to be below MUTED_CHROMA_CEILING.
Signal(family, light, muted) ==
  [family |-> family, light |-> light, muted |-> muted]

\* classify / toColorSignal: total, no family for what it does not model.
HexSignal(h) ==
  Signal(CASE ~h.achromatic -> ChromaticFamily(h.hue, h.delta)
           [] h.achromatic /\ h.sum < 102 -> "black"
           [] h.achromatic /\ h.sum * 100 > 85 * 510 -> "white"
           [] OTHER -> "gray",
         h.sum, h.muted)
ColorSignal(c) ==
  CASE c.kind = "token" -> Signal(c.family, Unknown, FALSE)
    [] c.kind = "other" -> Signal(None, Unknown, FALSE)
    [] c.kind = "hex" -> HexSignal(Hsl(c))

ColorFamily(c) == ColorSignal(c).family

\* familySwatchHex: saturation 0.42, lightness 0.58 at the family's own hue,
\* in ten-thousandths, rounded to a channel; the neutrals are fixed values.
SwatchHex(f) ==
  LET step == HueIndex(f) - 1
      c == 3528
      x == IF step % 4 = 0 THEN 0 ELSE IF step % 2 = 0 THEN c ELSE c \div 2
      sector == step \div 2
      rgb == CASE sector = 0 -> <<c, x, 0>> [] sector = 1 -> <<x, c, 0>>
               [] sector = 2 -> <<0, c, x>> [] sector = 3 -> <<0, x, c>>
               [] sector = 4 -> <<x, 0, c>> [] OTHER -> <<c, 0, x>>
      Channel(v) == ((v + 4036) * 255 + 5000) \div 10000
      Hex(r, g, b) == [kind |-> "hex", r |-> r, g |-> g, b |-> b]
  IN  CASE f = "black" -> Hex(26, 26, 26)
        [] f = "white" -> Hex(245, 245, 245)
        [] f = "gray"  -> Hex(154, 154, 154)
        [] f = "beige" -> Hex(232, 220, 196)
        [] f = "navy"  -> Hex(31, 45, 90)
        [] OTHER -> Hex(Channel(rgb[1]), Channel(rgb[2]), Channel(rgb[3]))

(* --- palette ---------------------------------------------------------- *)
\* Affinity in hundredths.
AffinityByHueStep == <<100, 75, 40, 20, 10, 5, 0>>
NeutralAffinity == 50
WithinPaletteThreshold == 75

PaletteAffinity(family, chosen) ==
  IF chosen = {} THEN 0
  ELSE IF family \in Neutral THEN NeutralAffinity
  ELSE Greatest({IF f \in Neutral THEN NeutralAffinity
                 ELSE AffinityByHueStep[HueDistance(family, f) + 1] : f \in chosen})

\* The quiz keeps the recognised families of what was tapped; its canonical
\* order carries no meaning beyond equality, so the palette is a set.
PaletteFromSwatches(tapped) == tapped \cap ColorFamilies

\* scorePalette on one garment: the score and the "within palette" label.
ScorePalette(colour, hues) ==
  LET family == ColorFamily(colour)
      score == IF family = None THEN 0
               ELSE PaletteAffinity(family, PaletteFromSwatches(hues))
  IN  [score |-> score, within |-> score >= WithinPaletteThreshold]

(* --- note and rationale ------------------------------------------------ *)
\* RANK, from the least harmonious verdict to the most.
WorstFirst == << "clash", "triadic", "split-complementary", "complementary",
                 "analogous", "monochromatic", "neutral" >>

\* signalsOf: the places of a look whose colour is recognised, and their pairs.
SignalsOf(look) == {i \in DOMAIN look : ColorFamily(look[i]) # None}
PairsOf(look) == {p \in SignalsOf(look) \X SignalsOf(look) : p[1] < p[2]}

Verdict(look, p) == HarmonyWithChroma(ColorSignal(look[p[1]]), ColorSignal(look[p[2]]))

WorstOf(verdicts) ==
  WorstFirst[CHOOSE i \in DOMAIN WorstFirst :
               /\ WorstFirst[i] \in verdicts
               /\ \A j \in 1..(i - 1) : WorstFirst[j] \notin verdicts]

Bug_OutfitVerdictOfNeighbours(look) ==
  LET pairs == {p \in PairsOf(look) : \A i \in SignalsOf(look) : i <= p[1] \/ p[2] <= i}
  IN  IF pairs = {} THEN None ELSE WorstOf({Verdict(look, p) : p \in pairs})

\* outfitVerdict: the verdict of the two least harmonious garments, if there
\* are two whose colours are recognised.
OutfitVerdict(look) ==
  IF PairsOf(look) = {} THEN None ELSE WorstOf({Verdict(look, p) : p \in PairsOf(look)})

\* monochromaticNote: flat only on evidence that the values are close.
MonochromaticNote(look) ==
  LET Light(i) == ColorSignal(look[i]).light
      known == {p \in PairsOf(look) :
                  /\ Verdict(look, p) = "monochromatic"
                  /\ Light(p[1]) # Unknown /\ Light(p[2]) # Unknown}
  IN  IF known = {} \/ \E p \in known : 100 * Abs(Light(p[1]) - Light(p[2])) > 15 * 510
      THEN "layered" ELSE "flat"

\* suggestionNote: which sentence is printed, None for no note.
SuggestionNote(look) ==
  LET worst == OutfitVerdict(look)
  IN  CASE worst \in {None, "clash"} -> None
        [] worst = "monochromatic" -> MonochromaticNote(look)
        [] OTHER -> worst

\* suggestionRationale: the sentences, in order.
SuggestionRationale(harmony, hasPalette, paletteInfluenced, freshnessInfluenced) ==
  LET spoken == harmony \notin {None, "clash"}
      When(cond, lines) == IF cond THEN lines ELSE << >>
  IN  <<"weather">>
      \o When(hasPalette, <<IF paletteInfluenced THEN "leaned" ELSE "palette-idle">>)
      \o When(freshnessInfluenced, <<"fresh">>)
      \o When(spoken, <<harmony>>)
      \o When(hasPalette \/ spoken, <<"self-chosen", "approximate">>)
=============================================================================
