-------------------------------- MODULE Rules --------------------------------
(***************************************************************************)
(* The pure rules of the program, asked one question at a time: q is the   *)
(* question on the table, NoQuestion between two.  The rules are the       *)
(* operators of Suggest, ColorRules, Duplicates and Providers; the         *)
(* properties compare them with what their users are promised.             *)
(***************************************************************************)
EXTENDS Suggest, Duplicates, Providers, SequencesExt

CONSTANTS
  Closets, Temperatures, Palettes, RecentWears,  \* inputs of suggestItems
  Looks,                                         \* colour sequences of a look
  Tappings,                                      \* swatches tapped in the quiz
  Scans,                                         \* item sequences to scan
  Calls, Parses,                                 \* what the vendors do
  UrlTtlTicks, LeaseTicks                        \* signed URL, CLAIM_LEASE

\* Rows of one closet have an id each; a stored colour is one IsColor knows.
ASSUME ClosetAssumption ==
  /\ Temperatures \subseteq Int
  /\ \A rows \in Closets :
       /\ IsFiniteSet(rows)
       /\ \A x, y \in rows : x.id \in Int /\ IsColor(x.color) /\ (x.id = y.id => x = y)
ASSUME LookAssumption ==
  \A look \in Looks : look \in Seq(Range(look)) /\ \A i \in DOMAIN look : IsColor(look[i])

\* A hash is printed signed or unsigned, in as many bits as the column has.
ASSUME ScanAssumption ==
  \A items \in Scans :
    /\ items \in Seq(Range(items))
    /\ \A i, j \in DOMAIN items : items[i].id \in Int /\ (items[i].id = items[j].id => i = j)
    /\ \A i \in DOMAIN items :
         HasSignal(items[i].phash) => items[i].phash.n \in -(2^PhashBits) .. 2^PhashBits - 1

\* What a vendor can do with the attempts of one call.
Met(vendors) ==
  \A i \in 1..(MaxRetries + 1) :
    vendors[i].status \in Nat /\ vendors[i].head \in Nat /\ vendors[i].body \in Nat
ASSUME VendorAssumption ==
  /\ \A vendors \in Calls : Met(vendors)
  /\ \A parse \in Parses : \A call \in {"sign", "vision", "segment", "upload"} :
       Met(parse.vendors[call])

\* The longest a call takes, its waits included; the signed URL outlives two
\* of them, and the lease the four of a parse.
WorstCall ==
  TimeoutTicks * (MaxRetries + 1)
    + Total([i \in 1..MaxRetries |-> BackoffCeiling(i - 1)], MaxRetries)
ASSUME BudgetAssumption ==
  /\ UrlTtlTicks \in Nat /\ LeaseTicks \in Nat
  /\ 2 * WorstCall < UrlTtlTicks /\ 4 * WorstCall < LeaseTicks

VARIABLE q

NoQuestion == [kind |-> "none"]

AskLook ==
  \E rows \in Closets, tempC \in Temperatures, hues \in Palettes, recent \in RecentWears :
    q' = [kind |-> "look", rows |-> rows, tempC |-> tempC, hues |-> hues, recent |-> recent]
AskNote == \E look \in Looks : q' = [kind |-> "note", look |-> look]
AskPalette ==
  \E tapped \in Tappings, worn \in ColorFamilies :
    q' = [kind |-> "palette", tapped |-> tapped, worn |-> worn]
AskPairs == \E items \in Scans : q' = [kind |-> "pairs", items |-> items]
AskCall == \E vendors \in Calls : q' = [kind |-> "call", vendors |-> vendors]
AskParse == \E parse \in Parses : q' = [kind |-> "parse", parse |-> parse]

Init == q = NoQuestion
Ask == q = NoQuestion /\ (AskLook \/ AskNote \/ AskPalette \/ AskPairs \/ AskCall \/ AskParse)
Answered == q # NoQuestion /\ q' = NoQuestion
Next == Ask \/ Answered
Spec == Init /\ [][Next]_q

-----------------------------------------------------------------------------
LookOf(tempC, hues, recent) == SuggestItems(q.rows, tempC, hues, recent)
CleanItems == {i \in {ToSuggestionItem(row) : row \in q.rows} : i.status = "clean"}
Injections(n, S) == {f \in [1..n -> S] : \A i, j \in 1..n : f[i] = f[j] => i = j}

\* Whatever her palette and her recent wears, the look is a set of clean
\* garments as warm as any set of clean garments of that size can be, it is
\* missing only when nothing is clean, and a colder day never makes it
\* lighter (suggestion.ts:1-5).
WeatherGuarantee ==
  q.kind = "look" =>
    LET look == LookOf(q.tempC, q.hues, q.recent)
        warmth == AggregateWarmth(look)
    IN  /\ (look = << >>) = (CleanItems = {})
        /\ ToSet(look) \subseteq CleanItems
        /\ \A other \in Injections(Len(look), CleanItems) : AggregateWarmth(other) <= warmth
        /\ \A t \in Temperatures :
             t <= q.tempC => AggregateWarmth(LookOf(t, q.hues, q.recent)) >= warmth

\* "You wore something similar recently, so we reached for a piece you
\* haven't worn lately" is printed only of a look that holds a garment she
\* has not worn lately, ahead of every recently worn one it was preferred to
\* (suggestionRationale.ts:35-38).
FreshClaimIsTrue ==
  (q.kind = "look" /\ FreshnessInfluencedOrder(q.rows, q.tempC, q.hues, q.recent)) =>
    LET look == LookOf(q.tempC, q.hues, q.recent)
    IN  \E i \in DOMAIN look, worn \in CleanItems :
          /\ look[i].id \notin q.recent
          /\ worn.id \in q.recent /\ worn.warmth = look[i].warmth
          /\ \A j \in 1..i : look[j] # worn

\* "We leaned toward your palette colors" is printed only when leaving the
\* palette out, and nothing else, gives another look
\* (SuggestionsScreen.tsx:142-145).
PaletteClaimIsTrue ==
  (q.kind = "look" /\ PaletteInfluencedOrder(q.rows, q.tempC, q.hues, q.recent)) =>
    ChosenIds(LookOf(q.tempC, {}, q.recent)) # ChosenIds(LookOf(q.tempC, q.hues, q.recent))

RankOf(verdict) == CHOOSE i \in DOMAIN WorstFirst : WorstFirst[i] = verdict

\* The verdict of a look is never kinder than that of two of its garments
\* (suggestionNote.ts:88-90), knowing how muted its colours are never makes
\* it harsher (harmony.ts:112-116), and the note is silent exactly when the
\* explanation has no reason about colours.
NoteIsHonest ==
  q.kind = "note" =>
    LET verdict == OutfitVerdict(q.look)
        Tokens == [i \in DOMAIN q.look |->
                     LET f == ColorFamily(q.look[i])
                     IN  IF f = None THEN q.look[i] ELSE [kind |-> "token", family |-> f]]
        why == SuggestionRationale(verdict, FALSE, FALSE, FALSE)
    IN  /\ verdict # None =>
             /\ \A i, j \in DOMAIN q.look :
                  LET two == OutfitVerdict(<<q.look[i], q.look[j]>>)
                  IN  (i # j /\ two # None) => RankOf(verdict) <= RankOf(two)
             /\ RankOf(OutfitVerdict(Tokens)) <= RankOf(verdict)
        /\ (SuggestionNote(q.look) = None) = (why = <<"weather">>)

\* A garment in the very colour of a swatch is scored as that swatch: the hex
\* the quiz draws goes back to its family, a tapped hue scores full marks,
\* and it counts as within the palette exactly when a tapped hue lies within
\* a thirty-degree step of it (colorFamily.ts:136-142, palette.ts:52-59).
SwatchesReachTheCloset ==
  (q.kind = "palette" /\ q.worn \in Hues) =>
    LET scored == ScorePalette(SwatchHex(q.worn), PaletteFromSwatches(q.tapped))
        Degrees(f) == 30 * (HueIndex(f) - 1)
        Near(f) == Abs(Degrees(f) - Degrees(q.worn)) \in {0, 30, 330}
    IN  /\ ColorFamily(SwatchHex(q.worn)) = q.worn
        /\ q.worn \in q.tapped => scored.score = 100
        /\ scored.within = (\E f \in q.tapped \cap Hues : Near(f))

\* The scan surfaces each pair of near hashes once, lower id first, nearest
\* first, reads one hash the same whether it was printed signed or not, and a
\* missing or malformed hash hides no other pair (dedupe.ts:16-35, 112-118).
PairsAreExact ==
  q.kind = "pairs" =>
    LET found == FindDuplicatePairs(q.items)
        Unsigned(n) == IF n < 0 THEN n + 2^PhashBits ELSE n
        Ones(n) == Cardinality({i \in 0..(PhashBits - 1) : BitOf(n, i) = 1})
        Common(x, y) == Cardinality({i \in 0..(PhashBits - 1) : BitOf(x, i) = 1 /\ BitOf(y, i) = 1})
        Apart(x, y) == Ones(Unsigned(x)) + Ones(Unsigned(y)) - 2 * Common(Unsigned(x), Unsigned(y))
        near == {xy \in ToSet(q.items) \X ToSet(q.items) :
                   /\ xy[1].id < xy[2].id
                   /\ HasSignal(xy[1].phash) /\ HasSignal(xy[2].phash)
                   /\ Apart(xy[1].phash.n, xy[2].phash.n) <= HammingThreshold}
    IN  /\ {<<p.a, p.b>> : p \in ToSet(found)} = {<<xy[1].id, xy[2].id>> : xy \in near}
        /\ Len(found) = Cardinality(near)
        /\ \A i, j \in DOMAIN found : i < j => found[i].distance <= found[j].distance

\* Whatever the vendor does, stalls included, a call ends within its attempts'
\* timeouts; and so a parse ends before its lease can be taken over, and the
\* signed URL outlives every fetch made of it (http.ts:3-10, 114-121).
SettlesInBudget ==
  /\ q.kind = "call" =>
       LET call == RequestWithRetry(q.vendors)
       IN  /\ call.calls <= MaxRetries + 1
           /\ call.ticks <= TimeoutTicks * (MaxRetries + 1)
  /\ q.kind = "parse" =>
       LET done == ParseCalls(q.parse.owner, q.parse.caller, "job", q.parse.vendors)
       IN  done.fetching < UrlTtlTicks /\ done.total < LeaseTicks

\* Nothing is uploaded but an image whose header was read and has an alpha
\* channel, of a garment the vision model could describe, under the folder of
\* the caller who owns the photo; and no parse succeeds without that object.
OnlyVouchedCutouts ==
  q.kind = "parse" =>
    LET done == ParseCalls(q.parse.owner, q.parse.caller, "job", q.parse.vendors)
        Says(call) == RequestWithRetry(q.parse.vendors[call]).says
    IN  /\ done.objects # {} =>
             /\ q.parse.owner = q.parse.caller
             /\ Says("segment") = "good" /\ Says("vision") \in {"good", "upper"}
             /\ done.objects = {<<q.parse.owner, "job">>}
        /\ done.ok => done.objects # {}
=============================================================================
