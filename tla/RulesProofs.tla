----------------------------- MODULE RulesProofs -----------------------------
(***************************************************************************)
(* What holds of the rules for every closet, look, scan, palette and       *)
(* vendor: a question on the table is one that can be asked (QuestionInv), *)
(* and what is promised of its answer follows from the operators alone.    *)
(***************************************************************************)
EXTENDS Rules, FiniteSetTheorems, WellFoundedInduction, TLAPS

(* Sums.                                                                    *)

\* A non-empty set of naturals has a least element.
LEMMA LeastIn ==
  ASSUME NEW S \in SUBSET Nat, S # {}
  PROVE  \E x \in S : \A y \in S : x <= y
<1>. DEFINE Less == {ss \in Nat \X Nat : ss[1] < ss[2]}
<1>1. IsWellFoundedOn(Less, Nat)
  BY NatLessThanWellFounded DEF OpToRel
<1>2. \E x \in S : \A y \in S : <<y, x>> \notin Less
  <2>. HIDE DEF Less
  <2>. QED  BY <1>1, WFMin
<1>3. \A x, y \in Nat : <<y, x>> \notin Less => x <= y
  OBVIOUS
<1>. QED  BY <1>2, <1>3

\* The sums of w up to n, one by one.
Sums(w, n, f) == f = [i \in 0..n |-> IF i = 0 THEN 0 ELSE f[i - 1] + w[i]]

LEMMA SumsExist ==
  ASSUME NEW w, NEW n \in Nat
  PROVE  \E f : Sums(w, n, f)
<1>. DEFINE Without == {m \in Nat : ~\E f : Sums(w, m, f)}
<1>1. SUFFICES ASSUME Without # {} PROVE FALSE
  OBVIOUS
<1>2. PICK m \in Without : \A k \in Without : m <= k
  BY <1>1, LeastIn
<1>3. CASE m = 0
  <2>1. Sums(w, 0, [i \in 0..0 |-> 0])
    BY DEF Sums
  <2>. QED  BY <1>3, <2>1
<1>4. CASE m # 0
  <2>1. m - 1 \in Nat /\ m - 1 \notin Without
    BY <1>2, <1>4
  <2>2. PICK g : Sums(w, m - 1, g)
    BY <2>1
  <2>. DEFINE f == [i \in 0..m |-> IF i = m THEN g[m - 1] + w[m] ELSE g[i]]
  <2>3. ASSUME NEW i \in 0..m PROVE f[i] = IF i = 0 THEN 0 ELSE f[i - 1] + w[i]
    <3>1. \A j \in 0..(m - 1) : g[j] = IF j = 0 THEN 0 ELSE g[j - 1] + w[j]
      BY <2>1, <2>2 DEF Sums
    <3>2. CASE i = m
      BY <1>4, <3>2, <2>1
    <3>3. CASE i # m
      BY <3>1, <3>3, <2>1
    <3>. QED  BY <3>2, <3>3
  <2>4. f = [i \in 0..m |-> f[i]]
    OBVIOUS
  <2>. HIDE DEF f
  <2>5. Sums(w, m, f)
    BY <2>3, <2>4 DEF Sums
  <2>. QED  BY <2>5
<1>. QED  BY <1>3, <1>4

LEMMA SumsAgree ==
  ASSUME NEW w, NEW v, NEW m \in Nat, NEW n \in Nat, m <= n,
         NEW f, Sums(w, m, f), NEW g, Sums(v, n, g), \A i \in 1..m : w[i] = v[i]
  PROVE  f[m] = g[m]
<1>. DEFINE Apart == {i \in 0..m : f[i] # g[i]}
<1>1. SUFFICES ASSUME Apart # {} PROVE FALSE
  OBVIOUS
<1>2. PICK i \in Apart : \A k \in Apart : i <= k
  <2>1. Apart \in SUBSET Nat
    OBVIOUS
  <2>. HIDE DEF Apart
  <2>. QED  BY <1>1, <2>1, LeastIn
<1>3. f[i] = (IF i = 0 THEN 0 ELSE f[i - 1] + w[i]) /\ g[i] = (IF i = 0 THEN 0 ELSE g[i - 1] + v[i])
  BY DEF Sums
<1>4. i # 0
  BY <1>2, <1>3
<1>5. i - 1 \in 0..m /\ i - 1 \notin Apart
  BY <1>2, <1>4
<1>. QED  BY <1>2, <1>3, <1>4, <1>5

LEMMA TotalIs ==
  ASSUME NEW w, NEW n \in Nat
  PROVE  \E f : Sums(w, n, f) /\ Total(w, n) = f[n]
BY SumsExist DEF Total, Sums

LEMMA TotalStep ==
  ASSUME NEW w
  PROVE  /\ Total(w, 0) = 0
         /\ \A n \in Nat : Total(w, n + 1) = Total(w, n) + w[n + 1]
<1>1. Total(w, 0) = 0
  BY TotalIs DEF Sums
<1>2. ASSUME NEW n \in Nat PROVE Total(w, n + 1) = Total(w, n) + w[n + 1]
  <2>1. PICK f : Sums(w, n, f) /\ Total(w, n) = f[n]
    BY TotalIs
  <2>2. PICK g : Sums(w, n + 1, g) /\ Total(w, n + 1) = g[n + 1]
    BY TotalIs
  <2>3. f[n] = g[n]
    <3>. DEFINE p == n + 1
    <3>1. p \in Nat /\ n <= p /\ \A i \in 1..n : w[i] = w[i]
      OBVIOUS
    <3>2. Sums(w, p, g)
      BY <2>2
    <3>. HIDE DEF p
    <3>3. ASSUME NEW v, \A i \in 1..n : w[i] = v[i], Sums(v, p, g) PROVE f[n] = g[n]
      BY <2>1, <3>1, <3>3, SumsAgree
    <3>. QED  BY <3>1, <3>2, <3>3, Zenon
  <2>4. g[n + 1] = g[n] + w[n + 1]
    BY <2>2 DEF Sums
  <2>. QED  BY <2>1, <2>2, <2>3, <2>4
<1>. QED  BY <1>1, <1>2

\* The sum of the first n depends on the first n only.
LEMMA TotalSame ==
  ASSUME NEW w, NEW v, NEW n \in Nat, \A i \in 1..n : w[i] = v[i]
  PROVE  Total(w, n) = Total(v, n)
<1>1. PICK f : Sums(w, n, f) /\ Total(w, n) = f[n]
  BY TotalIs
<1>2. PICK g : Sums(v, n, g) /\ Total(v, n) = g[n]
  BY TotalIs
<1>. QED  BY <1>1, <1>2, SumsAgree

LEMMA TotalBounded ==
  ASSUME NEW w, NEW n \in Nat, NEW c \in Nat, \A i \in 1..n : w[i] \in 0..c
  PROVE  Total(w, n) \in Nat /\ Total(w, n) <= c * n
<1>. DEFINE Bad == {m \in 0..n : ~(Total(w, m) \in Nat /\ Total(w, m) <= c * m)}
<1>1. SUFFICES ASSUME Bad # {} PROVE FALSE
  OBVIOUS
<1>2. PICK m \in Bad : \A k \in Bad : m <= k
  <2>1. Bad \in SUBSET Nat
    OBVIOUS
  <2>. HIDE DEF Bad
  <2>. QED  BY <1>1, <2>1, LeastIn
<1>3. m # 0
  BY <1>2, TotalStep
<1>4. m - 1 \in 0..n /\ m - 1 \notin Bad /\ m - 1 \in Nat
  BY <1>2, <1>3
<1>5. Total(w, m) = Total(w, m - 1) + w[m]
  <2>1. Total(w, (m - 1) + 1) = Total(w, m - 1) + w[(m - 1) + 1]
    BY <1>4, TotalStep
  <2>. QED  BY <2>1
<1>6. w[m] \in 0..c
  BY <1>3
<1>7. c * m = c * (m - 1) + c
  BY <1>4
<1>. QED  BY <1>2, <1>4, <1>5, <1>6, <1>7

\* Adding what is not negative never makes a sum smaller.
LEMMA TotalGrows ==
  ASSUME NEW w, NEW n \in Nat, \A i \in 1..n : w[i] \in Nat, NEW m \in 0..n
  PROVE  /\ Total(w, m) \in Nat /\ Total(w, n) \in Nat
         /\ Total(w, m) <= Total(w, n)
<1>. DEFINE Grown(k) == \A j \in 0..k : Total(w, j) \in Nat /\ Total(w, j) <= Total(w, k)
            Bad == {k \in 0..n : ~Grown(k)}
<1>1. SUFFICES ASSUME Bad # {} PROVE FALSE
  OBVIOUS
<1>2. PICK k \in Bad : \A j \in Bad : k <= j
  <2>1. Bad \in SUBSET Nat
    OBVIOUS
  <2>. HIDE DEF Bad
  <2>. QED  BY <1>1, <2>1, LeastIn
<1>3. k # 0
  BY <1>2, TotalStep
<1>4. k - 1 \in 0..n /\ k - 1 \notin Bad /\ k - 1 \in Nat
  BY <1>2, <1>3
<1>5. Total(w, k) = Total(w, k - 1) + w[k]
  <2>1. Total(w, (k - 1) + 1) = Total(w, k - 1) + w[(k - 1) + 1]
    BY <1>4, TotalStep
  <2>. QED  BY <2>1
<1>6. w[k] \in Nat
  BY <1>3
<1>7. Grown(k)
  <2>. SUFFICES ASSUME NEW j \in 0..k PROVE Total(w, j) \in Nat /\ Total(w, j) <= Total(w, k)
    OBVIOUS
  <2>1. Total(w, k - 1) \in Nat /\ Total(w, k) \in Nat /\ Total(w, k - 1) <= Total(w, k)
    BY <1>4, <1>5, <1>6
  <2>2. CASE j = k
    BY <2>1, <2>2
  <2>3. CASE j # k
    BY <2>1, <2>3, <1>4
  <2>. QED  BY <2>2, <2>3
<1>. QED  BY <1>2, <1>7

-----------------------------------------------------------------------------
(* Sorting.                                                                 *)

StrictOrder(S, order) ==
  /\ \A x \in S : <<x, x>> \notin order
  /\ \A x, y \in S : x # y => <<x, y>> \in order \/ <<y, x>> \in order
  /\ \A x, y, z \in S : <<x, y>> \in order /\ <<y, z>> \in order => <<x, z>> \in order

Place(S, order, x) == Cardinality({y \in S : <<y, x>> \in order})

LEMMA PlaceRange ==
  ASSUME NEW S, IsFiniteSet(S), NEW order, StrictOrder(S, order), NEW x \in S
  PROVE  Cardinality(S) \in Nat /\ Place(S, order, x) \in 0..(Cardinality(S) - 1)
<1>. DEFINE T == {y \in S : <<y, x>> \in order}
<1>1. T \in SUBSET S /\ x \notin T
  BY DEF StrictOrder
<1>2. Place(S, order, x) = Cardinality(T)
  BY DEF Place
<1>. HIDE DEF T
<1>3. IsFiniteSet(T) /\ Cardinality(T) <= Cardinality(S) /\ Cardinality(T) # Cardinality(S)
  BY <1>1, FS_Subset
<1>4. Cardinality(T) \in Nat /\ Cardinality(S) \in Nat
  BY <1>3, FS_CardinalityType
<1>. QED  BY <1>2, <1>3, <1>4

LEMMA PlaceOrder ==
  ASSUME NEW S, IsFiniteSet(S), NEW order, StrictOrder(S, order), NEW x \in S, NEW y \in S
  PROVE  /\ <<x, y>> \in order <=> Place(S, order, x) < Place(S, order, y)
         /\ Place(S, order, x) = Place(S, order, y) => x = y
<1>1. ASSUME NEW a \in S, NEW b \in S, <<a, b>> \in order
      PROVE  Place(S, order, a) < Place(S, order, b)
  <2>. DEFINE A == {z \in S : <<z, a>> \in order}
              B == {z \in S : <<z, b>> \in order}
  <2>1. A \in SUBSET B /\ a \in B /\ a \notin A
    BY <1>1 DEF StrictOrder
  <2>2. B \in SUBSET S
    OBVIOUS
  <2>3. Place(S, order, a) = Cardinality(A) /\ Place(S, order, b) = Cardinality(B)
    BY DEF Place
  <2>. HIDE DEF A, B
  <2>4. IsFiniteSet(B)
    BY <2>2, FS_Subset
  <2>5. Cardinality(A) <= Cardinality(B) /\ Cardinality(A) # Cardinality(B) /\ IsFiniteSet(A)
    BY <2>1, <2>4, FS_Subset
  <2>6. Cardinality(A) \in Nat /\ Cardinality(B) \in Nat
    BY <2>4, <2>5, FS_CardinalityType
  <2>. QED  BY <2>3, <2>5, <2>6
<1>2. Place(S, order, x) \in Int /\ Place(S, order, y) \in Int
  <2>1. /\ Place(S, order, x) \in 0..(Cardinality(S) - 1)
        /\ Place(S, order, y) \in 0..(Cardinality(S) - 1)
    BY PlaceRange, Zenon
  <2>. QED  BY <2>1
<1>3. <<x, y>> \in order => Place(S, order, x) < Place(S, order, y)
  BY <1>1
<1>4. <<y, x>> \in order => Place(S, order, y) < Place(S, order, x)
  BY <1>1
<1>5. x # y => <<x, y>> \in order \/ <<y, x>> \in order
  BY DEF StrictOrder
<1>. QED  BY <1>2, <1>3, <1>4, <1>5

\* Sorted lists every element once, in order, each at its place.
LEMMA SortedIs ==
  ASSUME NEW S, IsFiniteSet(S), NEW order, StrictOrder(S, order)
  PROVE  /\ Cardinality(S) \in Nat
         /\ Sorted(S, order) \in [1..Cardinality(S) -> S]
         /\ \A n \in 1..Cardinality(S) : Place(S, order, Sorted(S, order)[n]) = n - 1
         /\ \A x \in S : \E n \in 1..Cardinality(S) : Sorted(S, order)[n] = x
<1>. DEFINE c == Cardinality(S)
            f == [x \in S |-> Place(S, order, x)]
<1>1. c \in Nat
  BY FS_CardinalityType
<1>2. \A x \in S : Place(S, order, x) \in 0..(c - 1)
  BY PlaceRange, Zenon
<1>3. f \in [S -> 0..(c - 1)]
  BY <1>2
<1>4. IsInjective(f)
  <2>1. \A x, y \in S : Place(S, order, x) = Place(S, order, y) => x = y
    BY PlaceOrder, Zenon
  <2>. QED  BY <2>1 DEF IsInjective
<1>5. \A x \in S : f[x] = Place(S, order, x)
  OBVIOUS
<1>6. Sorted(S, order) = [n \in 1..c |-> CHOOSE x \in S : Place(S, order, x) = n - 1]
  BY DEF Sorted, Place
<1>. HIDE DEF c, f
<1>7. f \in Injection(S, 0..(c - 1))
  BY <1>3, <1>4 DEF Injection
<1>8. IsFiniteSet(0..(c - 1)) /\ Cardinality(0..(c - 1)) = c
  <2>1. c - 1 \in Int
    BY <1>1
  <2>. QED  BY <1>1, <2>1, FS_Interval
<1>9. f \in Surjection(S, 0..(c - 1))
  BY <1>7, <1>8, FS_Injection DEF c
<1>10. ASSUME NEW n \in 1..c PROVE \E x \in S : Place(S, order, x) = n - 1
  <2>1. n - 1 \in 0..(c - 1)
    BY <1>1
  <2>2. \E x \in S : f[x] = n - 1
    BY <1>9, <2>1 DEF Surjection
  <2>. QED  BY <1>5, <2>2
<1>11. \A n \in 1..c : Sorted(S, order)[n] \in S /\ Place(S, order, Sorted(S, order)[n]) = n - 1
  BY <1>6, <1>10
<1>12. Sorted(S, order) \in [1..c -> S]
  BY <1>6, <1>11
<1>13. ASSUME NEW x \in S PROVE \E n \in 1..c : Sorted(S, order)[n] = x
  <2>. DEFINE n == Place(S, order, x) + 1
  <2>1. n \in 1..c /\ n - 1 = Place(S, order, x)
    BY <1>1, <1>2
  <2>. HIDE DEF n
  <2>2. Sorted(S, order)[n] = x
    BY <1>11, <2>1, PlaceOrder
  <2>. QED  BY <2>1, <2>2
<1>. QED  BY <1>1, <1>11, <1>12, <1>13 DEF c

\* The earlier of two places is taken by what comes first.
LEMMA SortedOrder ==
  ASSUME NEW S, IsFiniteSet(S), NEW order, StrictOrder(S, order),
         NEW i \in 1..Cardinality(S), NEW j \in 1..Cardinality(S)
  PROVE  i < j <=> <<Sorted(S, order)[i], Sorted(S, order)[j]>> \in order
<1>. DEFINE s == Sorted(S, order)
<1>1. s[i] \in S /\ s[j] \in S /\ Place(S, order, s[i]) = i - 1 /\ Place(S, order, s[j]) = j - 1
  BY SortedIs
<1>2. <<s[i], s[j]>> \in order <=> Place(S, order, s[i]) < Place(S, order, s[j])
  BY <1>1, PlaceOrder
<1>3. i \in Int /\ j \in Int
  BY SortedIs
<1>. QED  BY <1>1, <1>2, <1>3

-----------------------------------------------------------------------------
(* Colours.                                                                 *)

StoredColors ==
  [kind : {"hex"}, r : 0..255, g : 0..255, b : 0..255]
    \cup [kind : {"token"}, family : ColorFamilies] \cup [kind : {"other"}]

LEMMA LooksAre ==
  ASSUME NEW look \in Looks
  PROVE  look \in Seq(StoredColors)
<1>1. look \in Seq(Range(look)) /\ \A i \in DOMAIN look : IsColor(look[i])
  BY LookAssumption
<1>2. DOMAIN look = 1..Len(look) /\ Len(look) \in Nat /\ look = [i \in 1..Len(look) |-> look[i]]
  BY <1>1
<1>3. \A i \in 1..Len(look) : look[i] \in StoredColors
  BY <1>1, <1>2 DEF IsColor, StoredColors
<1>. HIDE DEF StoredColors
<1>4. look \in [1..Len(look) -> StoredColors]
  BY <1>2, <1>3
<1>. QED  BY <1>2, <1>4

LEMMA HueIndexIs ==
  /\ Len(Chromatic) = 12 /\ DOMAIN Chromatic = 1..12
  /\ \A i \in 1..12 : Chromatic[i] \in Hues /\ HueIndex(Chromatic[i]) = i
  /\ \A f \in Hues : HueIndex(f) \in 1..12 /\ Chromatic[HueIndex(f)] = f
  /\ None \notin ColorFamilies /\ Hues \cap Neutral = {}
<1>1. Len(Chromatic) = 12 /\ DOMAIN Chromatic = 1..12
  BY DEF Chromatic
<1>2. \A i, j \in 1..12 : Chromatic[i] = Chromatic[j] => i = j
  BY DEF Chromatic
<1>3. \A i \in 1..12 : Chromatic[i] \in Hues
  BY <1>1 DEF Hues
<1>4. ASSUME NEW f \in Hues PROVE HueIndex(f) \in 1..12 /\ Chromatic[HueIndex(f)] = f
  BY <1>1 DEF Hues, HueIndex
<1>5. \A i \in 1..12 : HueIndex(Chromatic[i]) = i
  BY <1>2, <1>3, <1>4
<1>6. \A i \in 1..12 : Chromatic[i] # None /\ Chromatic[i] \notin Neutral
  BY DEF Chromatic, None, Neutral
<1>7. None \notin Neutral
  BY DEF None, Neutral
<1>. QED  BY <1>1, <1>3, <1>4, <1>5, <1>6, <1>7 DEF Hues, ColorFamilies

LEMMA ChromaticFamilyIs ==
  ASSUME NEW hue \in Int, NEW delta \in Nat \ {0}
  PROVE  ChromaticFamily(hue, delta) \in Hues
<1>. DEFINE turned == (hue + 15 * delta) % (360 * delta)
            n == turned \div (30 * delta)
<1>1. 360 * delta \in Nat \ {0} /\ 30 * delta \in Nat \ {0} /\ hue + 15 * delta \in Int
  OBVIOUS
<1>2. turned \in Int
  BY <1>1
<1>3. n \in Int
  <2>. HIDE DEF turned
  <2>. QED  BY <1>1, <1>2
<1>4. ChromaticFamily(hue, delta) = Chromatic[(n % 12) + 1]
  BY DEF ChromaticFamily
<1>. HIDE DEF n
<1>5. (n % 12) + 1 \in 1..12
  BY <1>3
<1>. QED  BY <1>4, <1>5, HueIndexIs

LEMMA GreatestOfThree ==
  ASSUME NEW x \in Int, NEW y \in Int, NEW z \in Int
  PROVE  /\ Greatest({x, y, z}) \in {x, y, z}
         /\ x <= Greatest({x, y, z}) /\ y <= Greatest({x, y, z}) /\ z <= Greatest({x, y, z})
<1>1. \E m \in {x, y, z} : \A n \in {x, y, z} : n <= m
  OBVIOUS
<1>. QED  BY <1>1 DEF Greatest

LEMMA HslIs ==
  ASSUME NEW c \in [kind : {"hex"}, r : 0..255, g : 0..255, b : 0..255]
  PROVE  /\ Hsl(c).hue \in Int /\ Hsl(c).delta \in Nat /\ Hsl(c).sum \in Nat
         /\ Hsl(c).muted \in BOOLEAN /\ Hsl(c).achromatic \in BOOLEAN
         /\ ~Hsl(c).achromatic => Hsl(c).delta # 0
<1>. DEFINE M == Greatest({c.r, c.g, c.b})
            m == -Greatest({-c.r, -c.g, -c.b})
            delta == M - m
            room == 255 - Abs(M + m - 255)
            turn == CASE M = c.r -> (c.g - c.b)
                      [] M # c.r /\ M = c.g -> (c.b - c.r) + 2 * delta
                      [] OTHER -> (c.r - c.g) + 4 * delta
<1>1. c.r \in 0..255 /\ c.g \in 0..255 /\ c.b \in 0..255
  OBVIOUS
<1>2. M \in 0..255 /\ c.r <= M
  <2>1. c.r \in Int /\ c.g \in Int /\ c.b \in Int
    BY <1>1
  <2>2. M \in {c.r, c.g, c.b} /\ c.r <= M
    BY <2>1, GreatestOfThree, Zenon
  <2>. HIDE DEF M
  <2>. QED  BY <1>1, <2>2
<1>3. m \in 0..255 /\ m <= c.r
  <2>. DEFINE n == Greatest({-c.r, -c.g, -c.b})
  <2>1. -c.r \in Int /\ -c.g \in Int /\ -c.b \in Int
    BY <1>1
  <2>2. n \in {-c.r, -c.g, -c.b} /\ -c.r <= n
    BY <2>1, GreatestOfThree, Zenon
  <2>3. m = -n
    OBVIOUS
  <2>. HIDE DEF n, m
  <2>. QED  BY <1>1, <2>2, <2>3
<1>. HIDE DEF M, m
<1>4. delta \in Nat
  BY <1>1, <1>2, <1>3
<1>5. room \in Int
  BY <1>2, <1>3 DEF Abs
<1>6. Hsl(c) = [sum |-> M + m, delta |-> delta,
                hue |-> 60 * turn + (IF turn < 0 THEN 360 * delta ELSE 0),
                muted |-> 100 * delta < 35 * room,
                achromatic |-> \/ delta = 0
                               \/ 100 * delta < 15 * room
                               \/ M + m < 102
                               \/ (M + m) * 100 > 85 * 510]
  BY DEF Hsl, HslWithin, M, m
<1>. HIDE DEF delta, room
<1>7. turn \in Int
  <2>1. /\ M = c.r => turn = c.g - c.b
        /\ M # c.r /\ M = c.g => turn = (c.b - c.r) + 2 * delta
        /\ M # c.r /\ M # c.g => turn = (c.r - c.g) + 4 * delta
    BY Zenon
  <2>2. c.g - c.b \in Int /\ (c.b - c.r) + 2 * delta \in Int /\ (c.r - c.g) + 4 * delta \in Int
    <3>. DEFINE r == c.r
                g == c.g
                b == c.b
    <3>1. r \in 0..255 /\ g \in 0..255 /\ b \in 0..255
      BY <1>1
    <3>. HIDE DEF r, g, b, delta
    <3>2. g - b \in Int /\ (b - r) + 2 * delta \in Int /\ (r - g) + 4 * delta \in Int
      BY <1>4, <3>1
    <3>. QED  BY <3>2 DEF r, g, b
  <2>. HIDE DEF turn
  <2>. QED  BY <2>1, <2>2, Zenon
<1>. HIDE DEF turn
<1>. QED  BY <1>2, <1>3, <1>4, <1>5, <1>6, <1>7

LEMMA FamilyIs ==
  ASSUME NEW c \in StoredColors
  PROVE  ColorFamily(c) \in ColorFamilies \cup {None}
<1>1. CASE c \in [kind : {"token"}, family : ColorFamilies]
  <2>1. ColorSignal(c) = Signal(c.family, Unknown, FALSE)
    BY <1>1 DEF ColorSignal, HexSignal
  <2>. QED  BY <1>1, <2>1 DEF ColorFamily, Signal
<1>2. CASE c \in [kind : {"other"}]
  <2>1. ColorSignal(c) = Signal(None, Unknown, FALSE)
    BY <1>2 DEF ColorSignal, HexSignal
  <2>. QED  BY <2>1 DEF ColorFamily, Signal
<1>3. CASE c \in [kind : {"hex"}, r : 0..255, g : 0..255, b : 0..255]
  <2>. DEFINE h == Hsl(c)
              family == CASE ~h.achromatic -> ChromaticFamily(h.hue, h.delta)
                          [] h.achromatic /\ h.sum < 102 -> "black"
                          [] h.achromatic /\ h.sum * 100 > 85 * 510 -> "white"
                          [] OTHER -> "gray"
  <2>1. ColorSignal(c) = Signal(family, h.sum, h.muted)
    BY <1>3 DEF ColorSignal, HexSignal
  <2>2. ColorFamily(c) = family
    BY <2>1 DEF ColorFamily, Signal
  <2>3. ASSUME ~h.achromatic PROVE ChromaticFamily(h.hue, h.delta) \in Hues
    BY <1>3, <2>3, HslIs, ChromaticFamilyIs
  <2>4. {"black", "white", "gray"} \subseteq Neutral
    BY DEF Neutral
  <2>. HIDE DEF h
  <2>5. family \in Hues \cup Neutral
    BY <2>3, <2>4
  <2>. QED  BY <2>2, <2>5 DEF ColorFamilies
<1>. QED  BY <1>1, <1>2, <1>3 DEF StoredColors

LEMMA HueDistanceIs ==
  ASSUME NEW a \in Hues, NEW b \in Hues
  PROVE  /\ HueDistance(a, b) \in 0..6
         /\ HueDistance(a, b) = HueDistance(b, a)
         /\ HueDistance(a, b) = 0 <=> a = b
<1>1. HueIndex(a) \in 1..12 /\ HueIndex(b) \in 1..12 /\ Len(Chromatic) = 12
  BY HueIndexIs
<1>2. HueIndex(a) = HueIndex(b) <=> a = b
  BY HueIndexIs
<1>. QED  BY <1>1, <1>2 DEF HueDistance, Least, Abs

\* A set of hundredths that is not empty has a greatest element.
LEMMA GreatestIn ==
  ASSUME NEW S \in SUBSET (0..100), S # {}
  PROVE  Greatest(S) \in S /\ \A x \in S : x <= Greatest(S)
<1>. DEFINE T == {100 - x : x \in S}
<1>1. T \in SUBSET Nat /\ T # {}
  <2>1. \A x \in S : 100 - x \in Nat
    OBVIOUS
  <2>. QED  BY <2>1
<1>2. \E t \in T : \A u \in T : t <= u
  <2>. HIDE DEF T
  <2>. QED  BY <1>1, LeastIn
<1>3. \E m \in S : \A x \in S : x <= m
  <2>1. PICK m \in S : \A u \in T : 100 - m <= u
    BY <1>2
  <2>2. \A x \in S : 100 - m <= 100 - x
    BY <2>1
  <2>. QED  BY <2>2
<1>. QED  BY <1>3 DEF Greatest

LEMMA AffinityIs ==
  ASSUME NEW family \in ColorFamilies, NEW chosen \in SUBSET ColorFamilies
  PROVE  /\ PaletteAffinity(family, chosen) \in 0..100
         /\ family \in Hues /\ chosen # {} =>
              LET Given(f) == IF f \in Neutral THEN 50
                              ELSE AffinityByHueStep[HueDistance(family, f) + 1]
              IN  /\ \E f \in chosen : PaletteAffinity(family, chosen) = Given(f)
                  /\ \A f \in chosen : Given(f) <= PaletteAffinity(family, chosen)
<1>. DEFINE Given(f) == IF f \in Neutral THEN 50 ELSE AffinityByHueStep[HueDistance(family, f) + 1]
            S == {Given(f) : f \in chosen}
<1>1. ASSUME family \in Hues, chosen # {}
      PROVE  /\ PaletteAffinity(family, chosen) \in 0..100
             /\ \E f \in chosen : PaletteAffinity(family, chosen) = Given(f)
             /\ \A f \in chosen : Given(f) <= PaletteAffinity(family, chosen)
  <2>1. ASSUME NEW f \in chosen PROVE Given(f) \in 0..100
    <3>1. CASE f \in Neutral
      BY <3>1
    <3>2. CASE f \notin Neutral
      <4>1. f \in Hues
        BY <3>2 DEF ColorFamilies
      <4>2. HueDistance(family, f) \in 0..6
        BY <1>1, <4>1, HueDistanceIs
      <4>3. \A d \in 0..6 : AffinityByHueStep[d + 1] \in 0..100
        BY DEF AffinityByHueStep
      <4>. QED  BY <3>2, <4>2, <4>3
    <3>. QED  BY <3>1, <3>2
  <2>2. S \in SUBSET (0..100) /\ S # {}
    BY <1>1, <2>1
  <2>3. family \notin Neutral
    BY <1>1, HueIndexIs
  <2>4. PaletteAffinity(family, chosen) = Greatest(S)
    BY <1>1, <2>3 DEF PaletteAffinity, NeutralAffinity
  <2>5. Greatest(S) \in S /\ \A x \in S : x <= Greatest(S)
    <3>. HIDE DEF S
    <3>. QED  BY <2>2, GreatestIn
  <2>. HIDE DEF Given
  <2>. QED  BY <2>2, <2>4, <2>5
<1>2. ASSUME family \notin Hues \/ chosen = {} PROVE PaletteAffinity(family, chosen) \in 0..100
  BY <1>2 DEF PaletteAffinity, NeutralAffinity, ColorFamilies
<1>. QED  BY <1>1, <1>2

-----------------------------------------------------------------------------
(* Today's look.                                                            *)

CleanOf(rows) == {item \in {ToSuggestionItem(row) : row \in rows} : item.status = "clean"}
OrderOf(clean, palette, recent) ==
  {xy \in clean \X clean : Before(xy[1], xy[2], palette, recent)}

LEMMA ItemIs ==
  ASSUME NEW rows \in Closets, NEW row \in rows
  PROVE  /\ ToSuggestionItem(row).id = row.id /\ row.id \in Int
         /\ ToSuggestionItem(row).warmth \in {1, 2, 4}
         /\ ToSuggestionItem(row).family \in ColorFamilies \cup {None}
<1>1. row.id \in Int /\ row.color \in StoredColors
  BY ClosetAssumption DEF IsColor, StoredColors
<1>2. ToSuggestionItem(row).family \in ColorFamilies \cup {None}
  BY <1>1, FamilyIs DEF ToSuggestionItem
<1>3. ToSuggestionItem(row).warmth \in {1, 2, 4}
  BY DEF ToSuggestionItem, WarmthByCategory
<1>. QED  BY <1>1, <1>2, <1>3 DEF ToSuggestionItem

LEMMA CleanIs ==
  ASSUME NEW rows \in Closets
  PROVE  /\ IsFiniteSet(CleanOf(rows)) /\ Cardinality(CleanOf(rows)) \in Nat
         /\ \A x \in CleanOf(rows) :
              /\ x.id \in Int /\ x.warmth \in {1, 2, 4}
              /\ x.family \in ColorFamilies \cup {None}
         /\ \A x, y \in CleanOf(rows) : x.id = y.id => x = y
<1>. DEFINE items == {ToSuggestionItem(row) : row \in rows}
<1>1. IsFiniteSet(rows)
  BY ClosetAssumption
<1>2. IsFiniteSet(items)
  <2>. DEFINE f == [row \in rows |-> ToSuggestionItem(row)]
  <2>1. f \in Surjection(rows, items)
    BY DEF Surjection
  <2>. HIDE DEF f, items
  <2>. QED  BY <1>1, <2>1, FS_Surjection
<1>3. CleanOf(rows) \in SUBSET items
  BY DEF CleanOf
<1>4. \A x \in items : \E row \in rows : x = ToSuggestionItem(row)
  OBVIOUS
<1>. HIDE DEF items
<1>5. IsFiniteSet(CleanOf(rows)) /\ Cardinality(CleanOf(rows)) \in Nat
  BY <1>2, <1>3, FS_Subset, FS_CardinalityType
<1>6. ASSUME NEW x \in CleanOf(rows)
      PROVE  /\ x.id \in Int /\ x.warmth \in {1, 2, 4}
             /\ x.family \in ColorFamilies \cup {None}
  BY <1>3, <1>4, ItemIs
<1>7. ASSUME NEW x \in CleanOf(rows), NEW y \in CleanOf(rows), x.id = y.id PROVE x = y
  <2>1. PICK r \in rows : x = ToSuggestionItem(r)
    BY <1>3, <1>4
  <2>2. PICK s \in rows : y = ToSuggestionItem(s)
    BY <1>3, <1>4
  <2>3. r.id = s.id
    BY <1>7, <2>1, <2>2, ItemIs
  <2>4. r = s
    BY <2>3, ClosetAssumption
  <2>. QED  BY <2>1, <2>2, <2>4
<1>. QED  BY <1>5, <1>6, <1>7

\* The comparator sorts any closet, whatever the palette and the recent wears.
LEMMA BeforeOrders ==
  ASSUME NEW rows \in Closets, NEW palette \in SUBSET ColorFamilies, NEW recent
  PROVE  StrictOrder(CleanOf(rows), OrderOf(CleanOf(rows), palette, recent))
<1>. DEFINE S == CleanOf(rows)
            order == OrderOf(S, palette, recent)
<1>1. \A x \in S : x.id \in Int /\ x.warmth \in Int
  BY CleanIs
<1>2. \A x, y \in S : x.id = y.id => x = y
  BY CleanIs
<1>3. \A x \in S : Affinity(x, palette) \in Int
  BY CleanIs, AffinityIs DEF Affinity
<1>4. \A x, y \in S : <<x, y>> \in order <=> Before(x, y, palette, recent)
  BY DEF OrderOf
<1>. HIDE DEF S, order
<1>5. \A x \in S : <<x, x>> \notin order
  BY <1>1, <1>3, <1>4 DEF Before
<1>6. \A x, y \in S : x # y => <<x, y>> \in order \/ <<y, x>> \in order
  BY <1>1, <1>2, <1>3, <1>4 DEF Before
<1>7. \A x, y, z \in S : <<x, y>> \in order /\ <<y, z>> \in order => <<x, z>> \in order
  BY <1>1, <1>3, <1>4 DEF Before
<1>. QED  BY <1>5, <1>6, <1>7 DEF StrictOrder, S, order

LEMMA LayersIs ==
  /\ \A t \in Temperatures : TargetLayerCount(t) \in Nat \ {0}
  /\ \A s, t \in Temperatures : s <= t => TargetLayerCount(t) <= TargetLayerCount(s)
BY ClosetAssumption DEF TargetLayerCount

\* The look is the start of the sorted clean garments.
LEMMA LookIs ==
  ASSUME NEW rows \in Closets, NEW tempC \in Temperatures, NEW hues, NEW recent,
         NEW s, s = Sorted(CleanOf(rows), OrderOf(CleanOf(rows), PaletteFromSwatches(hues), recent)),
         NEW n, n = Least(TargetLayerCount(tempC), Cardinality(CleanOf(rows))),
         NEW look, look = SuggestItems(rows, tempC, hues, recent)
  PROVE  /\ n \in 0..Cardinality(CleanOf(rows))
         /\ look \in [1..n -> CleanOf(rows)] /\ Len(look) = n
         /\ \A i \in 1..n : look[i] = s[i]
         /\ DOMAIN look = 1..n
<1>. DEFINE S == CleanOf(rows)
            order == OrderOf(S, PaletteFromSwatches(hues), recent)
            c == Cardinality(S)
<1>1. PaletteFromSwatches(hues) \in SUBSET ColorFamilies
  BY DEF PaletteFromSwatches
<1>2. IsFiniteSet(S) /\ c \in Nat /\ StrictOrder(S, order)
  BY <1>1, CleanIs, BeforeOrders
<1>3. s = Sorted(S, order)
  OBVIOUS
<1>4. look = SubSeq(s, 1, Least(TargetLayerCount(tempC), Len(s)))
  BY DEF SuggestItems, CleanOf, OrderOf
<1>. HIDE DEF S, order
<1>5. s \in [1..c -> S]
  BY <1>2, <1>3, SortedIs
<1>6. s \in Seq(S) /\ Len(s) = c
  BY <1>2, <1>5
<1>7. n = Least(TargetLayerCount(tempC), c)
  BY DEF S
<1>. HIDE DEF c
<1>8. n \in 0..c
  BY <1>2, <1>7, LayersIs DEF Least
<1>9. look = SubSeq(s, 1, n)
  BY <1>4, <1>6, <1>7
<1>10. look = [i \in 1..n |-> s[i]] /\ Len(look) = n
  BY <1>2, <1>6, <1>8, <1>9
<1>11. /\ look \in [1..n -> S] /\ DOMAIN look = 1..n
       /\ \A i \in 1..n : look[i] = s[i]
  <2>1. \A i \in 1..n : i \in 1..c
    BY <1>2, <1>8
  <2>. QED  BY <1>5, <1>10, <2>1
<1>. QED  BY <1>8, <1>10, <1>11 DEF S, c

\* Where two sorted lists first differ, each prefers its own.
LEMMA FirstDifference ==
  ASSUME NEW S, IsFiniteSet(S), NEW A, StrictOrder(S, A), NEW B, StrictOrder(S, B),
         NEW i \in 1..Cardinality(S), Sorted(S, A)[i] # Sorted(S, B)[i],
         \A j \in 1..Cardinality(S) : j < i => Sorted(S, A)[j] = Sorted(S, B)[j]
  PROVE  /\ <<Sorted(S, A)[i], Sorted(S, B)[i]>> \in A
         /\ \A j \in 1..Cardinality(S) : j <= i => Sorted(S, B)[j] # Sorted(S, A)[i]
<1>. DEFINE a == Sorted(S, A)
            b == Sorted(S, B)
            c == Cardinality(S)
<1>1. c \in Nat /\ a \in [1..c -> S] /\ b \in [1..c -> S]
  <2>1. c \in Nat /\ a \in [1..c -> S]
    BY SortedIs
  <2>2. b \in [1..c -> S]
    BY SortedIs
  <2>. QED  BY <2>1, <2>2
<1>2. ASSUME NEW j \in 1..c, NEW k \in 1..c, j < k PROVE a[j] # a[k] /\ b[j] # b[k]
  <2>1. <<a[j], a[k]>> \in A /\ <<b[j], b[k]>> \in B
    BY <1>2, SortedOrder
  <2>. QED  BY <1>1, <2>1 DEF StrictOrder
<1>3. PICK k \in 1..c : a[k] = b[i]
  <2>1. \A x \in S : \E k \in 1..c : a[k] = x
    BY SortedIs
  <2>2. b[i] \in S
    BY <1>1
  <2>. HIDE DEF a, b, c
  <2>. QED  BY <2>1, <2>2
<1>4. i < k
  <2>1. CASE k = i
    BY <1>3, <2>1
  <2>2. CASE k < i
    <3>1. a[k] = b[k]
      BY <2>2
    <3>2. b[k] # b[i]
      BY <1>2, <2>2
    <3>. QED  BY <1>3, <3>1, <3>2
  <2>. QED  BY <1>1, <2>1, <2>2
<1>5. <<a[i], a[k]>> \in A
  BY <1>4, SortedOrder
<1>6. ASSUME NEW j \in 1..c, j <= i PROVE b[j] # a[i]
  <2>1. CASE j = i
    BY <2>1
  <2>2. CASE j < i
    <3>1. a[j] = b[j]
      BY <2>2
    <3>2. a[j] # a[i]
      BY <1>2, <2>2
    <3>. QED  BY <3>1, <3>2
  <2>. QED  BY <1>1, <1>6, <2>1, <2>2
<1>. QED  BY <1>3, <1>5, <1>6

LEMMA FreshClaim ==
  ASSUME NEW rows \in Closets, NEW tempC \in Temperatures, NEW hues, NEW recent,
         FreshnessInfluencedOrder(rows, tempC, hues, recent)
  PROVE  LET look == SuggestItems(rows, tempC, hues, recent)
         IN  \E i \in DOMAIN look, worn \in CleanOf(rows) :
               /\ look[i].id \notin recent
               /\ worn.id \in recent /\ worn.warmth = look[i].warmth
               /\ \A j \in 1..i : look[j] # worn
<1>. DEFINE S == CleanOf(rows)
            c == Cardinality(S)
            p == PaletteFromSwatches(hues)
            O == OrderOf(S, p, recent)
            P == OrderOf(S, p, {})
            s == Sorted(S, O)
            t == Sorted(S, P)
            n == Least(TargetLayerCount(tempC), c)
            look == SuggestItems(rows, tempC, hues, recent)
            stale == SuggestItems(rows, tempC, hues, {})
<1>1. p \in SUBSET ColorFamilies
  BY DEF PaletteFromSwatches
<1>2. IsFiniteSet(S) /\ c \in Nat /\ StrictOrder(S, O) /\ StrictOrder(S, P)
  BY <1>1, CleanIs, BeforeOrders
<1>3. n \in 0..c /\ DOMAIN look = 1..n /\ \A i \in 1..n : look[i] = s[i]
  BY LookIs
<1>4. DOMAIN stale = 1..n /\ \A i \in 1..n : stale[i] = t[i]
  BY LookIs
<1>5. ChosenIds(stale) # ChosenIds(look)
  BY DEF FreshnessInfluencedOrder
<1>6. \A x, y \in S : /\ <<x, y>> \in O <=> Before(x, y, p, recent)
                      /\ <<x, y>> \in P <=> Before(x, y, p, {})
  BY DEF OrderOf
<1>7. \A x \in S : x.id \in Int /\ x.warmth \in Int /\ Affinity(x, p) \in Int
  BY <1>1, CleanIs, AffinityIs DEF Affinity
<1>. HIDE DEF S, p, O, P, s, t, n, look, stale
<1>8. \E i \in 1..n : s[i] # t[i]
  BY <1>3, <1>4, <1>5 DEF ChosenIds
<1>9. PICK i \in 1..n : s[i] # t[i] /\ \A j \in 1..n : s[j] # t[j] => i <= j
  <2>. DEFINE D == {j \in 1..n : s[j] # t[j]}
  <2>1. D \in SUBSET Nat /\ D # {}
    BY <1>8
  <2>. HIDE DEF D
  <2>2. \E x \in D : \A y \in D : x <= y
    BY <2>1, LeastIn
  <2>. QED  BY <2>2 DEF D
<1>. HIDE DEF c
<1>10. i \in 1..c /\ \A j \in 1..c : j < i => s[j] = t[j]
  BY <1>2, <1>3, <1>9
<1>11. s \in [1..c -> S] /\ t \in [1..c -> S]
  BY <1>2, SortedIs DEF s, t, c
<1>12. /\ <<s[i], t[i]>> \in O /\ <<t[i], s[i]>> \in P
       /\ \A j \in 1..c : j <= i => s[j] # t[i]
  <2>1. <<t[i], s[i]>> \in P /\ \A j \in 1..c : j <= i => s[j] # t[i]
    <3>1. t[i] # s[i] /\ \A j \in 1..c : j < i => t[j] = s[j]
      BY <1>9, <1>10
    <3>. QED  BY <1>2, <1>10, <3>1, FirstDifference DEF s, t, c
  <2>2. <<s[i], t[i]>> \in O
    BY <1>2, <1>9, <1>10, FirstDifference DEF s, t, c
  <2>. QED  BY <2>1, <2>2
<1>13. s[i] \in S /\ t[i] \in S /\ s[i] # t[i]
  BY <1>9, <1>10, <1>11
<1>14. Before(s[i], t[i], p, recent) /\ Before(t[i], s[i], p, {})
  BY <1>6, <1>12, <1>13
<1>15. s[i].id \notin recent /\ t[i].id \in recent /\ t[i].warmth = s[i].warmth
  BY <1>7, <1>13, <1>14 DEF Before
<1>16. i \in DOMAIN look /\ look[i] = s[i] /\ \A j \in 1..i : look[j] # t[i]
  BY <1>2, <1>3, <1>9, <1>12
<1>17. \E k \in DOMAIN look, worn \in S :
         /\ look[k].id \notin recent
         /\ worn.id \in recent /\ worn.warmth = look[k].warmth
         /\ \A j \in 1..k : look[j] # worn
  BY <1>13, <1>15, <1>16
<1>. QED  BY <1>17 DEF look, S

\* Of n garments, those at least as warm as a grade.
AtLeast(w, n, grade) == {i \in 1..n : w[i] >= grade}

LEMMA AtLeastStep ==
  ASSUME NEW w, NEW n \in Nat, NEW grade \in Int, w[n + 1] \in Int
  PROVE  /\ IsFiniteSet(AtLeast(w, n, grade)) /\ Cardinality(AtLeast(w, n, grade)) \in Nat
         /\ Cardinality(AtLeast(w, 0, grade)) = 0
         /\ Cardinality(AtLeast(w, n + 1, grade))
              = Cardinality(AtLeast(w, n, grade)) + IF w[n + 1] >= grade THEN 1 ELSE 0
<1>. DEFINE A == AtLeast(w, n, grade)
            B == AtLeast(w, n + 1, grade)
<1>1. A \in SUBSET (1..n) /\ n + 1 \notin A
  BY DEF AtLeast
<1>2. B = A \cup (IF w[n + 1] >= grade THEN {n + 1} ELSE {})
  BY DEF AtLeast
<1>3. AtLeast(w, 0, grade) = {}
  BY DEF AtLeast
<1>. HIDE DEF A, B
<1>4. IsFiniteSet(1..n)
  BY FS_Interval
<1>5. IsFiniteSet(A) /\ Cardinality(A) \in Nat
  BY <1>1, <1>4, FS_Subset, FS_CardinalityType
<1>6. Cardinality(A \cup {n + 1}) = Cardinality(A) + 1
  BY <1>1, <1>5, FS_AddElement
<1>7. Cardinality(B) = Cardinality(A) + IF w[n + 1] >= grade THEN 1 ELSE 0
  <2>1. CASE w[n + 1] >= grade
    BY <1>2, <1>6, <2>1
  <2>2. CASE ~(w[n + 1] >= grade)
    <3>1. B = A
      BY <1>2, <2>2
    <3>. QED  BY <1>5, <2>2, <3>1
  <2>. QED  BY <2>1, <2>2
<1>. QED  BY <1>3, <1>5, <1>7, FS_EmptySet DEF A, B

\* The sum of warmths, counted grade by grade.
Layers(w, n) ==
  Cardinality(AtLeast(w, n, 1)) + Cardinality(AtLeast(w, n, 2)) + 2 * Cardinality(AtLeast(w, n, 4))

LEMMA LayerCake ==
  ASSUME NEW w, NEW n \in Nat, \A i \in 1..n : w[i] \in {1, 2, 4}
  PROVE  Total(w, n) = Layers(w, n)
<1>. DEFINE Bad == {m \in 0..n : Total(w, m) # Layers(w, m)}
<1>1. SUFFICES ASSUME Bad # {} PROVE FALSE
  OBVIOUS
<1>2. PICK m \in Bad : \A k \in Bad : m <= k
  <2>1. Bad \in SUBSET Nat
    OBVIOUS
  <2>. HIDE DEF Bad
  <2>. QED  BY <1>1, <2>1, LeastIn
<1>3. m # 0
  <2>1. AtLeast(w, 0, 1) = {} /\ AtLeast(w, 0, 2) = {} /\ AtLeast(w, 0, 4) = {}
    BY DEF AtLeast
  <2>2. Layers(w, 0) = 0
    BY <2>1, FS_EmptySet DEF Layers
  <2>. QED  BY <1>2, <2>2, TotalStep
<1>. DEFINE k == m - 1
<1>4. k \in 0..n /\ k \notin Bad /\ k \in Nat /\ k + 1 = m /\ w[k + 1] \in {1, 2, 4}
  BY <1>2, <1>3
<1>5. Total(w, k) = Layers(w, k)
  BY <1>4
<1>. HIDE DEF k
<1>6. Total(w, k + 1) = Total(w, k) + w[k + 1]
  BY <1>4, TotalStep
<1>7. \A grade \in {1, 2, 4} :
        /\ Cardinality(AtLeast(w, k, grade)) \in Nat
        /\ Cardinality(AtLeast(w, k + 1, grade))
             = Cardinality(AtLeast(w, k, grade)) + IF w[k + 1] >= grade THEN 1 ELSE 0
  BY <1>4, AtLeastStep
<1>8. Layers(w, k + 1) = Layers(w, k) + w[k + 1]
  BY <1>4, <1>7 DEF Layers
<1>. QED  BY <1>2, <1>4, <1>5, <1>6, <1>8

LEMMA MoreLayers ==
  ASSUME NEW v, NEW w, NEW n \in Nat, \A i \in 1..n : v[i] \in {1, 2, 4} /\ w[i] \in {1, 2, 4},
         \A grade \in {1, 2, 4} : Cardinality(AtLeast(v, n, grade)) <= Cardinality(AtLeast(w, n, grade))
  PROVE  Total(v, n) <= Total(w, n)
<1>1. ASSUME NEW u, NEW grade \in {1, 2, 4} PROVE Cardinality(AtLeast(u, n, grade)) \in Nat
  <2>1. AtLeast(u, n, grade) \in SUBSET (1..n) /\ IsFiniteSet(1..n)
    BY FS_Interval DEF AtLeast
  <2>. QED  BY <2>1, FS_Subset, FS_CardinalityType
<1>2. Layers(v, n) <= Layers(w, n)
  <2>1. \A grade \in {1, 2, 4} : /\ Cardinality(AtLeast(v, n, grade)) \in Nat
                                 /\ Cardinality(AtLeast(w, n, grade)) \in Nat
    BY <1>1
  <2>. QED  BY <2>1 DEF Layers
<1>. QED  BY <1>2, LayerCake

LEMMA AggregateIs ==
  ASSUME NEW n \in Nat, NEW S, NEW items \in [1..n -> S], NEW w,
         \A i \in 1..n : w[i] = items[i].warmth
  PROVE  AggregateWarmth(items) = Total(w, n)
<1>. DEFINE v == [i \in 1..n |-> items[i].warmth]
<1>1. AggregateWarmth(items) = Total(v, n)
  <2>1. DOMAIN items = 1..n
    OBVIOUS
  <2>2. items \in Seq(S) /\ Len(items) = n
    OBVIOUS
  <2>. QED  BY <2>1, <2>2, Zenon DEF AggregateWarmth
<1>2. \A i \in 1..n : v[i] = w[i]
  OBVIOUS
<1>. HIDE DEF v
<1>. QED  BY <1>1, <1>2, TotalSame

\* No other choice of as many clean garments has more at least as warm as a grade.
LEMMA WarmestFirst ==
  ASSUME NEW rows \in Closets, NEW palette \in SUBSET ColorFamilies, NEW recent,
         NEW n \in 0..Cardinality(CleanOf(rows)), NEW other \in Injections(n, CleanOf(rows)),
         NEW s, s = Sorted(CleanOf(rows), OrderOf(CleanOf(rows), palette, recent)),
         NEW grade \in Int,
         NEW v, \A i \in 1..n : v[i] = other[i].warmth,
         NEW w, \A i \in 1..n : w[i] = s[i].warmth
  PROVE  Cardinality(AtLeast(v, n, grade)) <= Cardinality(AtLeast(w, n, grade))
<1>. DEFINE S == CleanOf(rows)
            c == Cardinality(S)
            order == OrderOf(S, palette, recent)
            A == AtLeast(v, n, grade)
            B == AtLeast(w, n, grade)
<1>1. IsFiniteSet(S) /\ c \in Nat /\ StrictOrder(S, order)
  BY CleanIs, BeforeOrders
<1>2. \A x, y \in S : <<x, y>> \in order => Before(x, y, palette, recent)
  BY DEF OrderOf
<1>3. \A x \in S : x.warmth \in Int
  BY CleanIs
<1>4. other \in [1..n -> S] /\ \A i, j \in 1..n : other[i] = other[j] => i = j
  BY DEF Injections
<1>5. s = Sorted(S, order)
  OBVIOUS
<1>. HIDE DEF S, order, c
<1>6. n \in Nat /\ n <= c
  BY <1>1 DEF S, c
<1>7. s \in [1..c -> S] /\ \A x \in S : \E k \in 1..c : s[k] = x
  BY <1>1, <1>5, SortedIs DEF c
<1>8. ASSUME NEW i \in 1..c, NEW k \in 1..c, i < k PROVE s[k].warmth <= s[i].warmth
  <2>1. <<s[i], s[k]>> \in order
    BY <1>1, <1>5, <1>8, SortedOrder DEF c
  <2>2. s[i] \in S /\ s[k] \in S
    BY <1>7
  <2>. QED  BY <1>2, <1>3, <2>1, <2>2 DEF Before
<1>9. A \in SUBSET (1..n) /\ B \in SUBSET (1..n) /\ IsFiniteSet(1..n)
  BY <1>6, FS_Interval DEF AtLeast
<1>10. ASSUME NEW j \in A
       PROVE  \E k \in B : (B = 1..n /\ k = j) \/ (B # 1..n /\ s[k] = other[j])
  <2>1. j \in 1..n /\ other[j] \in S /\ other[j].warmth >= grade
    BY <1>4 DEF AtLeast
  <2>2. CASE B = 1..n
    <3>1. j \in B
      BY <2>1, <2>2
    <3>. QED  BY <2>2, <3>1
  <2>3. CASE B # 1..n
    <3>1. PICK i \in 1..n : i \notin B
      BY <1>9, <2>3
    <3>2. i \in 1..c /\ s[i] \in S /\ s[i].warmth < grade
      <4>1. i \in 1..c
        BY <1>1, <1>6
      <4>2. s[i] \in S /\ s[i].warmth \in Int
        BY <1>3, <1>7, <4>1
      <4>3. ~(s[i].warmth >= grade)
        BY <3>1 DEF AtLeast
      <4>. QED  BY <4>1, <4>2, <4>3
    <3>3. PICK k \in 1..c : s[k] = other[j]
      BY <1>7, <2>1
    <3>4. s[k].warmth \in Int
      BY <1>3, <2>1, <3>3
    <3>5. k < i
      <4>1. CASE i = k
        BY <1>3, <2>1, <3>2, <3>3, <3>4, <4>1
      <4>2. CASE i < k
        <5>1. s[k].warmth <= s[i].warmth
          BY <1>8, <3>2, <4>2
        <5>. QED  BY <1>3, <2>1, <3>2, <3>3, <3>4, <5>1
      <4>. QED  BY <1>1, <3>2, <4>1, <4>2
    <3>6. k \in 1..n /\ k \in B
      <4>1. k \in 1..n
        BY <1>1, <1>6, <3>5
      <4>. QED  BY <2>1, <3>3, <4>1 DEF AtLeast
    <3>. QED  BY <2>3, <3>3, <3>6
  <2>. QED  BY <2>2, <2>3
<1>. DEFINE Is(j, k) == (B = 1..n /\ k = j) \/ (B # 1..n /\ s[k] = other[j])
            f == [j \in A |-> CHOOSE k \in B : Is(j, k)]
<1>. HIDE DEF A, B
<1>11. \A j \in A : f[j] \in B /\ Is(j, f[j])
  BY <1>10
<1>12. f \in [A -> B]
  <2>1. f = [j \in A |-> f[j]]
    OBVIOUS
  <2>. HIDE DEF f
  <2>. QED  BY <1>11, <2>1
<1>13. f \in Injection(A, B)
  <2>. HIDE DEF f
  <2>1. ASSUME NEW i \in A, NEW j \in A, f[i] = f[j] PROVE i = j
    BY <1>4, <1>9, <1>11, <2>1
  <2>2. DOMAIN f = A
    BY <1>12
  <2>3. IsInjective(f)
    BY <2>1, <2>2 DEF IsInjective
  <2>. QED  BY <1>12, <2>3 DEF Injection
<1>14. IsFiniteSet(B)
  BY <1>9, FS_Subset
<1>. HIDE DEF f
<1>15. Cardinality(A) <= Cardinality(B)
  BY <1>13, <1>14, FS_Injection
<1>. QED  BY <1>15 DEF A, B

LEMMA Weather ==
  ASSUME NEW rows \in Closets, NEW tempC \in Temperatures, NEW hues, NEW recent
  PROVE  LET look == SuggestItems(rows, tempC, hues, recent)
             warmth == AggregateWarmth(look)
         IN  /\ (look = << >>) = (CleanOf(rows) = {})
             /\ ToSet(look) \subseteq CleanOf(rows)
             /\ \A other \in Injections(Len(look), CleanOf(rows)) : AggregateWarmth(other) <= warmth
             /\ \A t \in Temperatures :
                  t <= tempC => AggregateWarmth(SuggestItems(rows, t, hues, recent)) >= warmth
<1>. DEFINE S == CleanOf(rows)
            c == Cardinality(S)
            p == PaletteFromSwatches(hues)
            s == Sorted(S, OrderOf(S, p, recent))
            n(t) == Least(TargetLayerCount(t), c)
            look(t) == SuggestItems(rows, t, hues, recent)
            w == [i \in 1..c |-> s[i].warmth]
<1>1. p \in SUBSET ColorFamilies
  BY DEF PaletteFromSwatches
<1>2. IsFiniteSet(S) /\ c \in Nat /\ \A x \in S : x.warmth \in {1, 2, 4}
  BY CleanIs
<1>3. s \in [1..c -> S]
  BY <1>1, <1>2, BeforeOrders, SortedIs
<1>4. ASSUME NEW t \in Temperatures
      PROVE  /\ n(t) \in 0..c /\ look(t) \in [1..n(t) -> S] /\ Len(look(t)) = n(t)
             /\ \A i \in 1..n(t) : look(t)[i] = s[i]
  BY LookIs
<1>5. \A i \in 1..c : w[i] \in {1, 2, 4} /\ w[i] = s[i].warmth
  BY <1>2, <1>3
<1>. HIDE DEF p, s, w
<1>6. ASSUME NEW t \in Temperatures PROVE AggregateWarmth(look(t)) = Total(w, n(t))
  <2>. HIDE DEF S, c, n, look
  <2>1. \A i \in 1..n(t) : w[i] = look(t)[i].warmth
    BY <1>2, <1>4, <1>5
  <2>2. n(t) \in Nat
    BY <1>2, <1>4
  <2>. QED  BY <1>4, <2>1, <2>2, AggregateIs
<1>7. (look(tempC) = << >>) = (S = {})
  <2>1. S = {} <=> c = 0
    BY <1>2, FS_EmptySet
  <2>2. n(tempC) = 0 <=> c = 0
    <3>. HIDE DEF c
    <3>. QED  BY <1>2, LayersIs DEF Least
  <2>. HIDE DEF S, c, n, look
  <2>3. look(tempC) = << >> <=> n(tempC) = 0
    BY <1>4
  <2>. QED  BY <2>1, <2>2, <2>3
<1>8. ToSet(look(tempC)) \subseteq S
  <2>. HIDE DEF S, c, n, look
  <2>. QED  BY <1>4 DEF ToSet
<1>9. ASSUME NEW other \in Injections(Len(look(tempC)), S)
      PROVE  AggregateWarmth(other) <= AggregateWarmth(look(tempC))
  <2>. DEFINE m == n(tempC)
              v == [i \in 1..m |-> other[i].warmth]
  <2>1. m \in 0..c /\ other \in Injections(m, S)
    BY <1>4
  <2>2. ASSUME NEW grade \in Int
        PROVE  Cardinality(AtLeast(v, m, grade)) <= Cardinality(AtLeast(w, m, grade))
    <3>1. \A i \in 1..m : v[i] = other[i].warmth
      OBVIOUS
    <3>2. \A i \in 1..m : w[i] = s[i].warmth
      BY <1>2, <1>5, <2>1
    <3>3. s = Sorted(S, OrderOf(S, p, recent))
      BY DEF s
    <3>. HIDE DEF m, v, n, look
    <3>. QED  BY <1>1, <2>1, <3>1, <3>2, <3>3, WarmestFirst
  <2>. HIDE DEF S, c, n, look
  <2>3. other \in [1..m -> S]
    BY <2>1 DEF Injections
  <2>4. m \in Nat /\ \A i \in 1..m : w[i] \in {1, 2, 4} /\ v[i] \in {1, 2, 4} /\ v[i] = other[i].warmth
    BY <1>2, <1>5, <2>1, <2>3
  <2>. HIDE DEF m, v
  <2>5. AggregateWarmth(other) = Total(v, m)
    BY <2>3, <2>4, AggregateIs
  <2>6. Total(v, m) <= Total(w, m)
    BY <2>2, <2>4, MoreLayers
  <2>. QED  BY <1>6, <2>5, <2>6 DEF m
<1>10. ASSUME NEW t \in Temperatures, t <= tempC
       PROVE  AggregateWarmth(look(t)) >= AggregateWarmth(look(tempC))
  <2>1. n(tempC) <= n(t)
    <3>. HIDE DEF c
    <3>1. TargetLayerCount(tempC) <= TargetLayerCount(t)
      BY <1>10, LayersIs
    <3>. QED  BY <1>2, <3>1, LayersIs DEF Least
  <2>. HIDE DEF S, c, n, look
  <2>2. n(t) \in Nat /\ n(tempC) \in 0..n(t) /\ \A i \in 1..n(t) : w[i] \in Nat
    BY <1>2, <1>4, <1>5, <2>1
  <2>3. /\ Total(w, n(tempC)) \in Nat /\ Total(w, n(t)) \in Nat
        /\ Total(w, n(tempC)) <= Total(w, n(t))
    BY <2>2, TotalGrows
  <2>. QED  BY <1>6, <2>3
<1>. QED  BY <1>7, <1>8, <1>9, <1>10

-----------------------------------------------------------------------------
(* The note and its explanation.                                            *)

Verdicts == {WorstFirst[i] : i \in 1..7}

LEMMA RankIs ==
  /\ DOMAIN WorstFirst = 1..7
  /\ \A v \in Verdicts : RankOf(v) \in 1..7 /\ WorstFirst[RankOf(v)] = v
  /\ \A i \in 1..7 : RankOf(WorstFirst[i]) = i
  /\ None \notin Verdicts
<1>1. DOMAIN WorstFirst = 1..7
  BY DEF WorstFirst
<1>2. \A i, j \in 1..7 : WorstFirst[i] = WorstFirst[j] => i = j
  BY DEF WorstFirst
<1>3. \A v \in Verdicts : RankOf(v) \in 1..7 /\ WorstFirst[RankOf(v)] = v
  BY <1>1 DEF Verdicts, RankOf
<1>4. \A i \in 1..7 : WorstFirst[i] \in Verdicts
  BY DEF Verdicts
<1>5. \A i \in 1..7 : RankOf(WorstFirst[i]) = i
  BY <1>2, <1>3, <1>4
<1>6. None \notin Verdicts
  BY DEF Verdicts, WorstFirst, None
<1>. QED  BY <1>1, <1>3, <1>5, <1>6

\* The worst of some verdicts is one of them, and none ranks lower.
LEMMA WorstIs ==
  ASSUME NEW verdicts \in SUBSET Verdicts, verdicts # {}
  PROVE  /\ WorstOf(verdicts) \in verdicts
         /\ \A v \in verdicts : RankOf(WorstOf(verdicts)) <= RankOf(v)
<1>. DEFINE R == {i \in 1..7 : WorstFirst[i] \in verdicts}
<1>1. R \in SUBSET Nat /\ R # {}
  BY DEF Verdicts
<1>2. \E i \in R : \A j \in R : i <= j
  <2>. HIDE DEF R
  <2>. QED  BY <1>1, LeastIn
<1>3. \E i \in 1..7 : /\ WorstFirst[i] \in verdicts
                      /\ \A j \in 1..(i - 1) : WorstFirst[j] \notin verdicts
  <2>1. PICK i \in R : \A j \in R : i <= j
    BY <1>2
  <2>2. \A j \in 1..(i - 1) : j \in 1..7 /\ ~(i <= j)
    OBVIOUS
  <2>. QED  BY <2>1, <2>2
<1>4. PICK i \in 1..7 : /\ WorstOf(verdicts) = WorstFirst[i]
                        /\ WorstFirst[i] \in verdicts
                        /\ \A j \in 1..(i - 1) : WorstFirst[j] \notin verdicts
  BY <1>3, RankIs DEF WorstOf
<1>5. ASSUME NEW v \in verdicts PROVE RankOf(WorstOf(verdicts)) <= RankOf(v)
  <2>1. RankOf(v) \in 1..7 /\ WorstFirst[RankOf(v)] = v
    BY RankIs
  <2>2. RankOf(v) \notin 1..(i - 1)
    BY <1>4, <2>1
  <2>3. RankOf(WorstOf(verdicts)) = i
    BY <1>4, RankIs
  <2>. QED  BY <2>1, <2>2, <2>3
<1>. QED  BY <1>4, <1>5

LEMMA HarmonyIs ==
  ASSUME NEW a \in ColorFamilies, NEW b \in ColorFamilies
  PROVE  Harmony(a, b) \in Verdicts /\ Harmony(a, b) = Harmony(b, a)
<1>1. CASE {a, b} \cap Neutral # {}
  <2>1. Harmony(a, b) = "neutral" /\ Harmony(b, a) = "neutral"
    BY <1>1 DEF Harmony
  <2>2. "neutral" = WorstFirst[7]
    BY DEF WorstFirst
  <2>. QED  BY <2>1, <2>2 DEF Verdicts
<1>2. CASE {a, b} \cap Neutral = {}
  <2>1. a \in Hues /\ b \in Hues
    BY <1>2 DEF ColorFamilies
  <2>2. HueDistance(a, b) \in 0..6 /\ HueDistance(a, b) = HueDistance(b, a)
    BY <2>1, HueDistanceIs
  <2>3. {b, a} \cap Neutral = {}
    BY <1>2
  <2>4. /\ Harmony(a, b) = VerdictByDistance[HueDistance(a, b) + 1]
        /\ Harmony(b, a) = VerdictByDistance[HueDistance(b, a) + 1]
    BY <1>2, <2>3 DEF Harmony
  <2>5. \A d \in 0..6 : VerdictByDistance[d + 1] \in Verdicts
    <3>1. \A d \in 0..6 : \E i \in 1..7 : WorstFirst[i] = VerdictByDistance[d + 1]
      BY DEF WorstFirst, VerdictByDistance
    <3>. QED  BY <3>1 DEF Verdicts
  <2>. QED  BY <2>2, <2>4, <2>5
<1>. QED  BY <1>1, <1>2

\* A pair has one verdict in either order, no worse for what is known of its chroma.
LEMMA ChromaIs ==
  ASSUME NEW s, NEW t, s.family \in ColorFamilies, t.family \in ColorFamilies
  PROVE  /\ HarmonyWithChroma(s, t) \in Verdicts
         /\ HarmonyWithChroma(s, t) = HarmonyWithChroma(t, s)
         /\ RankOf(Harmony(s.family, t.family)) <= RankOf(HarmonyWithChroma(s, t))
<1>1. Harmony(s.family, t.family) \in Verdicts
  BY HarmonyIs
<1>2. Harmony(s.family, t.family) = Harmony(t.family, s.family)
  BY HarmonyIs
<1>3. "neutral" \in Verdicts /\ RankOf("neutral") = 7
  <2>1. "neutral" = WorstFirst[7]
    BY DEF WorstFirst
  <2>. QED  BY <2>1, RankIs DEF Verdicts
<1>4. RankOf(Harmony(s.family, t.family)) \in 1..7
  BY <1>1, RankIs
<1>5. HarmonyWithChroma(s, t) \in {Harmony(s.family, t.family), "neutral"}
  BY DEF HarmonyWithChroma
<1>. QED  BY <1>1, <1>2, <1>3, <1>4, <1>5 DEF HarmonyWithChroma

LEMMA PairIs ==
  ASSUME NEW look \in Seq(StoredColors), NEW p \in PairsOf(look)
  PROVE  /\ p[1] \in DOMAIN look /\ p[2] \in DOMAIN look /\ p[1] < p[2]
         /\ ColorSignal(look[p[1]]).family \in ColorFamilies
         /\ ColorSignal(look[p[2]]).family \in ColorFamilies
         /\ Verdict(look, p) \in Verdicts
<1>1. /\ p \in SignalsOf(look) \X SignalsOf(look) /\ p[1] < p[2]
  BY DEF PairsOf
<1>2. \A i \in SignalsOf(look) : i \in DOMAIN look /\ ColorSignal(look[i]).family \in ColorFamilies
  <2>1. ASSUME NEW i \in SignalsOf(look)
        PROVE  i \in DOMAIN look /\ ColorSignal(look[i]).family \in ColorFamilies
    <3>1. i \in DOMAIN look /\ look[i] \in StoredColors /\ ColorFamily(look[i]) # None
      BY DEF SignalsOf
    <3>2. ColorFamily(look[i]) \in ColorFamilies
      BY <3>1, FamilyIs
    <3>. QED  BY <3>1, <3>2 DEF ColorFamily
  <2>. QED  BY <2>1
<1>3. p[1] \in SignalsOf(look) /\ p[2] \in SignalsOf(look)
  BY <1>1
<1>. QED  BY <1>1, <1>2, <1>3, ChromaIs DEF Verdict

\* The verdict of a look is that of one of its pairs, and none is worse.
LEMMA OutfitIs ==
  ASSUME NEW look \in Seq(StoredColors)
  PROVE  /\ OutfitVerdict(look) = None <=> PairsOf(look) = {}
         /\ PairsOf(look) # {} =>
              /\ OutfitVerdict(look) \in Verdicts
              /\ \E p \in PairsOf(look) : OutfitVerdict(look) = Verdict(look, p)
              /\ \A p \in PairsOf(look) : RankOf(OutfitVerdict(look)) <= RankOf(Verdict(look, p))
<1>. DEFINE met == {Verdict(look, p) : p \in PairsOf(look)}
<1>1. ASSUME PairsOf(look) # {}
      PROVE  /\ OutfitVerdict(look) \in met /\ OutfitVerdict(look) \in Verdicts
             /\ \A v \in met : RankOf(OutfitVerdict(look)) <= RankOf(v)
  <2>1. met \in SUBSET Verdicts /\ met # {}
    BY <1>1, PairIs
  <2>2. OutfitVerdict(look) = WorstOf(met)
    BY <1>1 DEF OutfitVerdict
  <2>. HIDE DEF met
  <2>. QED  BY <2>1, <2>2, WorstIs
<1>2. PairsOf(look) = {} => OutfitVerdict(look) = None
  BY DEF OutfitVerdict
<1>. QED  BY <1>1, <1>2, RankIs

\* The tokens of a look: its colours without what is known of their chroma.
TokensOf(look) ==
  [i \in DOMAIN look |->
     LET f == ColorFamily(look[i])
     IN  IF f = None THEN look[i] ELSE [kind |-> "token", family |-> f]]

LEMMA TokensAre ==
  ASSUME NEW look \in Seq(StoredColors)
  PROVE  /\ TokensOf(look) \in Seq(StoredColors)
         /\ PairsOf(TokensOf(look)) = PairsOf(look)
         /\ \A p \in PairsOf(look) :
              RankOf(Verdict(TokensOf(look), p)) <= RankOf(Verdict(look, p))
<1>. DEFINE t == TokensOf(look)
<1>1. look \in [1..Len(look) -> StoredColors] /\ Len(look) \in Nat /\ DOMAIN look = 1..Len(look)
  OBVIOUS
<1>2. ASSUME NEW i \in DOMAIN look
      PROVE  /\ t[i] \in StoredColors
             /\ ColorFamily(t[i]) = ColorFamily(look[i])
             /\ ColorFamily(look[i]) # None =>
                  ColorSignal(t[i]) = Signal(ColorFamily(look[i]), Unknown, FALSE)
  <2>1. look[i] \in StoredColors
    BY <1>1
  <2>2. CASE ColorFamily(look[i]) = None
    <3>1. t[i] = look[i]
      BY <2>2 DEF TokensOf
    <3>. QED  BY <2>1, <2>2, <3>1
  <2>3. CASE ColorFamily(look[i]) # None
    <3>1. t[i] = [kind |-> "token", family |-> ColorFamily(look[i])]
      BY <2>3 DEF TokensOf
    <3>2. ColorFamily(look[i]) \in ColorFamilies
      BY <2>1, <2>3, FamilyIs
    <3>3. t[i] \in StoredColors
      BY <3>1, <3>2 DEF StoredColors
    <3>4. ColorSignal(t[i]) = Signal(ColorFamily(look[i]), Unknown, FALSE)
      BY <3>1 DEF ColorSignal, HexSignal
    <3>5. ColorFamily(t[i]) = ColorSignal(t[i]).family
      BY DEF ColorFamily
    <3>. HIDE DEF t
    <3>6. Signal(ColorFamily(look[i]), Unknown, FALSE).family = ColorFamily(look[i])
      BY DEF Signal
    <3>. QED  BY <3>3, <3>4, <3>5, <3>6
  <2>. QED  BY <2>2, <2>3
<1>3. DOMAIN t = DOMAIN look
  BY DEF TokensOf
<1>. HIDE DEF t
<1>4. t \in Seq(StoredColors)
  <2>1. t = [i \in 1..Len(look) |-> t[i]]
    BY <1>1 DEF t, TokensOf
  <2>2. t \in [1..Len(look) -> StoredColors]
    BY <1>1, <1>2, <2>1
  <2>. QED  BY <1>1, <2>2
<1>5. SignalsOf(t) = SignalsOf(look)
  BY <1>2, <1>3 DEF SignalsOf
<1>6. PairsOf(t) = PairsOf(look)
  BY <1>5 DEF PairsOf
<1>7. ASSUME NEW p \in PairsOf(look)
      PROVE  RankOf(Verdict(t, p)) <= RankOf(Verdict(look, p))
  <2>. DEFINE a == ColorSignal(look[p[1]])
              b == ColorSignal(look[p[2]])
  <2>1. p[1] \in DOMAIN look /\ p[2] \in DOMAIN look /\ a.family \in ColorFamilies /\ b.family \in ColorFamilies
    BY PairIs
  <2>2. a.family = ColorFamily(look[p[1]]) /\ b.family = ColorFamily(look[p[2]])
    BY DEF ColorFamily
  <2>. HIDE DEF a, b
  <2>3. a.family # None /\ b.family # None
    BY <2>1, HueIndexIs
  <2>4. /\ ColorSignal(t[p[1]]) = Signal(a.family, Unknown, FALSE)
        /\ ColorSignal(t[p[2]]) = Signal(b.family, Unknown, FALSE)
    BY <1>2, <2>1, <2>2, <2>3
  <2>5. Verdict(t, p) = Harmony(a.family, b.family)
    BY <2>4 DEF Verdict, HarmonyWithChroma, Signal
  <2>6. Verdict(look, p) = HarmonyWithChroma(a, b)
    BY DEF Verdict, a, b
  <2>. QED  BY <2>1, <2>5, <2>6, ChromaIs
<1>. QED  BY <1>4, <1>6, <1>7 DEF t

LEMMA Note ==
  ASSUME NEW look \in Seq(StoredColors)
  PROVE  LET harmony == OutfitVerdict(look)
             why == SuggestionRationale(harmony, FALSE, FALSE, FALSE)
         IN  /\ harmony # None =>
                  /\ \A i, j \in DOMAIN look :
                       LET two == OutfitVerdict(<<look[i], look[j]>>)
                       IN  (i # j /\ two # None) => RankOf(harmony) <= RankOf(two)
                  /\ RankOf(OutfitVerdict(TokensOf(look))) <= RankOf(harmony)
             /\ (SuggestionNote(look) = None) = (why = <<"weather">>)
<1>. DEFINE harmony == OutfitVerdict(look)
            why == SuggestionRationale(harmony, FALSE, FALSE, FALSE)
<1>1. ASSUME harmony # None, NEW i \in DOMAIN look, NEW j \in DOMAIN look, i # j,
             OutfitVerdict(<<look[i], look[j]>>) # None
      PROVE  RankOf(harmony) <= RankOf(OutfitVerdict(<<look[i], look[j]>>))
  <2>. DEFINE two == <<look[i], look[j]>>
  <2>1. look[i] \in StoredColors /\ look[j] \in StoredColors /\ i \in Int /\ j \in Int
    OBVIOUS
  <2>2. two \in Seq(StoredColors) /\ DOMAIN two = 1..2 /\ two[1] = look[i] /\ two[2] = look[j]
    BY <2>1
  <2>. HIDE DEF two
  <2>3. PICK p \in PairsOf(two) : OutfitVerdict(two) = Verdict(two, p)
    BY <1>1, <2>2, OutfitIs DEF two
  <2>4. p[1] = 1 /\ p[2] = 2 /\ 1 \in SignalsOf(two) /\ 2 \in SignalsOf(two)
    <3>1. p[1] \in SignalsOf(two) /\ p[2] \in SignalsOf(two) /\ p[1] < p[2]
      BY <2>3 DEF PairsOf
    <3>2. SignalsOf(two) \subseteq 1..2
      BY <2>2 DEF SignalsOf
    <3>3. p[1] = 1 /\ p[2] = 2
      BY <3>1, <3>2
    <3>. QED  BY <3>1, <3>3
  <2>5. i \in SignalsOf(look) /\ j \in SignalsOf(look)
    BY <2>2, <2>4 DEF SignalsOf
  <2>6. OutfitVerdict(two) = HarmonyWithChroma(ColorSignal(look[i]), ColorSignal(look[j]))
    BY <2>2, <2>3, <2>4 DEF Verdict
  <2>7. CASE i < j
    <3>1. <<i, j>> \in PairsOf(look)
      BY <2>5, <2>7 DEF PairsOf
    <3>2. Verdict(look, <<i, j>>) = OutfitVerdict(two)
      BY <2>6 DEF Verdict
    <3>3. RankOf(harmony) <= RankOf(Verdict(look, <<i, j>>))
      BY <3>1, OutfitIs
    <3>. QED  BY <3>2, <3>3 DEF two
  <2>8. CASE j < i
    <3>1. <<j, i>> \in PairsOf(look)
      BY <2>5, <2>8 DEF PairsOf
    <3>2. /\ ColorSignal(look[i]).family \in ColorFamilies
          /\ ColorSignal(look[j]).family \in ColorFamilies
      BY <3>1, PairIs
    <3>3. Verdict(look, <<j, i>>) = OutfitVerdict(two)
      BY <2>6, <3>2, ChromaIs DEF Verdict
    <3>4. RankOf(harmony) <= RankOf(Verdict(look, <<j, i>>))
      BY <3>1, OutfitIs
    <3>. QED  BY <3>3, <3>4 DEF two
  <2>. QED  BY <1>1, <2>1, <2>7, <2>8
<1>2. ASSUME harmony # None
      PROVE  RankOf(OutfitVerdict(TokensOf(look))) <= RankOf(harmony)
  <2>. DEFINE t == TokensOf(look)
  <2>1. t \in Seq(StoredColors) /\ PairsOf(t) = PairsOf(look)
    BY TokensAre
  <2>2. PICK p \in PairsOf(look) : harmony = Verdict(look, p)
    BY <1>2, OutfitIs
  <2>3. RankOf(Verdict(t, p)) <= RankOf(Verdict(look, p))
    BY TokensAre
  <2>. HIDE DEF t
  <2>4. PairsOf(t) # {} /\ p \in PairsOf(t)
    BY <2>1, <2>2
  <2>5. RankOf(OutfitVerdict(t)) <= RankOf(Verdict(t, p)) /\ OutfitVerdict(t) \in Verdicts
    BY <2>1, <2>4, OutfitIs
  <2>6. Verdict(t, p) \in Verdicts /\ Verdict(look, p) \in Verdicts
    BY <2>1, <2>4, PairIs
  <2>7. /\ RankOf(OutfitVerdict(t)) \in 1..7 /\ RankOf(Verdict(t, p)) \in 1..7
        /\ RankOf(Verdict(look, p)) \in 1..7
    BY <2>5, <2>6, RankIs
  <2>8. RankOf(OutfitVerdict(t)) <= RankOf(Verdict(look, p))
    BY <2>3, <2>5, <2>7
  <2>. QED  BY <2>2, <2>8 DEF t
<1>3. harmony \in Verdicts \cup {None}
  BY OutfitIs
<1>. HIDE DEF harmony
<1>4. ASSUME harmony \in {None, "clash"}
      PROVE  SuggestionNote(look) = None /\ why = <<"weather">>
  <2>1. SuggestionNote(look) = None
    BY <1>4 DEF SuggestionNote, harmony, None
  <2>2. why = <<"weather">> \o << >> \o << >> \o << >> \o << >>
    BY <1>4 DEF SuggestionRationale
  <2>3. <<"weather">> \o << >> = <<"weather">>
    OBVIOUS
  <2>4. why = <<"weather">>
    BY <2>2, <2>3, Zenon
  <2>. QED  BY <2>1, <2>4
<1>5. ASSUME harmony \notin {None, "clash"}
      PROVE  SuggestionNote(look) # None /\ why # <<"weather">>
  <2>1. SuggestionNote(look) # None
    <3>1. CASE harmony = "monochromatic"
      <4>1. SuggestionNote(look) = MonochromaticNote(look)
        BY <3>1 DEF SuggestionNote, harmony, None
      <4>2. MonochromaticNote(look) \in {"layered", "flat"}
        BY DEF MonochromaticNote
      <4>. QED  BY <4>1, <4>2 DEF None
    <3>2. CASE harmony # "monochromatic"
      <4>1. SuggestionNote(look) = harmony
        BY <1>5, <3>2 DEF SuggestionNote, harmony
      <4>. QED  BY <1>5, <4>1
    <3>. QED  BY <3>1, <3>2
  <2>2. why = <<"weather">> \o << >> \o << >> \o <<harmony>> \o <<"self-chosen", "approximate">>
    BY <1>5 DEF SuggestionRationale
  <2>3. Len(why) = 4
    <3>1. Len(<<"weather">> \o << >> \o << >> \o <<harmony>> \o <<"self-chosen", "approximate">>) = 4
      OBVIOUS
    <3>. QED  BY <2>2, <3>1, Zenon
  <2>4. Len(<<"weather">>) = 1
    OBVIOUS
  <2>. HIDE DEF why
  <2>. QED  BY <2>1, <2>3, <2>4
<1>6. (SuggestionNote(look) = None) = (why = <<"weather">>)
  <2>. HIDE DEF why
  <2>. QED  BY <1>4, <1>5
<1>. QED  BY <1>1, <1>2, <1>6 DEF harmony

-----------------------------------------------------------------------------
(* The quiz.                                                                *)

Hexes(channels) == [kind : {"hex"}, r : channels, g : channels, b : channels]

\* The channels of the twelve swatches.
LEMMA SwatchChannels ==
  ASSUME NEW i \in 1..12
  PROVE  LET step == i - 1
             x == IF step % 4 = 0 THEN 103 ELSE IF step % 2 = 0 THEN 193 ELSE 148
             sector == step \div 2
             h == SwatchHex(Chromatic[i])
         IN  /\ h \in Hexes({103, 148, 193})
             /\ <<h.r, h.g, h.b>> =
                  CASE sector = 0 -> <<193, x, 103>> [] sector = 1 -> <<x, 193, 103>>
                    [] sector = 2 -> <<103, 193, x>> [] sector = 3 -> <<103, x, 193>>
                    [] sector = 4 -> <<x, 103, 193>> [] OTHER -> <<193, 103, x>>
<1>. DEFINE Channel(v) == ((v + 4036) * 255 + 5000) \div 10000
            Hex(r, g, b) == [kind |-> "hex", r |-> r, g |-> g, b |-> b]
            step == i - 1
            x == IF step % 4 = 0 THEN 0 ELSE IF step % 2 = 0 THEN 3528 ELSE 3528 \div 2
            sector == step \div 2
            rgb == CASE sector = 0 -> <<3528, x, 0>> [] sector = 1 -> <<x, 3528, 0>>
                     [] sector = 2 -> <<0, 3528, x>> [] sector = 3 -> <<0, x, 3528>>
                     [] sector = 4 -> <<x, 0, 3528>> [] OTHER -> <<3528, 0, x>>
            h == SwatchHex(Chromatic[i])
<1>1. Channel(0) = 103 /\ Channel(3528) = 193 /\ Channel(1764) = 148
  OBVIOUS
<1>2. Chromatic[i] \notin Neutral /\ HueIndex(Chromatic[i]) = i
  BY HueIndexIs
<1>3. h = Hex(Channel(rgb[1]), Channel(rgb[2]), Channel(rgb[3]))
  <2>1. /\ Chromatic[i] # "black" /\ Chromatic[i] # "white" /\ Chromatic[i] # "gray"
        /\ Chromatic[i] # "beige" /\ Chromatic[i] # "navy"
    BY <1>2 DEF Neutral
  <2>. QED  BY <1>2, <2>1 DEF SwatchHex
<1>4. /\ h.kind = "hex"
      /\ h.r = Channel(rgb[1]) /\ h.g = Channel(rgb[2]) /\ h.b = Channel(rgb[3])
  BY <1>3
<1>5. step \in 0..11 /\ sector \in 0..5 /\ 3528 \div 2 = 1764 /\ x \in {0, 1764, 3528}
  OBVIOUS
<1>. HIDE DEF sector, x, h
<1>6. /\ sector = 0 => rgb = <<3528, x, 0>>
      /\ sector = 1 => rgb = <<x, 3528, 0>>
      /\ sector = 2 => rgb = <<0, 3528, x>>
      /\ sector = 3 => rgb = <<0, x, 3528>>
      /\ sector = 4 => rgb = <<x, 0, 3528>>
      /\ sector = 5 => rgb = <<3528, 0, x>>
  BY <1>5
<1>. DEFINE y == IF step % 4 = 0 THEN 103 ELSE IF step % 2 = 0 THEN 193 ELSE 148
<1>7. y = Channel(x) /\ y \in {103, 148, 193}
  BY <1>1, <1>5 DEF x
<1>8. h \in [kind : {"hex"}, r : {Channel(rgb[1])}, g : {Channel(rgb[2])}, b : {Channel(rgb[3])}]
  BY <1>3 DEF h
<1>. HIDE DEF rgb, Channel, y
<1>9. /\ sector = 0 => h.r = 193 /\ h.g = y /\ h.b = 103
      /\ sector = 1 => h.r = y /\ h.g = 193 /\ h.b = 103
      /\ sector = 2 => h.r = 103 /\ h.g = 193 /\ h.b = y
      /\ sector = 3 => h.r = 103 /\ h.g = y /\ h.b = 193
      /\ sector = 4 => h.r = y /\ h.g = 103 /\ h.b = 193
      /\ sector = 5 => h.r = 193 /\ h.g = 103 /\ h.b = y
  BY <1>1, <1>4, <1>6, <1>7
<1>10. h.r \in {103, 148, 193} /\ h.g \in {103, 148, 193} /\ h.b \in {103, 148, 193}
  BY <1>5, <1>7, <1>9
<1>11. h \in Hexes({103, 148, 193})
  BY <1>8, <1>10 DEF Hexes
<1>12. <<h.r, h.g, h.b>> =
         CASE sector = 0 -> <<193, y, 103>> [] sector = 1 -> <<y, 193, 103>>
           [] sector = 2 -> <<103, 193, y>> [] sector = 3 -> <<103, y, 193>>
           [] sector = 4 -> <<y, 103, 193>> [] OTHER -> <<193, 103, y>>
  BY <1>5, <1>9
<1>. QED  BY <1>11, <1>12 DEF h, y, sector

\* The colour the quiz draws for a hue goes back to that hue.
LEMMA SwatchFamily ==
  ASSUME NEW f \in Hues
  PROVE  SwatchHex(f) \in StoredColors /\ ColorFamily(SwatchHex(f)) = f
<1>. DEFINE i == HueIndex(f)
            step == i - 1
            sector == step \div 2
            y == IF step % 4 = 0 THEN 103 ELSE IF step % 2 = 0 THEN 193 ELSE 148
            h == SwatchHex(f)
            r == h.r
            g == h.g
            b == h.b
            M == Greatest({r, g, b})
            m == -Greatest({-r, -g, -b})
            delta == M - m
            turn == CASE M = r -> (g - b)
                      [] M # r /\ M = g -> (b - r) + 2 * delta
                      [] OTHER -> (r - g) + 4 * delta
            room == 255 - Abs(M + m - 255)
<1>1. i \in 1..12 /\ Chromatic[i] = f
  BY HueIndexIs
<1>2. /\ h \in Hexes({103, 148, 193})
      /\ <<r, g, b>> = CASE sector = 0 -> <<193, y, 103>> [] sector = 1 -> <<y, 193, 103>>
                         [] sector = 2 -> <<103, 193, y>> [] sector = 3 -> <<103, y, 193>>
                         [] sector = 4 -> <<y, 103, 193>> [] OTHER -> <<193, 103, y>>
  <2>. HIDE DEF i
  <2>. QED  BY <1>1, SwatchChannels
<1>3. step \in 0..11 /\ sector \in 0..5 /\ y \in {103, 148, 193} /\ i = step + 1
  <2>. HIDE DEF i
  <2>. QED  BY <1>1
<1>4. /\ step = 2 * sector \/ step = 2 * sector + 1
      /\ step = 2 * sector => y \in {103, 193} /\ (y = 103 <=> sector % 2 = 0)
      /\ step = 2 * sector + 1 => y = 148
  <2>. HIDE DEF i
  <2>. QED  BY <1>1
<1>5. h.kind = "hex" /\ h \in StoredColors
  BY <1>2 DEF Hexes, StoredColors
<1>. HIDE DEF i, step, sector, y, h, r, g, b
<1>6. /\ sector = 0 => r = 193 /\ g = y /\ b = 103
      /\ sector = 1 => r = y /\ g = 193 /\ b = 103
      /\ sector = 2 => r = 103 /\ g = 193 /\ b = y
      /\ sector = 3 => r = 103 /\ g = y /\ b = 193
      /\ sector = 4 => r = y /\ g = 103 /\ b = 193
      /\ sector = 5 => r = 193 /\ g = 103 /\ b = y
  BY <1>2
<1>7. r \in {103, 148, 193} /\ g \in {103, 148, 193} /\ b \in {103, 148, 193}
  BY <1>3, <1>6
<1>8. 193 \in {r, g, b} /\ -103 \in {-r, -g, -b}
  BY <1>3, <1>6
<1>9. M = 193
  <2>1. r \in Int /\ g \in Int /\ b \in Int
    BY <1>7
  <2>2. M \in {r, g, b} /\ r <= M /\ g <= M /\ b <= M
    BY <2>1, GreatestOfThree, Zenon
  <2>. HIDE DEF M
  <2>. QED  BY <1>7, <1>8, <2>2
<1>10. m = -(-103)
  <2>. DEFINE n == Greatest({-r, -g, -b})
  <2>1. -r \in Int /\ -g \in Int /\ -b \in Int
    BY <1>7
  <2>2. n \in {-r, -g, -b} /\ -r <= n /\ -g <= n /\ -b <= n
    BY <2>1, GreatestOfThree, Zenon
  <2>3. m = -n
    OBVIOUS
  <2>. HIDE DEF n, m
  <2>. QED  BY <1>7, <1>8, <2>2, <2>3
<1>. HIDE DEF M, m
<1>11. delta = 90 /\ room = 214 /\ M + m = 296
  BY <1>9, <1>10 DEF Abs
<1>12. Hsl(h) = [sum |-> M + m, delta |-> delta,
                 hue |-> 60 * turn + (IF turn < 0 THEN 360 * delta ELSE 0),
                 muted |-> 100 * delta < 35 * room,
                 achromatic |-> \/ delta = 0
                                \/ 100 * delta < 15 * room
                                \/ M + m < 102
                                \/ (M + m) * 100 > 85 * 510]
  BY DEF Hsl, HslWithin, M, m, r, g, b
<1>. HIDE DEF delta, room
<1>13. turn = IF 6 <= step /\ sector = 5 THEN 45 * step - 540 ELSE 45 * step
  <2>1. /\ M = r => turn = g - b
        /\ M # r /\ M = g => turn = (b - r) + 2 * delta
        /\ M # r /\ M # g => turn = (r - g) + 4 * delta
    BY Zenon
  <2>. HIDE DEF turn
  <2>2. CASE step = 2 * sector
    <3>1. (sector = 0 => y = 103) /\ (sector = 1 => y = 193) /\ (sector = 2 => y = 103)
            /\ (sector = 3 => y = 193) /\ (sector = 4 => y = 103) /\ (sector = 5 => y = 193)
      BY <1>3, <1>4, <2>2
    <3>. QED  BY <1>3, <1>6, <1>9, <1>11, <2>1, <2>2, <3>1
  <2>3. CASE step = 2 * sector + 1
    BY <1>3, <1>4, <1>6, <1>9, <1>11, <2>1, <2>3
  <2>. QED  BY <1>4, <2>2, <2>3
<1>. HIDE DEF turn
<1>14. Hsl(h).hue = 2700 * step /\ Hsl(h).delta = 90 /\ Hsl(h).achromatic = FALSE
  <2>1. 60 * turn + (IF turn < 0 THEN 360 * delta ELSE 0) = 2700 * step
    BY <1>3, <1>4, <1>11, <1>13
  <2>2. ~(\/ delta = 0
          \/ 100 * delta < 15 * room
          \/ M + m < 102
          \/ (M + m) * 100 > 85 * 510)
    BY <1>11
  <2>. QED  BY <1>11, <1>12, <2>1, <2>2
<1>15. ColorFamily(h) = ChromaticFamily(2700 * step, 90)
  BY <1>5, <1>14 DEF ColorFamily, ColorSignal, HexSignal, Signal
<1>16. ChromaticFamily(2700 * step, 90) = Chromatic[i]
  <2>1. (2700 * step + 1350) % 32400 = 2700 * step + 1350
    BY <1>3
  <2>2. (2700 * step + 1350) \div 2700 = step
    BY <1>3
  <2>3. step % 12 = step
    BY <1>3
  <2>4. 15 * 90 = 1350 /\ 360 * 90 = 32400 /\ 30 * 90 = 2700
    OBVIOUS
  <2>5. ChromaticFamily(2700 * step, 90) = Chromatic[step + 1]
    BY <2>1, <2>2, <2>3, <2>4 DEF ChromaticFamily
  <2>. QED  BY <1>3, <2>5
<1>. QED  BY <1>1, <1>5, <1>15, <1>16 DEF h

\* A garment in the colour of a swatch, scored against what was tapped.
Reaches(worn, tapped) ==
  LET scored == ScorePalette(SwatchHex(worn), PaletteFromSwatches(tapped))
      Degrees(f) == 30 * (HueIndex(f) - 1)
      Near(f) == Abs(Degrees(f) - Degrees(worn)) \in {0, 30, 330}
  IN  /\ ColorFamily(SwatchHex(worn)) = worn
      /\ worn \in tapped => scored.score = 100
      /\ scored.within = (\E f \in tapped \cap Hues : Near(f))

LEMMA Swatch ==
  ASSUME NEW worn \in Hues, NEW tapped
  PROVE  Reaches(worn, tapped)
<1>. DEFINE scored == ScorePalette(SwatchHex(worn), PaletteFromSwatches(tapped))
            chosen == tapped \cap ColorFamilies
            Degrees(f) == 30 * (HueIndex(f) - 1)
            Near(f) == Abs(Degrees(f) - Degrees(worn)) \in {0, 30, 330}
            Given(f) == IF f \in Neutral THEN 50 ELSE AffinityByHueStep[HueDistance(worn, f) + 1]
            score == PaletteAffinity(worn, chosen)
<1>1. ColorFamily(SwatchHex(worn)) = worn
  BY SwatchFamily
<1>2. worn \in ColorFamilies /\ worn # None
  BY HueIndexIs DEF ColorFamilies
<1>3. PaletteFromSwatches(PaletteFromSwatches(tapped)) = chosen
  BY DEF PaletteFromSwatches
<1>4. scored = [score |-> score, within |-> score >= 75]
  BY <1>1, <1>2, <1>3, Zenon DEF ScorePalette, WithinPaletteThreshold
<1>5. score \in 0..100
  BY <1>2, AffinityIs
<1>6. chosen # {} => /\ \E f \in chosen : score = Given(f)
                     /\ \A f \in chosen : Given(f) <= score
  BY <1>2, AffinityIs
<1>7. \A f \in chosen : f \in Hues <=> f \notin Neutral
  BY HueIndexIs DEF ColorFamilies
<1>8. ASSUME NEW f \in chosen
      PROVE  /\ Given(f) \in 0..100
             /\ Given(f) >= 75 <=> f \in Hues /\ Near(f)
             /\ f = worn => Given(f) = 100
  <2>1. CASE f \in Neutral
    <3>1. Given(f) = 50 /\ f \notin Hues /\ f # worn
      BY <1>7, <2>1
    <3>. QED  BY <3>1
  <2>2. CASE f \in Hues
    <3>. DEFINE d == HueDistance(worn, f)
    <3>1. d \in 0..6 /\ (d = 0 <=> worn = f)
      BY <2>2, HueDistanceIs
    <3>2. Given(f) = AffinityByHueStep[d + 1]
      BY <1>7, <2>2
    <3>3. HueIndex(f) \in 1..12 /\ HueIndex(worn) \in 1..12
      BY <2>2, HueIndexIs
    <3>4. d <= 1 <=> Near(f)
      BY <3>3, HueIndexIs DEF HueDistance, Least, Abs
    <3>5. \A n \in 0..6 : /\ AffinityByHueStep[n + 1] \in 0..100
                          /\ AffinityByHueStep[n + 1] >= 75 <=> n <= 1
                          /\ n = 0 => AffinityByHueStep[n + 1] = 100
      BY DEF AffinityByHueStep
    <3>. HIDE DEF d, Given, Near
    <3>. QED  BY <2>2, <3>1, <3>2, <3>4, <3>5
  <2>. QED  BY <1>7, <2>1, <2>2
<1>9. chosen = {} => score = 0
  BY DEF PaletteAffinity
<1>. HIDE DEF score, Given, Near
<1>10. worn \in tapped => score = 100
  <2>1. ASSUME worn \in tapped PROVE score = 100
    <3>1. worn \in chosen
      BY <1>2, <2>1
    <3>2. Given(worn) = 100 /\ Given(worn) <= score
      BY <1>6, <1>8, <3>1
    <3>. QED  BY <1>5, <3>2
  <2>. QED  BY <2>1
<1>11. (score >= 75) <=> (\E f \in tapped \cap Hues : Near(f))
  <2>1. ASSUME score >= 75 PROVE \E f \in tapped \cap Hues : Near(f)
    <3>1. chosen # {}
      BY <1>5, <1>9, <2>1
    <3>2. PICK f \in chosen : score = Given(f)
      BY <1>6, <3>1
    <3>. QED  BY <1>8, <2>1, <3>2
  <2>2. ASSUME NEW f \in tapped \cap Hues, Near(f) PROVE score >= 75
    <3>1. f \in chosen
      BY DEF ColorFamilies
    <3>2. Given(f) >= 75 /\ Given(f) <= score /\ Given(f) \in 0..100
      BY <1>6, <1>8, <2>2, <3>1
    <3>. QED  BY <1>5, <3>2
  <2>. QED  BY <2>1, <2>2
<1>12. scored.score = score /\ scored.within = (score >= 75)
  BY <1>4
<1>13. scored.within = (\E f \in tapped \cap Hues : Near(f))
  <2>. HIDE DEF scored
  <2>1. (score >= 75) \in BOOLEAN
    BY <1>5
  <2>. DEFINE enough == score >= 75
              some == \E f \in tapped \cap Hues : Near(f)
  <2>2. enough <=> some
    BY <1>11
  <2>3. enough \in BOOLEAN /\ some \in BOOLEAN
    BY <2>1, Zenon
  <2>4. scored.within = enough
    BY <1>12, Zenon
  <2>. HIDE DEF enough, some
  <2>5. enough = some
    BY <2>2, <2>3, Zenon
  <2>6. scored.within = some
    BY <2>4, <2>5, Zenon
  <2>. QED  BY <2>6 DEF some
<1>14. worn \in tapped => scored.score = 100
  BY <1>10, <1>12
<1>. QED  BY <1>1, <1>13, <1>14, Zenon DEF Near, Reaches

-----------------------------------------------------------------------------
(* The vendors.                                                             *)

LEMMA KnobsAre == TimeoutTicks \in Nat \ {0} /\ MaxRetries \in Nat
BY KnobAssumption DEF TimeoutTicks, MaxRetries, IntAtLeastOrDefault

LEMMA AttemptIs ==
  ASSUME NEW vendor, vendor.status \in Nat, vendor.head \in Nat, vendor.body \in Nat
  PROVE  AttemptOnce(vendor).took \in 0..TimeoutTicks
<1>. DEFINE needs == IF vendor.status = 200 THEN vendor.head + vendor.body ELSE vendor.head
<1>1. needs \in Nat /\ TimeoutTicks \in Nat
  BY KnobsAre
<1>2. AttemptOnce(vendor).took \in {needs, TimeoutTicks}
  BY DEF AttemptOnce
<1>3. AttemptOnce(vendor).took <= TimeoutTicks
  BY <1>1 DEF AttemptOnce
<1>. QED  BY <1>1, <1>2, <1>3

Waits(n) == Total([i \in 1..n |-> BackoffCeiling(i - 1)], n)

LEMMA WaitsAre ==
  ASSUME NEW n \in 0..MaxRetries
  PROVE  Waits(n) \in Nat /\ Waits(MaxRetries) \in Nat /\ Waits(n) <= Waits(MaxRetries)
<1>. DEFINE w == [i \in 1..MaxRetries |-> BackoffCeiling(i - 1)]
            v == [i \in 1..n |-> BackoffCeiling(i - 1)]
<1>1. MaxRetries \in Nat
  BY KnobsAre
<1>2. \A i \in 1..MaxRetries : w[i] \in Nat
  <2>1. \A i \in 1..MaxRetries : i - 1 \in 0..MaxRetries
    BY <1>1
  <2>. QED  BY <2>1, KnobAssumption
<1>3. \A i \in 1..n : v[i] = w[i]
  BY <1>1
<1>4. Waits(n) = Total(v, n) /\ Waits(MaxRetries) = Total(w, MaxRetries)
  BY DEF Waits
<1>. HIDE DEF v, w
<1>5. Total(v, n) = Total(w, n)
  BY <1>1, <1>3, TotalSame
<1>6. /\ Total(w, n) \in Nat /\ Total(w, MaxRetries) \in Nat
      /\ Total(w, n) <= Total(w, MaxRetries)
  BY <1>1, <1>2, TotalGrows
<1>. QED  BY <1>4, <1>5, <1>6

\* A call makes an attempt, and no more of them than its retries allow.
LEMMA LastIs ==
  ASSUME NEW vendors
  PROVE  LastAttempt(vendors) \in 1..(MaxRetries + 1)
<1>. DEFINE Again(j) == /\ AttemptOnce(vendors[j]).kind = "status"
                        /\ IsRetryableStatus(vendors[j].status)
                        /\ j - 1 < MaxRetries
            Ends == {i \in 1..(MaxRetries + 1) : ~Again(i)}
<1>1. MaxRetries \in Nat
  BY KnobsAre
<1>2. Ends \in SUBSET Nat /\ MaxRetries + 1 \in Ends
  BY <1>1
<1>3. LastAttempt(vendors) = CHOOSE i \in 1..(MaxRetries + 1) : ~Again(i) /\ \A j \in 1..(i - 1) : Again(j)
  BY DEF LastAttempt
<1>. HIDE DEF Again
<1>4. \E i \in Ends : \A j \in Ends : i <= j
  <2>. HIDE DEF Ends
  <2>. QED  BY <1>2, LeastIn
<1>5. \E i \in 1..(MaxRetries + 1) : ~Again(i) /\ \A j \in 1..(i - 1) : Again(j)
  <2>1. PICK i \in Ends : \A j \in Ends : i <= j
    BY <1>4
  <2>2. ASSUME NEW j \in 1..(i - 1) PROVE Again(j)
    BY <1>1, <2>1
  <2>. QED  BY <2>1, <2>2
<1>. QED  BY <1>3, <1>5

LEMMA CallIs ==
  ASSUME NEW vendors, Met(vendors)
  PROVE  LET call == RequestWithRetry(vendors)
         IN  /\ call.calls \in Nat /\ call.calls <= MaxRetries + 1
             /\ call.ticks \in Nat /\ call.ticks <= TimeoutTicks * (MaxRetries + 1)
             /\ call.backoff \in Nat
             /\ WorstCall \in Nat /\ call.ticks + call.backoff <= WorstCall
<1>. DEFINE call == RequestWithRetry(vendors)
            n == LastAttempt(vendors)
            w == [i \in 1..n |-> AttemptOnce(vendors[i]).took]
<1>1. MaxRetries \in Nat /\ TimeoutTicks \in Nat /\ TimeoutTicks * (MaxRetries + 1) \in Nat
  BY KnobsAre
<1>2. n \in 1..(MaxRetries + 1)
  BY LastIs
<1>3. call.calls = n /\ call.ticks = Total(w, n) /\ call.backoff = Waits(n - 1)
  BY DEF RequestWithRetry, EndingAt, Waits
<1>. HIDE DEF n, call
<1>4. \A i \in 1..n : w[i] \in 0..TimeoutTicks
  <2>1. \A i \in 1..n : AttemptOnce(vendors[i]).took \in 0..TimeoutTicks
    BY <1>1, <1>2, AttemptIs DEF Met
  <2>. QED  BY <2>1
<1>. HIDE DEF w
<1>5. Total(w, n) \in Nat /\ Total(w, n) <= TimeoutTicks * n
  BY <1>1, <1>2, <1>4, TotalBounded
<1>6. TimeoutTicks * n <= TimeoutTicks * (MaxRetries + 1) /\ TimeoutTicks * n \in Nat
  BY <1>1, <1>2
<1>7. Waits(n - 1) \in Nat /\ Waits(MaxRetries) \in Nat /\ Waits(n - 1) <= Waits(MaxRetries)
  <2>1. n - 1 \in 0..MaxRetries
    BY <1>1, <1>2
  <2>. QED  BY <2>1, WaitsAre
<1>8. WorstCall = TimeoutTicks * (MaxRetries + 1) + Waits(MaxRetries)
  BY DEF WorstCall, Waits
<1>. DEFINE all == TimeoutTicks * (MaxRetries + 1)
            some == TimeoutTicks * n
<1>. HIDE DEF all, some
<1>9. /\ all \in Nat /\ some \in Nat /\ Total(w, n) <= some /\ some <= all
      /\ WorstCall = all + Waits(MaxRetries)
  BY <1>1, <1>5, <1>6, <1>8 DEF all, some
<1>10. /\ call.calls \in Nat /\ call.calls <= MaxRetries + 1
       /\ call.ticks \in Nat /\ call.ticks <= all /\ call.backoff \in Nat
       /\ WorstCall \in Nat /\ call.ticks + call.backoff <= WorstCall
  BY <1>1, <1>2, <1>3, <1>5, <1>7, <1>9
<1>. QED  BY <1>10 DEF all, call

LEMMA ParseIs ==
  ASSUME NEW parse \in Parses
  PROVE  LET done == ParseCalls(parse.owner, parse.caller, "job", parse.vendors)
         IN  done.fetching < UrlTtlTicks /\ done.total < LeaseTicks
<1>. DEFINE Call(name) == RequestWithRetry(parse.vendors[name])
            Time(name) == Call(name).ticks + Call(name).backoff
            names == {"sign", "vision", "segment", "upload"}
            done == ParseCalls(parse.owner, parse.caller, "job", parse.vendors)
<1>1. ASSUME NEW name \in names PROVE Time(name) \in Nat /\ Time(name) <= WorstCall /\ WorstCall \in Nat
  <2>1. Met(parse.vendors[name])
    BY VendorAssumption
  <2>. DEFINE call == Call(name)
  <2>2. call.ticks \in Nat /\ call.backoff \in Nat /\ WorstCall \in Nat /\ call.ticks + call.backoff <= WorstCall
    BY <2>1, CallIs
  <2>. HIDE DEF call
  <2>3. call.ticks + call.backoff \in Nat
    BY <2>2
  <2>. QED  BY <2>2, <2>3 DEF call
<1>2. /\ done.fetching \in {0, Time("vision")} \cup {Time("vision") + Time("segment")}
                            \cup {0 + 0, Time("vision") + 0, 0 + Time("segment")}
      /\ \E s \in {0, Time("sign")}, u \in {0, Time("upload")} : done.total = s + done.fetching + u
  BY DEF ParseCalls, ProviderBlock
<1>. HIDE DEF Time, done
<1>3. /\ Time("sign") \in Nat /\ Time("sign") <= WorstCall
      /\ Time("vision") \in Nat /\ Time("vision") <= WorstCall
      /\ Time("segment") \in Nat /\ Time("segment") <= WorstCall
      /\ Time("upload") \in Nat /\ Time("upload") <= WorstCall
      /\ WorstCall \in Nat
  BY <1>1
<1>4. done.fetching \in Nat /\ done.fetching <= 2 * WorstCall
  BY <1>2, <1>3
<1>5. done.total \in Nat /\ done.total <= 4 * WorstCall
  BY <1>2, <1>3, <1>4
<1>6. done.fetching < UrlTtlTicks /\ done.total < LeaseTicks
  BY <1>3, <1>4, <1>5, BudgetAssumption
<1>. QED  BY <1>6 DEF done

LEMMA Vouched ==
  ASSUME NEW parse
  PROVE  LET done == ParseCalls(parse.owner, parse.caller, "job", parse.vendors)
             Says(call) == RequestWithRetry(parse.vendors[call]).says
         IN  /\ done.objects # {} =>
                  /\ parse.owner = parse.caller
                  /\ Says("segment") = "good" /\ Says("vision") \in {"good", "upper"}
                  /\ done.objects = {<<parse.owner, "job">>}
             /\ done.ok => done.objects # {}
<1>. DEFINE sign == RequestWithRetry(parse.vendors.sign)
            vision == RequestWithRetry(parse.vendors.vision)
            segment == RequestWithRetry(parse.vendors.segment)
            upload == RequestWithRetry(parse.vendors.upload)
            seen == MintSourcePhotoUrl(parse.owner, parse.caller, sign) /\ ExtractAttributes(vision)
            cut == RemoveBackground(segment, parse.caller, "job", upload)
            done == ParseCalls(parse.owner, parse.caller, "job", parse.vendors)
<1>1. done.ok = (seen /\ cut.ok) /\ done.objects = IF seen THEN cut.objects ELSE {}
  BY DEF ParseCalls, ProviderBlock
<1>2. cut.objects # {} => /\ segment.says = "good"
                          /\ cut.objects = {<<parse.caller, "job">>}
  BY DEF RemoveBackground, StoreCutout
<1>3. cut.ok => cut.objects # {}
  BY DEF RemoveBackground, StoreCutout
<1>4. seen => parse.owner = parse.caller /\ vision.says \in {"good", "upper"}
  BY DEF MintSourcePhotoUrl, ExtractAttributes
<1>. HIDE DEF done, cut, seen
<1>5. /\ done.objects # {} =>
           /\ parse.owner = parse.caller
           /\ segment.says = "good" /\ vision.says \in {"good", "upper"}
           /\ done.objects = {<<parse.owner, "job">>}
      /\ done.ok => done.objects # {}
  BY <1>1, <1>2, <1>3, <1>4
<1>. QED  BY <1>5 DEF done

-----------------------------------------------------------------------------
(* Duplicate pairs.                                                         *)

Bits == 0..(PhashBits - 1)
Unsigned(n) == IF n < 0 THEN n + 2^PhashBits ELSE n
Apart(x, y) ==
  LET Ones(n) == Cardinality({i \in Bits : BitOf(n, i) = 1})
      Common(v, w) == Cardinality({i \in Bits : BitOf(v, i) = 1 /\ BitOf(w, i) = 1})
  IN  Ones(Unsigned(x)) + Ones(Unsigned(y)) - 2 * Common(Unsigned(x), Unsigned(y))

\* The low bits of a printed hash are the hash.
LEMMA ParsedIs ==
  ASSUME NEW n \in -(2^PhashBits) .. 2^PhashBits - 1
  PROVE  n % 2^PhashBits = Unsigned(n) /\ Unsigned(n) \in Nat
<1>. DEFINE w == 2^PhashBits
<1>1. w \in Nat \ {0}
  BY PhashWidth
<1>2. n \in Int /\ -w <= n /\ n <= w - 1
  BY <1>1
<1>3. Unsigned(n) = IF n < 0 THEN n + w ELSE n
  BY DEF Unsigned
<1>. HIDE DEF w
<1>4. CASE n < 0
  <2>1. n % w = n + w
    BY <1>1, <1>2, <1>4
  <2>. QED  BY <1>1, <1>2, <1>3, <1>4, <2>1 DEF w
<1>5. CASE n >= 0
  <2>1. n % w = n
    BY <1>1, <1>2, <1>5
  <2>. QED  BY <1>1, <1>2, <1>3, <1>5, <2>1 DEF w
<1>. QED  BY <1>2, <1>4, <1>5

LEMMA BitIs ==
  ASSUME NEW n \in Nat, NEW i \in Bits
  PROVE  BitOf(n, i) \in {0, 1}
<1>. DEFINE w == 2^i
<1>1. w \in Nat \ {0}
  BY PhashWidth DEF Bits
<1>. HIDE DEF w
<1>2. n \div w \in Int
  BY <1>1
<1>. DEFINE d == n \div w
<1>3. d \in Int
  BY <1>2
<1>. HIDE DEF d
<1>4. d % 2 \in {0, 1}
  BY <1>3
<1>. QED  BY <1>4 DEF d, w, BitOf

\* What differs is what is set in one but not in both.
LEMMA DistanceIs ==
  ASSUME NEW m \in -(2^PhashBits) .. 2^PhashBits - 1, NEW n \in -(2^PhashBits) .. 2^PhashBits - 1
  PROVE  /\ HammingDistance(m % 2^PhashBits, n % 2^PhashBits) = Apart(m, n)
         /\ HammingDistance(m % 2^PhashBits, n % 2^PhashBits)
              = HammingDistance(n % 2^PhashBits, m % 2^PhashBits)
         /\ HammingDistance(m % 2^PhashBits, n % 2^PhashBits) \in Int
<1>. DEFINE v == Unsigned(m)
            w == Unsigned(n)
            A == {i \in Bits : BitOf(v, i) = 1}
            B == {i \in Bits : BitOf(w, i) = 1}
            C == {i \in Bits : BitOf(v, i) = 1 /\ BitOf(w, i) = 1}
            D == {i \in Bits : BitOf(v, i) # BitOf(w, i)}
            E == {i \in Bits : BitOf(w, i) # BitOf(v, i)}
<1>1. m % 2^PhashBits = v /\ n % 2^PhashBits = w /\ v \in Nat /\ w \in Nat
  BY ParsedIs
<1>. HIDE DEF v, w
<1>2. \A i \in Bits : BitOf(v, i) \in {0, 1} /\ BitOf(w, i) \in {0, 1}
  BY <1>1, BitIs
<1>3. IsFiniteSet(Bits)
  BY PhashWidth, FS_Interval DEF Bits
<1>4. A \cap B = C /\ B \cap A = C /\ (A \ B) \cup (B \ A) = D /\ (A \ B) \cap (B \ A) = {} /\ D = E
  BY <1>2
<1>5. A \in SUBSET Bits /\ B \in SUBSET Bits /\ C \in SUBSET Bits /\ D \in SUBSET Bits
  OBVIOUS
<1>6. /\ HammingDistance(v, w) = Cardinality(D) /\ HammingDistance(w, v) = Cardinality(E)
      /\ Apart(m, n) = Cardinality(A) + Cardinality(B) - 2 * Cardinality(C)
  BY DEF HammingDistance, Apart, Bits, v, w
<1>. HIDE DEF A, B, C, D, E
<1>7. IsFiniteSet(A) /\ IsFiniteSet(B) /\ IsFiniteSet(C) /\ IsFiniteSet(D)
  BY <1>3, <1>5, FS_Subset
<1>8. /\ Cardinality(A) \in Nat /\ Cardinality(B) \in Nat /\ Cardinality(C) \in Nat
      /\ Cardinality(D) \in Nat
  BY <1>7, FS_CardinalityType
<1>9. /\ IsFiniteSet(A \ B) /\ Cardinality(A \ B) = Cardinality(A) - Cardinality(C)
      /\ IsFiniteSet(B \ A) /\ Cardinality(B \ A) = Cardinality(B) - Cardinality(C)
  <2>1. IsFiniteSet(A \ B) /\ Cardinality(A \ B) = Cardinality(A) - Cardinality(A \cap B)
    BY <1>7, FS_Difference, Zenon
  <2>2. IsFiniteSet(B \ A) /\ Cardinality(B \ A) = Cardinality(B) - Cardinality(B \cap A)
    BY <1>7, FS_Difference, Zenon
  <2>. QED  BY <1>4, <2>1, <2>2
<1>10. Cardinality(D) = Cardinality(A \ B) + Cardinality(B \ A) - Cardinality({})
  BY <1>4, <1>9, FS_Union
<1>11. Cardinality({}) = 0
  BY FS_EmptySet
<1>. QED  BY <1>1, <1>4, <1>6, <1>8, <1>9, <1>10, <1>11

\* The pairs of garments the scan should surface.
NearOf(items) ==
  {xy \in ToSet(items) \X ToSet(items) :
     /\ xy[1].id < xy[2].id
     /\ HasSignal(xy[1].phash) /\ HasSignal(xy[2].phash)
     /\ Apart(xy[1].phash.n, xy[2].phash.n) <= HammingThreshold}

LEMMA NearIs ==
  ASSUME NEW items \in Scans, NEW xy \in NearOf(items)
  PROVE  /\ xy[1] \in ToSet(items) /\ xy[2] \in ToSet(items) /\ xy = <<xy[1], xy[2]>>
         /\ xy[1].id < xy[2].id /\ xy[1].id # xy[2].id
         /\ HasSignal(xy[1].phash) /\ HasSignal(xy[2].phash)
<1>1. /\ xy[1] \in ToSet(items) /\ xy[2] \in ToSet(items) /\ xy = <<xy[1], xy[2]>>
      /\ xy[1].id < xy[2].id /\ HasSignal(xy[1].phash) /\ HasSignal(xy[2].phash)
  BY DEF NearOf
<1>2. xy[1].id \in Int /\ xy[2].id \in Int
  BY <1>1, ScanAssumption DEF ToSet
<1>. QED  BY <1>1, <1>2

\* A row of the scan, whichever of its garments comes first.
LEMMA RowIs ==
  ASSUME NEW items \in Scans, NEW x \in ToSet(items), NEW y \in ToSet(items),
         HasSignal(x.phash), HasSignal(y.phash), x.id # y.id
  PROVE  /\ x.id \in Int /\ y.id \in Int
         /\ PairRow(x, y).a \in Int /\ PairRow(x, y).b \in Int /\ PairRow(x, y).distance \in Int
         /\ PairRow(x, y) = [a |-> PairRow(x, y).a, b |-> PairRow(x, y).b,
                             distance |-> PairRow(x, y).distance]
         /\ PairRow(x, y) = PairRow(y, x)
         /\ PairRow(x, y).distance = Apart(x.phash.n, y.phash.n)
         /\ x.id < y.id => PairRow(x, y).a = x.id /\ PairRow(x, y).b = y.id
<1>. DEFINE hx == ParsePhash(x.phash)
            hy == ParsePhash(y.phash)
            d == HammingDistance(hx, hy)
            e == HammingDistance(hy, hx)
<1>1. /\ x.phash.n \in -(2^PhashBits) .. 2^PhashBits - 1
      /\ y.phash.n \in -(2^PhashBits) .. 2^PhashBits - 1
      /\ x.id \in Int /\ y.id \in Int
  BY ScanAssumption DEF ToSet
<1>2. hx = x.phash.n % 2^PhashBits /\ hy = y.phash.n % 2^PhashBits
  BY DEF ParsePhash
<1>. HIDE DEF hx, hy
<1>3. d = Apart(x.phash.n, y.phash.n) /\ d = e /\ d \in Int
  BY <1>1, <1>2, DistanceIs
<1>4. /\ PairRow(x, y) = [a |-> IF x.id < y.id THEN x.id ELSE y.id,
                          b |-> IF x.id < y.id THEN y.id ELSE x.id, distance |-> d]
      /\ PairRow(y, x) = [a |-> IF y.id < x.id THEN y.id ELSE x.id,
                          b |-> IF y.id < x.id THEN x.id ELSE y.id, distance |-> e]
  BY DEF PairRow, hx, hy
<1>. HIDE DEF d, e
<1>. QED  BY <1>1, <1>3, <1>4

\* The rows found are those of the near pairs, in the order of their ids.
LEMMA RowsAre ==
  ASSUME NEW items \in Scans
  PROVE  /\ \A p \in NearPairs(items) :
              \E xy \in NearOf(items) : p = PairRow(xy[1], xy[2])
         /\ \A xy \in NearOf(items) : PairRow(xy[1], xy[2]) \in NearPairs(items)
<1>1. \A i, j \in DOMAIN items : items[i].id \in Int /\ (items[i].id = items[j].id => i = j)
  BY ScanAssumption
<1>2. DOMAIN items = 1..Len(items) /\ Len(items) \in Nat
  BY ScanAssumption
<1>. DEFINE N == {i \in DOMAIN items : HasSignal(items[i].phash)}
            pairs == {PairRow(items[ij[1]], items[ij[2]]) : ij \in {p \in N \X N : p[1] < p[2]}}
<1>3. NearPairs(items) = {p \in pairs : p.distance <= HammingThreshold}
  BY DEF NearPairs
<1>4. ASSUME NEW p \in NearPairs(items)
      PROVE  \E xy \in NearOf(items) : p = PairRow(xy[1], xy[2])
  <2>1. PICK i \in N, j \in N : i < j /\ p = PairRow(items[i], items[j])
    BY <1>3
  <2>. DEFINE x == items[i]
              y == items[j]
  <2>2. x \in ToSet(items) /\ y \in ToSet(items) /\ HasSignal(x.phash) /\ HasSignal(y.phash)
    BY DEF ToSet
  <2>3. x.id # y.id /\ x.id \in Int /\ y.id \in Int
    BY <1>1, <1>2, <2>1
  <2>4. p = PairRow(x, y) /\ p.distance <= HammingThreshold
    BY <1>3, <2>1
  <2>. HIDE DEF x, y
  <2>5. CASE x.id < y.id
    <3>1. Apart(x.phash.n, y.phash.n) <= HammingThreshold
      BY <2>2, <2>3, <2>4, RowIs
    <3>2. <<x, y>> \in NearOf(items)
      BY <2>2, <2>5, <3>1 DEF NearOf
    <3>. QED  BY <2>4, <3>2
  <2>6. CASE y.id < x.id
    <3>1. p = PairRow(y, x) /\ p.distance = Apart(y.phash.n, x.phash.n)
      BY <2>2, <2>3, <2>4, RowIs
    <3>2. <<y, x>> \in NearOf(items)
      BY <2>2, <2>4, <2>6, <3>1 DEF NearOf
    <3>. QED  BY <3>1, <3>2
  <2>. QED  BY <2>3, <2>5, <2>6
<1>5. ASSUME NEW xy \in NearOf(items) PROVE PairRow(xy[1], xy[2]) \in NearPairs(items)
  <2>. DEFINE x == xy[1]
              y == xy[2]
  <2>1. /\ x \in ToSet(items) /\ y \in ToSet(items) /\ x.id < y.id
        /\ HasSignal(x.phash) /\ HasSignal(y.phash)
        /\ Apart(x.phash.n, y.phash.n) <= HammingThreshold
    BY DEF NearOf
  <2>2. PICK i \in DOMAIN items, j \in DOMAIN items : x = items[i] /\ y = items[j]
    BY <2>1 DEF ToSet
  <2>. HIDE DEF x, y
  <2>3. i \in N /\ j \in N /\ x.id \in Int /\ y.id \in Int /\ x.id # y.id
    BY <1>1, <2>1, <2>2
  <2>4. PairRow(x, y).distance <= HammingThreshold /\ PairRow(x, y) = PairRow(y, x)
    BY <2>1, <2>3, RowIs
  <2>5. i \in Int /\ j \in Int /\ i # j
    BY <1>2, <2>2, <2>3
  <2>6. CASE i < j
    <3>1. <<i, j>> \in {p \in N \X N : p[1] < p[2]}
      BY <2>3, <2>6
    <3>2. PairRow(x, y) \in pairs
      BY <2>2, <3>1
    <3>. QED  BY <1>3, <2>4, <3>2 DEF x, y
  <2>7. CASE j < i
    <3>1. <<j, i>> \in {p \in N \X N : p[1] < p[2]}
      BY <2>3, <2>7
    <3>2. PairRow(y, x) \in pairs
      BY <2>2, <3>1
    <3>. QED  BY <1>3, <2>4, <3>2 DEF x, y
  <2>. QED  BY <2>5, <2>6, <2>7
<1>. QED  BY <1>4, <1>5

\* Each near pair of garments has its own row.
LEMMA RowsCount ==
  ASSUME NEW items \in Scans
  PROVE  /\ IsFiniteSet(NearPairs(items))
         /\ Cardinality(NearPairs(items)) = Cardinality(NearOf(items))
<1>. DEFINE S == NearOf(items)
            T == NearPairs(items)
            f == [xy \in S |-> PairRow(xy[1], xy[2])]
            n == Len(items)
            g == [i \in 1..n |-> items[i]]
<1>1. items \in Seq(Range(items)) /\ DOMAIN items = 1..n /\ n \in Nat
  BY ScanAssumption
<1>2. IsFiniteSet(S)
  <2>1. g \in Surjection(1..n, ToSet(items))
    BY <1>1 DEF Surjection, ToSet
  <2>2. IsFiniteSet(1..n)
    BY <1>1, FS_Interval
  <2>3. IsFiniteSet(ToSet(items))
    BY <2>1, <2>2, FS_Surjection
  <2>4. IsFiniteSet(ToSet(items) \X ToSet(items))
    BY <2>3, FS_Product
  <2>. QED  BY <2>4, FS_Subset DEF NearOf
<1>3. f \in Surjection(S, T)
  BY RowsAre DEF Surjection
<1>4. ASSUME NEW v \in S, NEW w \in S, f[v] = f[w] PROVE v = w
  <2>1. ASSUME NEW xy \in S
        PROVE  /\ xy[1] \in ToSet(items) /\ xy[2] \in ToSet(items) /\ xy = <<xy[1], xy[2]>>
               /\ f[xy].a = xy[1].id /\ f[xy].b = xy[2].id
    BY NearIs, RowIs
  <2>2. \A x, y \in ToSet(items) : x.id = y.id => x = y
    BY ScanAssumption DEF ToSet
  <2>. HIDE DEF f, S
  <2>3. v[1] = w[1] /\ v[2] = w[2]
    BY <1>4, <2>1, <2>2
  <2>. QED  BY <2>1, <2>3
<1>5. f \in Injection(S, T)
  BY <1>3, <1>4 DEF Surjection, Injection, IsInjective
<1>. HIDE DEF f
<1>. QED  BY <1>2, <1>3, <1>5, FS_Surjection

\* Rows are told apart by where they are printed.
LEMMA CloserOrders ==
  ASSUME NEW items \in Scans
  PROVE  LET near == NearPairs(items)
         IN  StrictOrder(near, {pq \in near \X near : Closer(pq[1], pq[2])})
<1>. DEFINE near == NearPairs(items)
<1>1. ASSUME NEW p \in near
      PROVE  /\ p.a \in Int /\ p.b \in Int /\ p.distance \in Int
             /\ p = [a |-> p.a, b |-> p.b, distance |-> p.distance]
  <2>1. PICK xy \in NearOf(items) : p = PairRow(xy[1], xy[2])
    BY RowsAre
  <2>. QED  BY <2>1, NearIs, RowIs
<1>. DEFINE order == {pq \in near \X near : Closer(pq[1], pq[2])}
<1>2. \A p, r \in near : <<p, r>> \in order <=> Closer(p, r)
  OBVIOUS
<1>. HIDE DEF near, order
<1>3. \A p \in near : ~Closer(p, p)
  BY <1>1 DEF Closer
<1>4. \A p, r \in near : p # r => Closer(p, r) \/ Closer(r, p)
  <2>. TAKE p \in near, r \in near
  <2>1. ASSUME ~Closer(p, r), ~Closer(r, p) PROVE p = r
    <3>1. p.a = r.a /\ p.b = r.b /\ p.distance = r.distance
      BY <1>1, <2>1 DEF Closer
    <3>. QED  BY <1>1, <3>1
  <2>. QED  BY <2>1
<1>5. \A p, r, s \in near : Closer(p, r) /\ Closer(r, s) => Closer(p, s)
  BY <1>1 DEF Closer
<1>6. StrictOrder(near, order)
  BY <1>2, <1>3, <1>4, <1>5 DEF StrictOrder
<1>. QED  BY <1>6 DEF near, order

LEMMA Pairs ==
  ASSUME NEW items \in Scans
  PROVE  LET found == FindDuplicatePairs(items)
             near == NearOf(items)
         IN  /\ {<<p.a, p.b>> : p \in ToSet(found)} = {<<xy[1].id, xy[2].id>> : xy \in near}
             /\ Len(found) = Cardinality(near)
             /\ \A i, j \in DOMAIN found : i < j => found[i].distance <= found[j].distance
<1>. DEFINE S == NearPairs(items)
            order == {pq \in S \X S : Closer(pq[1], pq[2])}
            found == Sorted(S, order)
            c == Cardinality(S)
<1>1. IsFiniteSet(S) /\ StrictOrder(S, order) /\ c = Cardinality(NearOf(items))
  BY RowsCount, CloserOrders
<1>2. /\ c \in Nat /\ found \in [1..c -> S]
      /\ \A x \in S : \E n \in 1..c : found[n] = x
  <2>. HIDE DEF order, S
  <2>. QED  BY <1>1, SortedIs
<1>3. \A i, j \in 1..c : i < j => <<found[i], found[j]>> \in order
  <2>. HIDE DEF order, S
  <2>. QED  BY <1>1, SortedOrder
<1>4. FindDuplicatePairs(items) = found
  BY DEF FindDuplicatePairs
<1>5. ASSUME NEW p \in S
      PROVE  p.distance \in Int /\ \E xy \in NearOf(items) : p.a = xy[1].id /\ p.b = xy[2].id
  <2>1. PICK xy \in NearOf(items) : p = PairRow(xy[1], xy[2])
    BY RowsAre
  <2>. QED  BY <2>1, NearIs, RowIs
<1>6. ASSUME NEW xy \in NearOf(items)
      PROVE  \E p \in S : p.a = xy[1].id /\ p.b = xy[2].id
  <2>1. PairRow(xy[1], xy[2]) \in S
    BY RowsAre
  <2>. QED  BY <2>1, NearIs, RowIs
<1>7. \A p, r \in S : <<p, r>> \in order => p.distance <= r.distance
  BY <1>5 DEF Closer
<1>. HIDE DEF S, order, found
<1>8. DOMAIN found = 1..c /\ Len(found) = c
  BY <1>2
<1>9. ToSet(found) = S
  BY <1>2, <1>8 DEF ToSet
<1>10. {<<p.a, p.b>> : p \in S} = {<<xy[1].id, xy[2].id>> : xy \in NearOf(items)}
  BY <1>5, <1>6
<1>11. \A i, j \in DOMAIN found : i < j => found[i].distance <= found[j].distance
  BY <1>2, <1>3, <1>7, <1>8
<1>. QED  BY <1>1, <1>4, <1>8, <1>9, <1>10, <1>11

-----------------------------------------------------------------------------
(* The questions.                                                           *)

\* What is on the table is one of the questions that can be asked.
QuestionInv ==
  \/ q = NoQuestion
  \/ /\ q.kind = "look"
     /\ q.rows \in Closets /\ q.tempC \in Temperatures
     /\ q.hues \in Palettes /\ q.recent \in RecentWears
  \/ q.kind = "note" /\ q.look \in Looks
  \/ q.kind = "palette" /\ q.tapped \in Tappings /\ q.worn \in ColorFamilies
  \/ q.kind = "pairs" /\ q.items \in Scans
  \/ q.kind = "call" /\ q.vendors \in Calls
  \/ q.kind = "parse" /\ q.parse \in Parses

LEMMA QuestionStep ==
  ASSUME QuestionInv, [Next]_q
  PROVE  QuestionInv'
<1>1. CASE AskLook
  BY <1>1 DEF AskLook, QuestionInv
<1>2. CASE AskNote
  BY <1>2 DEF AskNote, QuestionInv
<1>3. CASE AskPalette
  BY <1>3 DEF AskPalette, QuestionInv
<1>4. CASE AskPairs
  BY <1>4 DEF AskPairs, QuestionInv
<1>5. CASE AskCall
  BY <1>5 DEF AskCall, QuestionInv
<1>6. CASE AskParse
  BY <1>6 DEF AskParse, QuestionInv
<1>7. CASE Answered
  BY <1>7 DEF Answered, QuestionInv
<1>8. CASE UNCHANGED q
  BY <1>8 DEF QuestionInv
<1>. QED  BY <1>1, <1>2, <1>3, <1>4, <1>5, <1>6, <1>7, <1>8 DEF Next, Ask

\* Every question on the table can be asked: the promises below are made of
\* nothing else.
THEOREM QuestionTheorem == Spec => []QuestionInv
<1>1. Init => QuestionInv
  BY DEF Init, QuestionInv
<1>2. QuestionInv /\ [Next]_q => QuestionInv'
  BY QuestionStep
<1>. QED  BY <1>1, <1>2, PTL DEF Spec

LEMMA KindIs ==
  ASSUME QuestionInv
  PROVE  /\ q.kind = "look" => /\ q.rows \in Closets /\ q.tempC \in Temperatures
                               /\ q.hues \in Palettes /\ q.recent \in RecentWears
         /\ q.kind = "note" => q.look \in Looks
         /\ q.kind = "palette" => q.tapped \in Tappings /\ q.worn \in ColorFamilies
         /\ q.kind = "pairs" => q.items \in Scans
         /\ q.kind = "call" => q.vendors \in Calls
         /\ q.kind = "parse" => q.parse \in Parses
<1>1. NoQuestion.kind = "none"
  BY DEF NoQuestion
<1>. QED  BY <1>1 DEF QuestionInv

\* suggestItems: today's look is the warmest that many clean garments can be,
\* for every closet, palette and wear history (suggestion.ts).
THEOREM WeatherTheorem == Spec => []WeatherGuarantee
<1>1. QuestionInv => WeatherGuarantee
  <2>. SUFFICES ASSUME QuestionInv, q.kind = "look" PROVE WeatherGuarantee
    BY DEF WeatherGuarantee
  <2>. DEFINE look == SuggestItems(q.rows, q.tempC, q.hues, q.recent)
  <2>1. /\ q.rows \in Closets /\ q.tempC \in Temperatures
    BY KindIs
  <2>2. /\ (look = << >>) = (CleanOf(q.rows) = {})
        /\ ToSet(look) \subseteq CleanOf(q.rows)
        /\ \A other \in Injections(Len(look), CleanOf(q.rows)) :
             AggregateWarmth(other) <= AggregateWarmth(look)
        /\ \A t \in Temperatures :
             t <= q.tempC => AggregateWarmth(SuggestItems(q.rows, t, q.hues, q.recent))
                               >= AggregateWarmth(look)
    BY <2>1, Weather, Zenon
  <2>3. CleanItems = CleanOf(q.rows)
    BY DEF CleanItems, CleanOf
  <2>. QED  BY <2>2, <2>3, Zenon DEF WeatherGuarantee, LookOf
<1>. QED  BY <1>1, QuestionTheorem, PTL

\* FreshnessInfluencedOrder: when the page says she has not worn it lately,
\* something in the look was not, and it took the place of something as warm
\* that was (suggestionRationale.ts).
THEOREM FreshTheorem == Spec => []FreshClaimIsTrue
<1>1. QuestionInv => FreshClaimIsTrue
  <2>. SUFFICES ASSUME QuestionInv, q.kind = "look",
                       FreshnessInfluencedOrder(q.rows, q.tempC, q.hues, q.recent)
       PROVE FreshClaimIsTrue
    BY DEF FreshClaimIsTrue
  <2>. DEFINE look == SuggestItems(q.rows, q.tempC, q.hues, q.recent)
  <2>1. q.rows \in Closets /\ q.tempC \in Temperatures
    BY KindIs
  <2>2. \E i \in DOMAIN look, worn \in CleanOf(q.rows) :
          /\ look[i].id \notin q.recent
          /\ worn.id \in q.recent /\ worn.warmth = look[i].warmth
          /\ \A j \in 1..i : look[j] # worn
    <3>. DEFINE rows == q.rows
                recent == q.recent
                hues == q.hues
                tempC == q.tempC
    <3>1. rows \in Closets /\ tempC \in Temperatures
      BY <2>1
    <3>2. FreshnessInfluencedOrder(rows, tempC, hues, recent)
      OBVIOUS
    <3>. HIDE DEF rows, tempC, hues, recent
    <3>3. LET seen == SuggestItems(rows, tempC, hues, recent)
          IN  \E i \in DOMAIN seen, worn \in CleanOf(rows) :
                /\ seen[i].id \notin recent
                /\ worn.id \in recent /\ worn.warmth = seen[i].warmth
                /\ \A j \in 1..i : seen[j] # worn
      BY <3>1, <3>2, FreshClaim
    <3>. QED  BY <3>3, Zenon DEF rows, tempC, hues, recent
  <2>3. CleanItems = CleanOf(q.rows)
    BY DEF CleanItems, CleanOf
  <2>. QED  BY <2>2, <2>3, Zenon DEF FreshClaimIsTrue, LookOf
<1>. QED  BY <1>1, QuestionTheorem, PTL

\* outfitVerdict and suggestionNote: a look is judged as its worst pair, a
\* colour whose chroma is unknown is judged no more kindly for it, and the
\* note has something to say exactly when the explanation has
\* (suggestionNote.ts, suggestionRationale.ts).
THEOREM NoteTheorem == Spec => []NoteIsHonest
<1>1. QuestionInv => NoteIsHonest
  <2>. SUFFICES ASSUME QuestionInv, q.kind = "note" PROVE NoteIsHonest
    BY DEF NoteIsHonest
  <2>1. q.look \in Seq(StoredColors)
    BY KindIs, LooksAre
  <2>2. LET harmony == OutfitVerdict(q.look)
            why == SuggestionRationale(harmony, FALSE, FALSE, FALSE)
        IN  /\ harmony # None =>
                 /\ \A i, j \in DOMAIN q.look :
                      LET two == OutfitVerdict(<<q.look[i], q.look[j]>>)
                      IN  (i # j /\ two # None) => RankOf(harmony) <= RankOf(two)
                 /\ RankOf(OutfitVerdict(TokensOf(q.look))) <= RankOf(harmony)
            /\ (SuggestionNote(q.look) = None) = (why = <<"weather">>)
    BY <2>1, Note, Zenon
  <2>. QED  BY <2>2, Zenon DEF NoteIsHonest, TokensOf
<1>. QED  BY <1>1, QuestionTheorem, PTL

\* swatchHex, colorFamily and scorePalette: what the quiz draws is what the
\* closet reads back, at full marks when tapped (colorFamily.ts, palette.ts).
THEOREM SwatchTheorem == Spec => []SwatchesReachTheCloset
<1>1. QuestionInv => SwatchesReachTheCloset
  <2>. SUFFICES ASSUME QuestionInv, q.kind = "palette", q.worn \in Hues PROVE SwatchesReachTheCloset
    BY DEF SwatchesReachTheCloset
  <2>. DEFINE worn == q.worn
              tapped == q.tapped
  <2>1. worn \in Hues
    OBVIOUS
  <2>. HIDE DEF worn, tapped
  <2>2. Reaches(worn, tapped)
    BY <2>1, Swatch, Zenon
  <2>. QED  BY <2>2, Zenon DEF SwatchesReachTheCloset, Reaches, worn, tapped
<1>. QED  BY <1>1, QuestionTheorem, PTL

\* findDuplicatePairs: exactly the near pairs, each once, nearest first
\* (dedupe.ts).
THEOREM PairsTheorem == Spec => []PairsAreExact
<1>1. QuestionInv => PairsAreExact
  <2>. SUFFICES ASSUME QuestionInv, q.kind = "pairs" PROVE PairsAreExact
    BY Zenon DEF PairsAreExact
  <2>1. q.items \in Scans
    BY KindIs
  <2>2. LET found == FindDuplicatePairs(q.items)
            near == NearOf(q.items)
        IN  /\ {<<p.a, p.b>> : p \in ToSet(found)} = {<<xy[1].id, xy[2].id>> : xy \in near}
            /\ Len(found) = Cardinality(near)
            /\ \A i, j \in DOMAIN found : i < j => found[i].distance <= found[j].distance
    BY <2>1, Pairs, Zenon
  <2>. QED  BY <2>2, Zenon DEF PairsAreExact, NearOf, Apart, Unsigned, Bits
<1>. QED  BY <1>1, QuestionTheorem, PTL

\* requestWithRetry and the four calls of a parse end in time, whatever the
\* vendors do (http.ts).
THEOREM BudgetTheorem == Spec => []SettlesInBudget
<1>1. QuestionInv => SettlesInBudget
  <2>. SUFFICES ASSUME QuestionInv PROVE SettlesInBudget
    OBVIOUS
  <2>1. ASSUME q.kind = "call"
        PROVE  LET call == RequestWithRetry(q.vendors)
               IN  /\ call.calls <= MaxRetries + 1
                   /\ call.ticks <= TimeoutTicks * (MaxRetries + 1)
    <3>1. Met(q.vendors)
      BY <2>1, KindIs, VendorAssumption
    <3>. QED  BY <3>1, CallIs, Zenon
  <2>2. ASSUME q.kind = "parse"
        PROVE  LET done == ParseCalls(q.parse.owner, q.parse.caller, "job", q.parse.vendors)
               IN  done.fetching < UrlTtlTicks /\ done.total < LeaseTicks
    <3>1. q.parse \in Parses
      BY <2>2, KindIs
    <3>. QED  BY <3>1, ParseIs, Zenon
  <2>. QED  BY <2>1, <2>2, Zenon DEF SettlesInBudget
<1>. QED  BY <1>1, QuestionTheorem, PTL

\* removeBackground and extractAttributes: what lands in storage was vouched
\* for, and a parse that succeeds put it there (parse-photo.ts).
THEOREM VouchedTheorem == Spec => []OnlyVouchedCutouts
<1>1. OnlyVouchedCutouts
  BY Vouched, Zenon DEF OnlyVouchedCutouts
<1>. QED  BY <1>1, PTL
=============================================================================
