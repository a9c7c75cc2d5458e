----------------------------- MODULE Duplicates -----------------------------
(***************************************************************************)
(* The on-device duplicate scan, packages/shared/src/dedupe.ts.  A stored  *)
(* phash is absent, malformed, or a decimal integer: the database prints a *)
(* signed 64-bit value, so the upper half of the hashes reads as negative. *)
(* The width is a parameter; the words are compared bit by bit.            *)
(***************************************************************************)
EXTENDS Lists

CONSTANTS PhashBits,      \* PHASH_BITS, 64 in the code
          HammingThreshold \* DEDUPE_HAMMING_THRESHOLD, 10 in the code

ASSUME PhashWidth ==
  /\ PhashBits \in Nat \ {0} /\ HammingThreshold \in Nat
  /\ \A i \in 0..PhashBits : 2^i \in Nat \ {0}

\* parsePhash: the canonical unsigned value, whatever the sign printed.
Decimal(n) == [kind |-> "decimal", n |-> n]
HasSignal(phash) == phash.kind = "decimal"
Bug_ParsePhashSigned(phash) == IF phash.n < 0 THEN 0 ELSE phash.n

ParsePhash(phash) == phash.n % 2^PhashBits

BitOf(v, i) == (v \div 2^i) % 2
HammingDistance(v, w) ==
  Cardinality({i \in 0..(PhashBits - 1) : BitOf(v, i) # BitOf(w, i)})

\* One row per pair, lower id first, the most confident first.
Closer(p, q) ==
  \/ p.distance < q.distance
  \/ p.distance = q.distance /\ p.a < q.a
  \/ p.distance = q.distance /\ p.a = q.a /\ p.b < q.b

\* findDuplicatePairs over a sequence of [id, phash].
PairRow(x, y) ==
  [a |-> IF x.id < y.id THEN x.id ELSE y.id,
   b |-> IF x.id < y.id THEN y.id ELSE x.id,
   distance |-> HammingDistance(ParsePhash(x.phash), ParsePhash(y.phash))]
NearPairs(items) ==
  LET parsed == {i \in DOMAIN items : HasSignal(items[i].phash)}
      pairs == {PairRow(items[ij[1]], items[ij[2]]) :
                  ij \in {p \in parsed \X parsed : p[1] < p[2]}}
  IN  {p \in pairs : p.distance <= HammingThreshold}
FindDuplicatePairs(items) ==
  LET near == NearPairs(items)
  IN  Sorted(near, {pq \in near \X near : Closer(pq[1], pq[2])})
=============================================================================
