-------------------------------- MODULE Lists --------------------------------
(***************************************************************************)
(* Sorting and summing, as the rules of packages/shared and the transport  *)
(* of packages/functions use them.                                         *)
(***************************************************************************)
EXTENDS Integers, Sequences, FiniteSets

\* Sorted by a strict total order, a set of pairs: the n-th has n - 1 before it.
Sorted(S, order) ==
  [n \in 1..Cardinality(S) |->
     CHOOSE x \in S : Cardinality({y \in S : <<y, x>> \in order}) = n - 1]

\* The sum of the first n values of w.
Total(w, n) ==
  LET sum[i \in 0..n] == IF i = 0 THEN 0 ELSE sum[i - 1] + w[i]
  IN  sum[n]
=============================================================================
