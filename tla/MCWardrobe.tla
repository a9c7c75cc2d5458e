----------------------------- MODULE MCWardrobe -----------------------------
(* Instances of WardrobeStore for TLC. *)
EXTENDS WardrobeStore, TLC

CONSTANTS g1, g2, o1, t1, r1, r2, r3

TwoGarments == {g1, g2}
OneOutfit == {o1}
OneTap == {t1}
TwoRequests == {r1, r2}
ThreeRequests == {r1, r2, r3}

\* Devices that agree which garment of a pair to keep.
Agreed == {<<g1, g2>>}
\* Two devices, or a retry after a timeout, that keep the opposite one.
Opposite == {<<g1, g2>>, <<g2, g1>>}

Interchangeable == Permutations(Requests) \cup Permutations(Taps)
=============================================================================
