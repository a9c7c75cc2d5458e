------------------------------ MODULE MCIntake ------------------------------
(* Instances of PhotoIntake for TLC. *)
EXTENDS PhotoIntake, TLC

CONSTANTS p1, p2, c1, c2

TwoPhotos == {p1, p2}
OneScanned == {p1}
TwoRuns == {c1, c2}

Interchangeable == Permutations(Runs) \cup Permutations(Photos \ Scanned)
=============================================================================
