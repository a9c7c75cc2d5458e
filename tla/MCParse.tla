------------------------------- MODULE MCParse -------------------------------
(* Instances of ParseJobs for TLC. *)
EXTENDS ParseJobs, TLC

CONSTANTS u1, p1, p2, r1, r2, r3

OneUser == {u1}
OnePhoto == {p1}
TwoPhotos == {p1, p2}
TwoRequests == {r1, r2}
ThreeRequests == {r1, r2, r3}

\* Photos and requests are interchangeable: no safety property singles one out.
Interchangeable == Permutations(Photos) \cup Permutations(Requests)
=============================================================================
