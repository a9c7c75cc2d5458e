----------------------------- MODULE MCRateLimit -----------------------------
(* An instance of RateLimit for TLC. *)
EXTENDS RateLimit

CONSTANTS c1, c2, c3

ThreeCallers == {c1, c2, c3}

\* The instance chooses the longest span the bound is claimed for.
ASSUME SpanHoldsTwoWindows
=============================================================================
