------------------------------- MODULE MCRules -------------------------------
(***************************************************************************)
(* The inputs of the runs Rules and WhyThis.                               *)
(***************************************************************************)
EXTENDS Rules

Hex(r, g, b) == [kind |-> "hex", r |-> r, g |-> g, b |-> b]
Token(f) == [kind |-> "token", family |-> f]
NoColor == [kind |-> "other"]

\* Three garments, each one of these; a poncho is no category of the schema.
Garments ==
  { <<"outerwear", "clean", Token("blue")>>, <<"top", "clean", Token("red")>>,
    <<"bottom", "clean", Hex(230, 120, 20)>>, <<"poncho", "clean", NoColor>>,
    <<"top", "dirty", Token("red")>>, <<"dress", "clean", Token("navy")>> }
MCClosets ==
  {{[id |-> i, category |-> g[i][1], availability |-> g[i][2], color |-> g[i][3]] : i \in 1..3} :
     g \in [1..3 -> Garments]}
MCTemperatures == {26, 18, 5}
MCPalettes == {{}, {"red"}, {"orange", "azure"}, {"mauve"}}
MCRecentWears == SUBSET (1..2)

\* A vivid and a dusty rose, a dark and a light blue, a near-black, a hue a
\* quarter turn from another, a neutral, a colour name nobody modelled.
Colours ==
  { Hex(220, 20, 60), Hex(190, 150, 156), Hex(20, 40, 150), Hex(120, 140, 230),
    Hex(18, 20, 24), Token("chartreuse"), Token("beige"), NoColor }
MCLooks == UNION {[1..n -> Colours] : n \in 1..3}
MCTappings == {{f, g, "mauve"} : f, g \in {"red", "teal", "violet", "pink", "navy"}} \cup {{}}

Hashes == {[kind |-> "null"], [kind |-> "malformed"]} \cup {Decimal(n) : n \in {-8, -1, 0, 3, 8, 15}}
MCScans ==
  {[i \in 1..3 |-> [id |-> order[i], phash |-> p[order[i]]]] :
     p \in [1..3 -> Hashes], order \in {<<1, 2, 3>>, <<3, 1, 2>>}}

\* A timeout of 0 ms and a number of retries that is no number: both defaults.
MCRawTimeout == [readable |-> TRUE, value |-> 0]
MCRawRetries == [readable |-> FALSE, value |-> 0]

\* An attempt answers in time, refuses, is out until the timeout, hangs, or
\* sends headers and stalls.  One tick is the base delay of the backoff.
Attempt(status, head, body, says) ==
  [status |-> status, head |-> head, body |-> body, says |-> says]
Never == 100 * TimeoutTicks
Attempts ==
  { Attempt(200, 1, 1, "good"), Attempt(429, 1, 0, "garbage"), Attempt(400, 1, 0, "garbage"),
    Attempt(503, TimeoutTicks, 0, "garbage"), Attempt(0, 2, 0, "garbage"),
    Attempt(200, Never, 0, "good"), Attempt(200, 1, Never, "good"),
    Attempt(200, 1, TimeoutTicks - 1, "good"), Attempt(200, 1, 1, "partial") }
MCCalls == [1..(MaxRetries + 1) -> Attempts]

Same(attempt) == [i \in 1..(MaxRetries + 1) |-> attempt]
Slowest == [i \in 1..(MaxRetries + 1) |->
              IF i <= MaxRetries THEN Attempt(503, TimeoutTicks, 0, "garbage")
              ELSE Attempt(200, 1, TimeoutTicks - 1, "good")]
Vendors ==
  {Slowest, Same(Attempt(200, 1, Never, "good"))}
    \cup {Same(Attempt(200, 1, 1, says)) : says \in {"good", "upper", "partial", "garbage"}}
MCParses ==
  [owner : {"ann", "bea"}, caller : {"ann"},
   vendors : [sign : Vendors, vision : Vendors, segment : Vendors, upload : Vendors]]
=============================================================================
