------------------------------ MODULE PhoneCache ------------------------------
(***************************************************************************)
(* The query cache of the phone: what hooks.ts and App.tsx ask of          *)
(* react-query 5 (an outside library, modelled from how the hooks use it). *)
(* An entry holds rows, of whom, whether they are stale (thirty seconds    *)
(* old or invalidated), whether the last fetch failed, and the fetch in    *)
(* flight: sent with a token, then read by the server.                     *)
(***************************************************************************)
EXTENDS PhoneServer

Empty == [has |-> FALSE, rows |-> {}, of |-> None, stale |-> FALSE, error |-> FALSE,
          fetch |-> "idle", token |-> None, got |-> {}]

\* A fetch shows its last error until it succeeds, unless there is no data.
Fetch(e, token) ==
  [e EXCEPT !.fetch = "sent", !.token = token, !.got = {}, !.error = e.error /\ e.has]

\* A screen that comes up fetches what is missing or stale, once.
OnMount(e, token) ==
  IF e.fetch = "idle" /\ (~e.has \/ e.stale) THEN Fetch(e, token) ELSE e

\* invalidateQueries marks every match; what a mounted screen observes is
\* fetched again.  A first fetch in flight is not replaced, and the fetch of
\* an entry nobody observes goes on.
Replaceable(e, observed) == observed /\ (e.fetch = "idle" \/ e.has)
OnInvalidate(e, observed, token) ==
  LET marked == [e EXCEPT !.stale = TRUE]
  IN  IF e = Empty THEN e
      ELSE IF Replaceable(e, observed) THEN Fetch(marked, token) ELSE marked

\* Rows that arrive are fresh, whatever was invalidated meanwhile.
OnRows(e) ==
  [has |-> TRUE, rows |-> e.got, of |-> e.token, stale |-> FALSE, error |-> FALSE,
   fetch |-> "idle", token |-> None, got |-> {}]
OnError(e) == [e EXCEPT !.fetch = "idle", !.token = None, !.got = {}, !.error = TRUE]

Wardrobe == {"closet", "hamper"}   \* both match ['wardrobe']

\* A wear that refreshes the closet and forgets the recent wears.
Bug_InvalidatedForgetsWears(op) ==
  CASE op \in {"status", "merge", "wear", "parse"} -> Wardrobe
    [] op \in {"create", "drop", "name"} -> {"looks"}
    [] op = "quiz" -> {"palette"}
    [] OTHER -> {}

\* The keys each mutation invalidates when it succeeds.
Invalidated(op) ==
  CASE op \in {"status", "merge", "parse"} -> Wardrobe
    [] op = "wear" -> Wardrobe \cup {"wears"}
    [] op \in {"create", "drop", "name"} -> {"looks"}
    [] op = "quiz" -> {"palette"}
    [] OTHER -> {}
=============================================================================
