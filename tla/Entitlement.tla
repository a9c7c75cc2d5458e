----------------------------- MODULE Entitlement -----------------------------
(***************************************************************************)
(* The RevenueCat webhook (functions/src/billing/revenuecat-webhook.ts)    *)
(* over apply_webhook_event (migration 0016): webhook_events is the ledger *)
(* of consumed event ids, subscriptions holds one row per user.  A         *)
(* delivery is a process and a transaction; deliveries of one event, and   *)
(* of several events of one user, run concurrently, fail, lose their       *)
(* answer and are repeated.  RevenueCat itself is external: it repeats an  *)
(* event until it is answered 200, and may repeat it after that.           *)
(***************************************************************************)
EXTENDS Naturals, FiniteSets

CONSTANTS
    Users,       \* app_user_id values
    Events,      \* event ids
    MaxStamp,    \* event_timestamp_ms ranges over 1 .. MaxStamp
    Deliveries,  \* webhook requests that may run at a time
    NoRow        \* the user has no subscriptions row

ASSUME ConstantsAssumption ==
    /\ MaxStamp \in Nat \ {0}
    /\ NoRow \notin [stamp : Nat, active : BOOLEAN]

VARIABLES
    event,     \* event[e]: [user, stamp, type], what RevenueCat sends under id e
    ledger,    \* committed rows of webhook_events
    row,       \* row[u]: committed row of subscriptions, or NoRow
    pc,        \* pc[d]: the next step of delivery d
    ev,        \* ev[d]: the event it carries
    outcome,   \* outcome[d]: what apply_webhook_event returned to it
    acked,     \* events RevenueCat has seen a 200 for
    decided,   \* history: how often an event took part in a committed decision
    since      \* history: events of the user consumed since the last deletion

vars == <<event, ledger, row, pc, ev, outcome, acked, decided, since>>

\* ENTITLEMENT_BY_EVENT_TYPE, and the two ways an event falls outside it.
Types == {"grant", "revoke", "unmapped", "malformed"}
Mapped == {e \in Events : event[e].type \in {"grant", "revoke"}}

Rows == [stamp : 1 .. MaxStamp, active : BOOLEAN]

RowOf(e) == [stamp |-> event[e].stamp, active |-> event[e].type = "grant"]

Init ==
    /\ event \in [Events -> [user : Users, stamp : 1 .. MaxStamp, type : Types]]
    /\ ledger = {}
    /\ row = [u \in Users |-> NoRow]
    /\ pc = [d \in Deliveries |-> "idle"]
    /\ ev \in {[d \in Deliveries |-> e] : e \in Events}
    /\ outcome = [d \in Deliveries |-> "none"]
    /\ acked = {}
    /\ decided = [e \in Events |-> 0]
    /\ since = [u \in Users |-> {}]

database == <<ledger, row, decided, since>>

Goto(d, from, to) == pc[d] = from /\ pc' = [pc EXCEPT ![d] = to]

\* RevenueCat posts event e, for the first time or again.
Deliver(d, e) ==
    /\ Goto(d, "idle", "handle")
    /\ ev' = [ev EXCEPT ![d] = e]
    /\ UNCHANGED <<event, database, outcome, acked>>

\* Steps 1 to 3 of the handler: nothing is written for an event that is
\* malformed (400) or of a type the map does not know (200).
Handle(d) ==
    /\ Goto(d, "handle", CASE event[ev[d]].type = "malformed" -> "idle"
                           [] event[ev[d]].type = "unmapped" -> "answer"
                           [] OTHER -> "claim")
    /\ outcome' = [outcome EXCEPT ![d] = "ignored"]
    /\ UNCHANGED <<event, database, ev, acked>>

\* The uncommitted row of webhook_events makes later inserts of the id wait.
HoldsId(e) == {d \in Deliveries : pc[d] \in {"write", "commit"} /\ ev[d] = e}

\* So does the lock on the subscriptions row, taken even when the WHERE of
\* DO UPDATE keeps the old values.
HoldsRow(u) == {d \in Deliveries : pc[d] = "commit" /\ event[ev[d]].user = u}

\* The Bug_... definitions are planted by the mutation runs in place of the
\* definition that follows them; no specification uses them.
Bug_ClaimNoWait(d) ==
    /\ \/ ev[d] \in ledger /\ Goto(d, "claim", "answer")
                           /\ outcome' = [outcome EXCEPT ![d] = "duplicate"]
       \/ ev[d] \notin ledger /\ Goto(d, "claim", "write") /\ UNCHANGED outcome
    /\ UNCHANGED <<event, database, ev, acked>>

\* (1) INSERT INTO webhook_events ... ON CONFLICT DO NOTHING.
ClaimId(d) ==
    /\ HoldsId(ev[d]) = {}
    /\ \/ ev[d] \in ledger /\ Goto(d, "claim", "answer")
                           /\ outcome' = [outcome EXCEPT ![d] = "duplicate"]
       \/ ev[d] \notin ledger /\ Goto(d, "claim", "write") /\ UNCHANGED outcome
    /\ UNCHANGED <<event, database, ev, acked>>

Bug_WriteNoWait(d) ==
    LET e == ev[d]
        old == row[event[e].user] IN
    /\ Goto(d, "write", "commit")
    /\ outcome' = [outcome EXCEPT ![d] =
                     IF old = NoRow \/ event[e].stamp >= old.stamp THEN "applied" ELSE "stale"]
    /\ UNCHANGED <<event, database, ev, acked>>

Bug_WriteAlwaysApplies(d) ==
    /\ HoldsRow(event[ev[d]].user) = {}
    /\ Goto(d, "write", "commit")
    /\ outcome' = [outcome EXCEPT ![d] = "applied"]
    /\ UNCHANGED <<event, database, ev, acked>>

\* (2) The upsert of subscriptions with its monotonic guard on event_ts.
WriteRow(d) ==
    LET e == ev[d]
        old == row[event[e].user] IN
    /\ HoldsRow(event[e].user) = {}
    /\ Goto(d, "write", "commit")
    /\ outcome' = [outcome EXCEPT ![d] =
                     IF old = NoRow \/ event[e].stamp >= old.stamp THEN "applied" ELSE "stale"]
    /\ UNCHANGED <<event, database, ev, acked>>

\* Ledger row and entitlement become visible together.
Commit(d) ==
    LET e == ev[d]
        u == event[e].user IN
    /\ Goto(d, "commit", "answer")
    /\ ledger' = ledger \cup {e}
    /\ row' = IF outcome[d] = "applied" THEN [row EXCEPT ![u] = RowOf(e)] ELSE row
    /\ decided' = [decided EXCEPT ![e] = @ + 1]
    /\ since' = [since EXCEPT ![u] = @ \cup {e}]
    /\ UNCHANGED <<event, ev, outcome, acked>>

\* The 200 arrives.
Ack(d) ==
    /\ Goto(d, "answer", "idle")
    /\ acked' = acked \cup {ev[d]}
    /\ UNCHANGED <<event, database, ev, outcome>>

\* The query fails, the isolate dies, or the answer is lost.
Fail(d) ==
    /\ pc[d] # "idle"
    /\ pc' = [pc EXCEPT ![d] = "idle"]
    /\ UNCHANGED <<event, database, ev, outcome, acked>>

\* delete_my_account removes the subscription and leaves the ledger alone; it
\* waits for a delivery that has locked an existing row.
DeleteAccount(u) ==
    /\ row[u] # NoRow => HoldsRow(u) = {}
    /\ row' = [row EXCEPT ![u] = NoRow]
    /\ since' = [since EXCEPT ![u] = {}]
    /\ UNCHANGED <<event, ledger, pc, ev, outcome, acked, decided>>

Work(d) == Handle(d) \/ ClaimId(d) \/ WriteRow(d) \/ Commit(d) \/ Ack(d)

Next ==
    \/ \E d \in Deliveries : (\E e \in Events : Deliver(d, e)) \/ Work(d) \/ Fail(d)
    \/ \E u \in Users : DeleteAccount(u)

Spec == Init /\ [][Next]_vars

-----------------------------------------------------------------------------
\* Every variable keeps its type.
TypeOK ==
    /\ event \in [Events -> [user : Users, stamp : 1 .. MaxStamp, type : Types]]
    /\ ledger \subseteq Events
    /\ row \in [Users -> Rows \cup {NoRow}]
    /\ pc \in [Deliveries -> {"idle", "handle", "claim", "write", "commit", "answer"}]
    /\ ev \in [Deliveries -> Events]
    /\ outcome \in [Deliveries -> {"none", "ignored", "duplicate", "applied", "stale"}]
    /\ acked \subseteq Events
    /\ decided \in [Events -> Nat]
    /\ since \in [Users -> SUBSET Events]

\* Whatever order the events arrive in, the subscription is the newest of those
\* consumed since the account was last deleted: a late expiry cannot revoke a
\* newer renewal, and no row outlives its account without a new event.  Of two
\* events with one time stamp either may stand.
NewestStands ==
    \A u \in Users :
        /\ row[u] = NoRow <=> since[u] = {}
        /\ row[u] # NoRow =>
             /\ \E e \in since[u] : row[u] = RowOf(e)
             /\ \A e \in since[u] : event[e].stamp <= row[u].stamp

\* Concurrent and repeated deliveries of one id decide once, and there is no
\* poison pill: RevenueCat is never told 200 for an entitlement event whose
\* decision did not commit, so its retries go on until one does.
ConsumedOnce ==
    /\ \A e \in Events : decided[e] <= 1
    /\ \A e \in acked \cap Mapped : decided[e] > 0

\* The webhook implements EntitlementOnce.
Once == INSTANCE EntitlementOnce WITH consumed <- ledger

\* Claim, write and commit of a delivery are one atomic consumption.
ImplementsEntitlementOnce == Once!Spec
=============================================================================
