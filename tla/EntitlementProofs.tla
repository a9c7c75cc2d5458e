-------------------------- MODULE EntitlementProofs --------------------------
(***************************************************************************)
(* The webhook's promises for any number of users, events, time stamps and *)
(* concurrent deliveries.                                                  *)
(***************************************************************************)
EXTENDS Entitlement, TLAPS

LEMMA TypeInductive == TypeOK /\ [Next]_vars => TypeOK'
<1> SUFFICES ASSUME TypeOK, [Next]_vars PROVE TypeOK'
    OBVIOUS
<1> USE DEF TypeOK, Goto, database
<1>1. ASSUME NEW d \in Deliveries, NEW e \in Events, Deliver(d, e) PROVE TypeOK'
    BY <1>1 DEF Deliver
<1>2. ASSUME NEW d \in Deliveries, Handle(d) PROVE TypeOK'
    BY <1>2 DEF Handle
<1>3. ASSUME NEW d \in Deliveries, ClaimId(d) PROVE TypeOK'
    BY <1>3 DEF ClaimId
<1>4. ASSUME NEW d \in Deliveries, WriteRow(d) PROVE TypeOK'
    BY <1>4 DEF WriteRow
<1>5. ASSUME NEW d \in Deliveries, Commit(d) PROVE TypeOK'
    <2>1. ev[d] \in Events /\ event[ev[d]].user \in Users
        OBVIOUS
    <2>2. RowOf(ev[d]) \in Rows
        BY <2>1 DEF RowOf, Rows
    <2>3. row' \in [Users -> Rows \cup {NoRow}]
        BY <1>5, <2>1, <2>2 DEF Commit
    <2>4. ledger' \subseteq Events /\ decided' \in [Events -> Nat]
        BY <1>5, <2>1 DEF Commit
    <2>5. since' \in [Users -> SUBSET Events]
        BY <1>5, <2>1 DEF Commit
    <2>6. QED
        BY <1>5, <2>3, <2>4, <2>5 DEF Commit
<1>6. ASSUME NEW d \in Deliveries, Ack(d) \/ Fail(d) PROVE TypeOK'
    BY <1>6 DEF Ack, Fail
<1>7. ASSUME NEW u \in Users, DeleteAccount(u) PROVE TypeOK'
    BY <1>7 DEF DeleteAccount
<1>8. CASE UNCHANGED vars
    BY <1>8 DEF vars
<1>9. QED
    BY <1>1, <1>2, <1>3, <1>4, <1>5, <1>6, <1>7, <1>8 DEF Next, Work

\* Every reachable state is well typed.
THEOREM TypeCorrect == Spec => []TypeOK
<1>1. Init => TypeOK
    BY DEF Init, TypeOK
<1>2. QED
    BY <1>1, TypeInductive, PTL DEF Spec

-----------------------------------------------------------------------------
(* The ledger.                                                             *)

\* A delivery inside its transaction is alone with its event, which is not yet
\* in the ledger; whoever answers 200 to a known event found or put it there.
LedgerInv ==
    /\ \A e \in Events : decided[e] = IF e \in ledger THEN 1 ELSE 0
    /\ \A d \in Deliveries : pc[d] \in {"write", "commit"} => ev[d] \notin ledger
    /\ \A d1, d2 \in Deliveries :
         pc[d1] \in {"write", "commit"} /\ pc[d2] \in {"write", "commit"}
             /\ ev[d1] = ev[d2] => d1 = d2
    /\ \A d \in Deliveries :
         pc[d] = "answer" /\ ev[d] \in Mapped => ev[d] \in ledger
    /\ acked \cap Mapped \subseteq ledger

LEMMA LedgerInductive ==
    ASSUME TypeOK, LedgerInv, [Next]_vars
    PROVE  LedgerInv'
<1> USE DEF Goto, database
<1>0. Mapped' = Mapped
    BY DEF Next, Deliver, Work, Handle, ClaimId, WriteRow, Commit, Ack, Fail,
       DeleteAccount, vars, Mapped
<1>1. ASSUME NEW d \in Deliveries, NEW e \in Events, Deliver(d, e) PROVE LedgerInv'
    BY <1>0, <1>1 DEF Deliver, LedgerInv, TypeOK
<1>2. ASSUME NEW d \in Deliveries, Handle(d) PROVE LedgerInv'
    <2>1. pc' = [pc EXCEPT ![d] = pc'[d]] /\ pc'[d] \in {"idle", "answer", "claim"}
        BY <1>2 DEF Handle, TypeOK
    <2>2. pc'[d] = "answer" => ev[d] \notin Mapped
        BY <1>2 DEF Handle, TypeOK, Mapped
    <2>3. UNCHANGED <<ledger, decided, ev, acked>>
        BY <1>2 DEF Handle
    <2>4. QED
        BY <1>0, <2>1, <2>2, <2>3 DEF LedgerInv, TypeOK
<1>3. ASSUME NEW d \in Deliveries, ClaimId(d) PROVE LedgerInv'
    <2>1. /\ UNCHANGED <<ledger, decided, ev, acked>>
          /\ \A q \in Deliveries \ {d} : pc'[q] = pc[q]
          /\ \/ ev[d] \in ledger /\ pc'[d] = "answer"
             \/ ev[d] \notin ledger /\ pc'[d] = "write"
        BY <1>3 DEF ClaimId, TypeOK
    <2>2. \A q \in Deliveries : pc[q] \in {"write", "commit"} => ev[q] # ev[d]
        BY <1>3 DEF ClaimId, HoldsId
    <2>3. QED
        BY <1>0, <2>1, <2>2 DEF LedgerInv
<1>4. ASSUME NEW d \in Deliveries, WriteRow(d) PROVE LedgerInv'
    BY <1>0, <1>4 DEF WriteRow, LedgerInv, TypeOK
<1>5. ASSUME NEW d \in Deliveries, Commit(d) PROVE LedgerInv'
    <2>1. /\ pc[d] = "commit" /\ pc'[d] = "answer"
          /\ \A q \in Deliveries \ {d} : pc'[q] = pc[q]
          /\ ledger' = ledger \cup {ev[d]}
          /\ decided' = [decided EXCEPT ![ev[d]] = @ + 1]
          /\ UNCHANGED <<ev, acked>>
          /\ ev[d] \in Events
        BY <1>5 DEF Commit, TypeOK
    <2>2. ev[d] \notin ledger
        BY <2>1 DEF LedgerInv
    <2>3. \A e \in Events : decided'[e] = IF e \in ledger' THEN 1 ELSE 0
        BY <2>1, <2>2 DEF LedgerInv, TypeOK
    <2>4. \A q \in Deliveries : pc'[q] \in {"write", "commit"} => ev'[q] \notin ledger'
        BY <2>1 DEF LedgerInv
    <2>5. QED
        BY <1>0, <2>1, <2>3, <2>4 DEF LedgerInv
<1>6. ASSUME NEW d \in Deliveries, Ack(d) PROVE LedgerInv'
    BY <1>0, <1>6 DEF Ack, LedgerInv, TypeOK
<1>7. ASSUME NEW d \in Deliveries, Fail(d) PROVE LedgerInv'
    BY <1>0, <1>7 DEF Fail, LedgerInv, TypeOK
<1>8. ASSUME NEW u \in Users, DeleteAccount(u) PROVE LedgerInv'
    BY <1>0, <1>8 DEF DeleteAccount, LedgerInv
<1>9. CASE UNCHANGED vars
    BY <1>0, <1>9 DEF vars, LedgerInv
<1>10. QED
    BY <1>1, <1>2, <1>3, <1>4, <1>5, <1>6, <1>7, <1>8, <1>9 DEF Next, Work

\* However often and however concurrently an event is delivered, it decides at most once.
THEOREM LedgerTheorem == Spec => []ConsumedOnce
<1>1. Init => LedgerInv
    BY DEF Init, LedgerInv
<1>2. TypeOK /\ LedgerInv /\ [Next]_vars => LedgerInv'
    BY LedgerInductive
<1>3. LedgerInv => ConsumedOnce
    BY DEF LedgerInv, ConsumedOnce, Mapped
<1>4. QED
    BY <1>1, <1>2, <1>3, TypeCorrect, PTL DEF Spec

-----------------------------------------------------------------------------
(* The subscription row.                                                   *)

Newer(d) ==
    \/ row[event[ev[d]].user] = NoRow
    \/ event[ev[d]].stamp >= row[event[ev[d]].user].stamp

\* A delivery about to commit has locked the row of its user, so its verdict
\* on the row still fits what is committed.
RowInv ==
    /\ \A d1, d2 \in Deliveries :
         pc[d1] = "commit" /\ pc[d2] = "commit"
             /\ event[ev[d1]].user = event[ev[d2]].user => d1 = d2
    /\ \A d \in Deliveries :
         pc[d] = "commit" =>
             /\ ev[d] \in Mapped
             /\ outcome[d] = IF Newer(d) THEN "applied" ELSE "stale"
    /\ \A d \in Deliveries : pc[d] \in {"claim", "write"} => ev[d] \in Mapped

LEMMA NewestKept ==
    ASSUME NewestStands, UNCHANGED <<event, row, since>>
    PROVE  NewestStands'
BY DEF NewestStands, RowOf

\* A step that moves one delivery and leaves every row as it is.
LEMMA RowInvKept ==
    ASSUME TypeOK, RowInv, NewestStands, NEW d \in Deliveries,
           UNCHANGED <<event, row, since>>,
           \A q \in Deliveries \ {d} :
               pc'[q] = pc[q] /\ ev'[q] = ev[q] /\ outcome'[q] = outcome[q],
           pc'[d] # "commit",
           pc'[d] \in {"claim", "write"} => ev'[d] \in Mapped
    PROVE  RowInv' /\ NewestStands'
<1>1. Mapped' = Mapped
    BY DEF Mapped
<1>2. \A q \in Deliveries \ {d} : Newer(q)' <=> Newer(q)
    BY DEF Newer
<1>3. RowInv'
    BY <1>1, <1>2 DEF RowInv
<1>4. NewestStands'
    BY NewestKept
<1>5. QED
    BY <1>3, <1>4

LEMMA CommitKeepsNewest ==
    ASSUME TypeOK, RowInv, NewestStands, NEW d \in Deliveries, Commit(d),
           NEW e \in Events, ev[d] = e, NEW u \in Users, event[e].user = u
    PROVE  NewestStands' /\ \A v \in Users \ {u} : row'[v] = row[v]
<1>1. /\ pc[d] = "commit"
      /\ row' = IF outcome[d] = "applied" THEN [row EXCEPT ![u] = RowOf(e)] ELSE row
      /\ since' = [since EXCEPT ![u] = @ \cup {e}]
      /\ event' = event
    BY DEF Commit, Goto
<1>2. outcome[d] = IF Newer(d) THEN "applied" ELSE "stale"
    BY <1>1 DEF RowInv
<1>3. \A v \in Users \ {u} : row'[v] = row[v] /\ since'[v] = since[v]
    BY <1>1 DEF TypeOK
<1>4. since'[u] = since[u] \cup {e}
    BY <1>1 DEF TypeOK
<1>5. RowOf(e) # NoRow /\ RowOf(e).stamp = event[e].stamp /\ event[e].stamp \in Nat
    <2>1. event[e].stamp \in Nat /\ (event[e].type = "grant") \in BOOLEAN
        BY DEF TypeOK
    <2>2. RowOf(e) \in [stamp : Nat, active : BOOLEAN] /\ RowOf(e).stamp = event[e].stamp
        BY <2>1 DEF RowOf
    <2>3. QED
        BY <2>1, <2>2, ConstantsAssumption
<1>6. CASE Newer(d)
    <2>1. row'[u] = RowOf(e)
        BY <1>1, <1>2, <1>6 DEF TypeOK
    <2>2. \A x \in since[u] : event[x].stamp <= event[e].stamp
        <3>1. CASE row[u] = NoRow
            BY <3>1 DEF NewestStands
        <3>2. CASE row[u] # NoRow
            <4>1. row[u].stamp \in Nat /\ row[u].stamp <= event[e].stamp
                BY <1>6, <3>2 DEF Newer, TypeOK, Rows
            <4>2. \A x \in since[u] : event[x].stamp <= row[u].stamp /\ event[x].stamp \in Nat
                BY <3>2 DEF NewestStands, TypeOK
            <4>3. QED
                BY <1>5, <4>1, <4>2
        <3>3. QED
            BY <3>1, <3>2
    <2>3. /\ row'[u] # NoRow /\ since'[u] # {}
          /\ \E x \in since'[u] : row'[u] = RowOf(x)
          /\ \A x \in since'[u] : event[x].stamp <= row'[u].stamp
        BY <1>4, <1>5, <2>1, <2>2
    <2>4. QED
        BY <1>1, <1>3, <2>3 DEF NewestStands, RowOf
<1>7. CASE ~Newer(d)
    <2>1. row' = row /\ row[u] # NoRow /\ ~(event[e].stamp >= row[u].stamp)
        BY <1>1, <1>2, <1>7 DEF Newer
    <2>2. row[u].stamp \in Nat
        BY <2>1 DEF TypeOK, Rows
    <2>3. /\ since'[u] # {}
          /\ \E x \in since'[u] : row'[u] = RowOf(x)
          /\ \A x \in since'[u] : event[x].stamp <= row'[u].stamp
        BY <1>4, <1>5, <2>1, <2>2 DEF NewestStands
    <2>4. QED
        BY <1>1, <1>3, <2>1, <2>3 DEF NewestStands, RowOf
<1>8. QED
    BY <1>6, <1>7

LEMMA RowInductive ==
    ASSUME TypeOK, RowInv, NewestStands, [Next]_vars
    PROVE  RowInv' /\ NewestStands'
<1> USE DEF Goto, database
<1>1. ASSUME NEW d \in Deliveries, NEW e \in Events, Deliver(d, e)
      PROVE  RowInv' /\ NewestStands'
    BY <1>1, RowInvKept DEF Deliver, TypeOK
<1>2. ASSUME NEW d \in Deliveries, Handle(d) PROVE RowInv' /\ NewestStands'
    <2>1. /\ UNCHANGED <<event, row, since, ev>>
          /\ \A q \in Deliveries \ {d} : pc'[q] = pc[q] /\ outcome'[q] = outcome[q]
          /\ pc'[d] \in {"idle", "answer", "claim"}
          /\ pc'[d] = "claim" => ev[d] \in Mapped
        BY <1>2 DEF Handle, TypeOK, Mapped, Types
    <2>2. QED
        BY <2>1, RowInvKept
<1>3. ASSUME NEW d \in Deliveries, ClaimId(d) PROVE RowInv' /\ NewestStands'
    <2>1. /\ UNCHANGED <<event, row, since, ev>>
          /\ \A q \in Deliveries \ {d} : pc'[q] = pc[q] /\ outcome'[q] = outcome[q]
          /\ pc[d] = "claim" /\ pc'[d] \in {"answer", "write"}
        BY <1>3 DEF ClaimId, TypeOK
    <2>2. ev[d] \in Mapped
        BY <2>1 DEF RowInv
    <2>3. QED
        BY <2>1, <2>2, RowInvKept
<1>4. ASSUME NEW d \in Deliveries, WriteRow(d) PROVE RowInv' /\ NewestStands'
    <2>1. /\ UNCHANGED <<event, row, since, ev>>
          /\ \A q \in Deliveries \ {d} : pc'[q] = pc[q] /\ outcome'[q] = outcome[q]
          /\ pc[d] = "write" /\ pc'[d] = "commit"
          /\ outcome'[d] = IF Newer(d) THEN "applied" ELSE "stale"
        BY <1>4 DEF WriteRow, TypeOK, Newer
    <2>2. \A q \in Deliveries : pc[q] = "commit" => event[ev[q]].user # event[ev[d]].user
        BY <1>4 DEF WriteRow, HoldsRow
    <2>3. Mapped' = Mapped /\ \A q \in Deliveries : Newer(q)' <=> Newer(q)
        BY <2>1 DEF Mapped, Newer
    <2>4. RowInv'
        BY <2>1, <2>2, <2>3 DEF RowInv
    <2>5. NewestStands'
        BY <2>1 DEF NewestStands, RowOf
    <2>6. QED
        BY <2>4, <2>5
<1>5. ASSUME NEW d \in Deliveries, Commit(d) PROVE RowInv' /\ NewestStands'
    <2>1. PICK e \in Events : ev[d] = e
        BY DEF TypeOK
    <2>2. PICK u \in Users : event[e].user = u
        BY DEF TypeOK
    <2>3. NewestStands' /\ \A v \in Users \ {u} : row'[v] = row[v]
        BY <1>5, <2>1, <2>2, CommitKeepsNewest
    <2>4. /\ UNCHANGED <<event, ev, outcome>>
          /\ pc[d] = "commit" /\ pc'[d] = "answer"
          /\ \A q \in Deliveries \ {d} : pc'[q] = pc[q]
        BY <1>5 DEF Commit, TypeOK
    <2>5. \A q \in Deliveries \ {d} : pc[q] = "commit" => event[ev[q]].user \in Users \ {u}
        BY <2>1, <2>2, <2>4 DEF RowInv, TypeOK
    <2>6. \A q \in Deliveries \ {d} : pc[q] = "commit" => (Newer(q)' <=> Newer(q))
        BY <2>3, <2>4, <2>5 DEF Newer
    <2>7. RowInv'
        BY <2>4, <2>6 DEF RowInv, Mapped
    <2>8. QED
        BY <2>3, <2>7
<1>6. ASSUME NEW d \in Deliveries, Ack(d) \/ Fail(d) PROVE RowInv' /\ NewestStands'
    <2>1. /\ UNCHANGED <<event, row, since, ev, outcome>>
          /\ pc' = [pc EXCEPT ![d] = "idle"]
        BY <1>6 DEF Ack, Fail
    <2>2. QED
        BY <2>1, RowInvKept DEF TypeOK
<1>7. ASSUME NEW u \in Users, DeleteAccount(u) PROVE RowInv' /\ NewestStands'
    <2>1. /\ UNCHANGED <<event, pc, ev, outcome>>
          /\ row' = [row EXCEPT ![u] = NoRow]
          /\ since' = [since EXCEPT ![u] = {}]
          /\ row[u] # NoRow => HoldsRow(u) = {}
        BY <1>7 DEF DeleteAccount
    <2>2. NewestStands'
        BY <2>1 DEF NewestStands, RowOf, TypeOK
    <2>3. \A q \in Deliveries : pc[q] = "commit" => (Newer(q)' <=> Newer(q))
        BY <2>1 DEF Newer, HoldsRow, TypeOK
    <2>4. RowInv'
        BY <2>1, <2>3 DEF RowInv, Mapped
    <2>5. QED
        BY <2>2, <2>4
<1>8. CASE UNCHANGED vars
    BY <1>8 DEF vars, RowInv, NewestStands, Newer, Mapped, RowOf
<1>9. QED
    BY <1>1, <1>2, <1>3, <1>4, <1>5, <1>6, <1>7, <1>8 DEF Next, Work

\* Late, repeated and concurrent deliveries never leave a user with anything but
\* the newest event consumed since the account was last deleted.
THEOREM NewestTheorem == Spec => []NewestStands
<1>1. Init => RowInv /\ NewestStands
    BY DEF Init, RowInv, NewestStands
<1>2. TypeOK /\ RowInv /\ NewestStands /\ [Next]_vars => RowInv' /\ NewestStands'
    BY RowInductive
<1>3. QED
    BY <1>1, <1>2, TypeCorrect, PTL DEF Spec

\* The invariant of the ledger and of the row, for the theorems that need both.
LEMMA WebhookInv == Spec => [](TypeOK /\ LedgerInv /\ RowInv)
<1>1. Init => LedgerInv /\ RowInv /\ NewestStands
    BY DEF Init, LedgerInv, RowInv, NewestStands
<1>2. TypeOK /\ LedgerInv /\ RowInv /\ NewestStands /\ [Next]_vars
        => LedgerInv' /\ RowInv' /\ NewestStands'
    BY LedgerInductive, RowInductive
<1>3. QED
    BY <1>1, <1>2, TypeCorrect, PTL DEF Spec

\* A step of the webhook never takes a subscription back to an older event: it
\* leaves the row, replaces it by one at least as new whose event was not
\* consumed before, or deletes it with the account.
Forward ==
    \A u \in Users :
        row'[u] # row[u] =>
            \/ row'[u] = NoRow /\ DeleteAccount(u)
            \/ \E e \in Events \ ledger :
                 /\ event[e].user = u
                 /\ ledger' = ledger \cup {e}
                 /\ row'[u] = RowOf(e)
                 /\ row[u] # NoRow => row[u].stamp <= event[e].stamp

\* Deliveries that are late, repeated or concurrent only ever move a subscription on:
\* the row WriteRow compared is the row Commit replaces, whatever else commits meanwhile.
THEOREM ForwardTheorem == Spec => [][Forward]_vars
<1>1. TypeOK /\ LedgerInv /\ RowInv /\ [Next]_vars => [Forward]_vars
    <2> SUFFICES ASSUME TypeOK, LedgerInv, RowInv, Next PROVE Forward
        BY DEF vars
    <2>1. ASSUME NEW d \in Deliveries, Commit(d) PROVE Forward
        <3>1. PICK e \in Events : ev[d] = e
            BY DEF TypeOK
        <3>2. PICK u \in Users : event[e].user = u
            BY DEF TypeOK
        <3>3. /\ pc[d] = "commit"
              /\ ledger' = ledger \cup {e}
              /\ row' = IF outcome[d] = "applied" THEN [row EXCEPT ![u] = RowOf(e)] ELSE row
            BY <2>1, <3>1, <3>2 DEF Commit, Goto
        <3>4. e \notin ledger
            BY <3>1, <3>3 DEF LedgerInv
        <3>5. outcome[d] = "applied" => row[u] = NoRow \/ event[e].stamp >= row[u].stamp
            BY <3>1, <3>2, <3>3 DEF RowInv, Newer
        <3>6. outcome[d] = "applied" /\ row[u] # NoRow => row[u].stamp <= event[e].stamp
            <4>1. row[u] # NoRow => row[u].stamp \in Nat
                BY <3>2 DEF TypeOK, Rows
            <4>2. event[e].stamp \in Nat
                BY DEF TypeOK
            <4>3. QED
                BY <3>5, <4>1, <4>2
        <3>7. ASSUME NEW v \in Users, row'[v] # row[v]
              PROVE  v = u /\ outcome[d] = "applied" /\ row'[v] = RowOf(e)
            BY <3>3, <3>7 DEF TypeOK
        <3>8. QED
            BY <3>2, <3>3, <3>4, <3>6, <3>7 DEF Forward
    <2>2. ASSUME NEW u \in Users, DeleteAccount(u) PROVE Forward
        <3>1. /\ row'[u] = NoRow
              /\ \A v \in Users \ {u} : row'[v] = row[v]
            BY <2>2 DEF DeleteAccount, TypeOK
        <3>2. QED
            BY <2>2, <3>1 DEF Forward
    <2>3. ASSUME NEW d \in Deliveries,
                 \/ \E e \in Events : Deliver(d, e)
                 \/ Handle(d) \/ ClaimId(d) \/ WriteRow(d) \/ Ack(d) \/ Fail(d)
          PROVE  Forward
        BY <2>3 DEF Deliver, Handle, ClaimId, WriteRow, Ack, Fail, database, Forward
    <2>4. QED
        BY <2>1, <2>2, <2>3 DEF Next, Work
<1>2. QED
    BY <1>1, WebhookInv, PTL DEF Spec

-----------------------------------------------------------------------------
(* Refinement of EntitlementOnce.                                          *)

\* The commit of a delivery consumes its event.
LEMMA CommitConsumes ==
    ASSUME TypeOK, LedgerInv, RowInv, NEW d \in Deliveries, Commit(d),
           NEW e \in Events, ev[d] = e, NEW u \in Users, event[e].user = u
    PROVE  Once!Consume(e)
<1>1. /\ pc[d] = "commit"
      /\ ledger' = ledger \cup {e}
      /\ row' = IF outcome[d] = "applied" THEN [row EXCEPT ![u] = RowOf(e)] ELSE row
      /\ event' = event
    BY DEF Commit, Goto
<1>2. e \notin ledger
    BY <1>1 DEF LedgerInv
<1>3. outcome[d] = IF Newer(d) THEN "applied" ELSE "stale"
    BY <1>1 DEF RowInv
<1>4. Once!Newest(row[u], RowOf(e)) = IF Newer(d) THEN RowOf(e) ELSE row[u]
    BY DEF Once!Newest, Newer, RowOf
<1>5. row' = [row EXCEPT ![u] = Once!Newest(row[u], RowOf(e))]
    BY <1>1, <1>3, <1>4 DEF TypeOK
<1>6. QED
    <2>1. RowOf(e) = [stamp |-> event[e].stamp, active |-> event[e].type = "grant"]
        BY DEF RowOf
    <2>2. row' = [row EXCEPT ![event[e].user] = Once!Newest(@, RowOf(e))]
        BY <1>5
    <2>3. QED
        BY <1>1, <1>2, <2>1, <2>2, Zenon DEF Once!Consume

\* Claiming an id, writing the row and committing look like one atomic,
\* at-most-once consumption, in whatever order the events come.
THEOREM RefinesEntitlementOnce == Spec => ImplementsEntitlementOnce
<1>1. Init => Once!Init
    <2> SUFFICES ASSUME Init PROVE Once!Init
        OBVIOUS
    <2>1. event \in [Events -> [user : Users, stamp : Nat, type : Types]]
        BY DEF Init
    <2>2. QED
        BY <2>1 DEF Init, Once!Init
<1>2. TypeOK /\ LedgerInv /\ RowInv /\ [Next]_vars => [Once!Next]_(Once!vars)
    <2> SUFFICES ASSUME TypeOK, LedgerInv, RowInv, [Next]_vars
                 PROVE  Once!Next \/ UNCHANGED Once!vars
        OBVIOUS
    <2>1. ASSUME NEW d \in Deliveries, Commit(d) PROVE Once!Next
        <3>1. ev[d] \in Events /\ event[ev[d]].user \in Users
            BY DEF TypeOK
        <3>2. QED
            BY <2>1, <3>1, CommitConsumes DEF Once!Next
    <2>2. ASSUME NEW u \in Users, DeleteAccount(u) PROVE Once!Next
        BY <2>2 DEF DeleteAccount, Once!Next, Once!Forget
    <2>3. ASSUME NEW d \in Deliveries,
                 \/ \E e \in Events : Deliver(d, e)
                 \/ Handle(d) \/ ClaimId(d) \/ WriteRow(d) \/ Ack(d) \/ Fail(d)
          PROVE  UNCHANGED Once!vars
        BY <2>3 DEF Deliver, Handle, ClaimId, WriteRow, Ack, Fail, database, Once!vars
    <2>4. CASE UNCHANGED vars
        BY <2>4 DEF vars, Once!vars
    <2>5. QED
        BY <2>1, <2>2, <2>3, <2>4 DEF Next, Work
<1>3. QED
    BY <1>1, <1>2, WebhookInv, PTL DEF Spec, ImplementsEntitlementOnce, Once!Spec
=============================================================================
