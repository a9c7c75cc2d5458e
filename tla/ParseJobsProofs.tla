--------------------------- MODULE ParseJobsProofs ---------------------------
(* What holds of ParseJobs for every set of users, photos and requests.    *)
EXTENDS ParseJobs, FiniteSetTheorems, TLAPS

\* The next step of a call that succeeded is another timed step.
LEMMA AfterCallType ==
    \A call \in Calls : AfterCall[call] \in Section \ {"apply", "failing", "mint"}
BY DEF AfterCall, Calls, Section

\* Every step keeps the types.
LEMMA TypeInductive == TypeOK /\ [Next]_vars => TypeOK'
<1> SUFFICES ASSUME TypeOK, [Next]_vars PROVE TypeOK'
    OBVIOUS
<1> USE ConstantsAssumption DEF TypeOK, rows, locals, Goto, Answer, Timed, Unlock,
        Reply, NoReply, Codes
<1>1. ASSUME NEW r \in Requests, NEW k \in Keys, NEW kd \in Kinds, Start(r, k, kd)
      PROVE  TypeOK'
    BY <1>1 DEF Start, Steps
<1>2. ASSUME NEW r \in Requests, Gate(r) PROVE TypeOK'
    <2>1. CASE Goto(r, "gate", "throttle") /\ UNCHANGED reply
        BY <1>2, <2>1 DEF Gate, Steps
    <2>2. CASE Answer(r, "gate", "402", {})
        BY <1>2, <2>2 DEF Gate, Steps
    <2>3. QED
        BY <1>2, <2>1, <2>2 DEF Gate
<1>3. ASSUME NEW r \in Requests, NEW allowed \in BOOLEAN, Throttle(r, allowed)
      PROVE  TypeOK'
    <2>1. CASE Goto(r, "throttle", "resolve") /\ UNCHANGED reply
        BY <1>3, <2>1 DEF Throttle, Steps
    <2>2. CASE Answer(r, "throttle", "429", {})
        BY <1>3, <2>2 DEF Throttle, Steps
    <2>3. QED
        BY <1>3, <2>1, <2>2 DEF Throttle
<1>4. ASSUME NEW r \in Requests, ResolveLock(r) PROVE TypeOK'
    BY <1>4 DEF ResolveLock, Steps, Resolving
<1>5. ASSUME NEW r \in Requests, ResolveLookup(r) PROVE TypeOK'
    <2>1. CASE Goto(r, "lookup", "read") /\ Unlock(r)
        BY <1>5, <2>1 DEF ResolveLookup, Steps
    <2>2. CASE /\ Goto(r, "lookup", IF kind[r] = "teaser" THEN "count" ELSE "insert")
               /\ UNCHANGED lock
        BY <1>5, <2>2 DEF ResolveLookup, Steps, Resolving
    <2>3. QED
        BY <1>5, <2>1, <2>2 DEF ResolveLookup
<1>6. ASSUME NEW r \in Requests, ResolveCount(r) PROVE TypeOK'
    <2>1. CASE Answer(r, "count", "402", {}) /\ Unlock(r)
        BY <1>6, <2>1 DEF ResolveCount, Steps
    <2>2. CASE Goto(r, "count", "insert") /\ UNCHANGED <<lock, reply>>
        BY <1>6, <2>2 DEF ResolveCount, Steps, Resolving
    <2>3. QED
        BY <1>6, <2>1, <2>2 DEF ResolveCount
<1>7. ASSUME NEW r \in Requests, ResolveInsert(r) PROVE TypeOK'
    BY <1>7 DEF ResolveInsert, Steps, Statuses
<1>8. ASSUME NEW r \in Requests, ReadBack(r) PROVE TypeOK'
    BY <1>8 DEF ReadBack, Steps
<1>9. ASSUME NEW r \in Requests, Replay(r) \/ List(r) PROVE TypeOK'
    <2>1. ASSUME NEW from \in Steps, Respond200(r, from) PROVE TypeOK'
        <3>1. items[key[r]] \in SUBSET Requests
            OBVIOUS
        <3>2. QED
            BY <2>1, <3>1 DEF Respond200, Steps
    <2>2. QED
        BY <1>9, <2>1 DEF Replay, List, Steps
<1>10. ASSUME NEW r \in Requests, Claim(r) PROVE TypeOK'
    BY <1>10 DEF Claim, Steps, Section, Calls, Statuses
<1>11. ASSUME NEW r \in Requests, ClaimLost(r) PROVE TypeOK'
    BY <1>11 DEF ClaimLost, Steps
<1>12. ASSUME NEW r \in Requests, NEW call \in Calls,
              CallSucceeds(r, call) \/ CallFails(r, call)
       PROVE  TypeOK'
    <2>1. CASE CallSucceeds(r, call)
        BY <2>1, AfterCallType DEF CallSucceeds, Steps
    <2>2. CASE CallFails(r, call)
        BY <2>2 DEF CallFails, Steps, Section
    <2>3. QED
        BY <1>12, <2>1, <2>2
<1>13. ASSUME NEW r \in Requests, MarkFailed(r) PROVE TypeOK'
    BY <1>13 DEF MarkFailed, Steps, Statuses
<1>14. ASSUME NEW r \in Requests, CommitSnapshot(r) PROVE TypeOK'
    BY <1>14 DEF CommitSnapshot, Steps, Section
<1>15. ASSUME NEW r \in Requests, CommitApply(r) PROVE TypeOK'
    BY <1>15 DEF CommitApply, Steps, Statuses
<1>16. ASSUME NEW r \in Requests, Die(r) PROVE TypeOK'
    BY <1>16 DEF Die, InternalError, Steps
<1>17. ASSUME NEW u \in Users, SetEntitlement(u) PROVE TypeOK'
    BY <1>17 DEF SetEntitlement
<1>18. CASE Tick
    BY <1>18 DEF Tick
<1>19. CASE UNCHANGED vars
    BY <1>19 DEF vars
<1>20. QED
    BY <1>1, <1>2, <1>3, <1>4, <1>5, <1>6, <1>7, <1>8, <1>9, <1>10, <1>11, <1>12,
       <1>13, <1>14, <1>15, <1>16, <1>17, <1>18, <1>19 DEF Next, Client, Handler

LEMMA TypeInitial == Init => TypeOK
BY DEF Init, TypeOK, Keys, Kinds, Statuses, Steps, NoReply, Reply, Codes

\* Type correctness for every instance of the pipeline.
THEOREM TypeCorrect == Spec => []TypeOK
<1>1. QED
    BY TypeInitial, TypeInductive, PTL DEF Spec

-----------------------------------------------------------------------------
(* The teaser cap.                                                         *)

\* A request past resolve_teaser_job finds its row.
RowExists ==
    \A r \in Requests :
        pc[r] \in {"read", "replay", "claim", "list"} \cup Section
            => status[key[r]] # "absent"

\* The statements of resolve_teaser_job run under the user's advisory lock.
LockHeld ==
    \A r \in Requests : pc[r] \in Resolving => lock[key[r][1]] = {r}

\* What the count established still holds when the insert runs.
RoomLeft ==
    \A r \in Requests :
        pc[r] = "insert" /\ kind[r] = "teaser"
            => Cardinality(TeaserRows(key[r][1])) < TeaserCap

CapInv == RowExists /\ LockHeld /\ TeaserCapHeld /\ RoomLeft

LEMMA RowsStay ==
    ASSUME TypeOK, RowExists, [Next]_vars, NEW k \in Keys, status[k] # "absent"
    PROVE  status'[k] # "absent" /\ rowKind'[k] = rowKind[k]
<1> USE DEF TypeOK, rows, locals, Goto, Answer
<1>1. ASSUME NEW r \in Requests, Client(r) PROVE UNCHANGED <<status, rowKind>>
    BY <1>1 DEF Client, Start
<1>2. ASSUME NEW r \in Requests, Die(r) PROVE UNCHANGED <<status, rowKind>>
    BY <1>2 DEF Die, InternalError
<1>3. ASSUME NEW r \in Requests, Handler(r)
      PROVE  status'[k] # "absent" /\ rowKind'[k] = rowKind[k]
    <2>1. CASE ResolveInsert(r)
        BY <2>1 DEF ResolveInsert
    <2>2. CASE Claim(r)
        BY <2>2 DEF Claim
    <2>3. CASE MarkFailed(r)
        BY <2>3 DEF MarkFailed
    <2>4. CASE CommitApply(r)
        BY <2>4 DEF CommitApply
    <2>5. CASE /\ ~ResolveInsert(r)
               /\ ~Claim(r)
               /\ ~MarkFailed(r)
               /\ ~CommitApply(r)
        BY <1>3, <2>5 DEF Handler, Gate, Throttle, ResolveLock, ResolveLookup,
           ResolveCount, ReadBack, Replay, List, Respond200, ClaimLost,
           CallSucceeds, CallFails, CommitSnapshot
    <2>6. QED
        BY <2>1, <2>2, <2>3, <2>4, <2>5
<1>4. ASSUME NEW u \in Users, SetEntitlement(u) PROVE UNCHANGED <<status, rowKind>>
    BY <1>4 DEF SetEntitlement
<1>5. CASE Tick
    BY <1>5 DEF Tick
<1>6. CASE UNCHANGED vars
    BY <1>6 DEF vars
<1>7. QED
    BY <1>1, <1>2, <1>3, <1>4, <1>5, <1>6 DEF Next

LEMMA OnlyInsertAdds ==
    ASSUME TypeOK, RowExists, [Next]_vars, NEW k \in Keys, status[k] = "absent",
           \A r \in Requests : ~(ResolveInsert(r) /\ key[r] = k)
    PROVE  status'[k] = "absent"
<1> USE DEF TypeOK, rows, locals, Goto, Answer
<1>1. ASSUME NEW r \in Requests, Client(r) PROVE UNCHANGED status
    BY <1>1 DEF Client, Start
<1>2. ASSUME NEW r \in Requests, Die(r) PROVE UNCHANGED status
    BY <1>2 DEF Die, InternalError
<1>3. ASSUME NEW r \in Requests, Handler(r) PROVE status'[k] = "absent"
    <2>1. CASE ResolveInsert(r)
        BY <2>1 DEF ResolveInsert
    <2>2. CASE Claim(r)
        BY <2>2 DEF Claim, Claimable
    <2>3. CASE MarkFailed(r)
        BY <2>3 DEF MarkFailed, RowExists, Section
    <2>4. CASE CommitApply(r)
        BY <2>4 DEF CommitApply, RowExists, Section
    <2>5. CASE /\ ~ResolveInsert(r)
               /\ ~Claim(r)
               /\ ~MarkFailed(r)
               /\ ~CommitApply(r)
        BY <1>3, <2>5 DEF Handler, Gate, Throttle, ResolveLock, ResolveLookup,
           ResolveCount, ReadBack, Replay, List, Respond200, ClaimLost,
           CallSucceeds, CallFails, CommitSnapshot
    <2>6. QED
        BY <2>1, <2>2, <2>3, <2>4, <2>5
<1>4. ASSUME NEW u \in Users, SetEntitlement(u) PROVE UNCHANGED status
    BY <1>4 DEF SetEntitlement
<1>5. CASE Tick
    BY <1>5 DEF Tick
<1>6. CASE UNCHANGED vars
    BY <1>6 DEF vars
<1>7. QED
    BY <1>1, <1>2, <1>3, <1>4, <1>5, <1>6 DEF Next

\* The advisory lock is exclusive among the requests inside the function.
LEMMA LockInductive ==
    ASSUME TypeOK, LockHeld, [Next]_vars
    PROVE  LockHeld'
<1> USE DEF TypeOK, LockHeld, Resolving, rows, locals, Goto, Answer, Unlock
<1>1. ASSUME NEW r \in Requests, Client(r) PROVE LockHeld'
    BY <1>1 DEF Client, Start
<1>2. ASSUME NEW r \in Requests, Die(r) PROVE LockHeld'
    BY <1>2 DEF Die, InternalError
<1>3. ASSUME NEW r \in Requests, Handler(r) PROVE LockHeld'
    <2>0. /\ \A q \in Requests : key[q][1] \in Users
          /\ UNCHANGED key
        BY <1>3 DEF Keys, Handler, Gate, Throttle, ResolveLock, ResolveLookup,
           ResolveCount, ResolveInsert, ReadBack, Replay, List, Respond200, Claim,
           ClaimLost, CallSucceeds, CallFails, MarkFailed, CommitSnapshot, CommitApply
    <2>1. CASE ResolveLock(r)
        <3>1. /\ lock[key[r][1]] = {}
              /\ lock' = [lock EXCEPT ![key[r][1]] = {r}]
              /\ pc' = [pc EXCEPT ![r] = "lookup"]
            BY <2>1 DEF ResolveLock
        <3>2. ASSUME NEW q \in Requests, pc'[q] \in Resolving
              PROVE  lock'[key[q][1]] = {q}
            <4>1. CASE q = r
                BY <2>0, <3>1, <4>1
            <4>2. CASE q # r
                <5>1. lock[key[q][1]] = {q}
                    BY <3>1, <3>2, <4>2
                <5>2. key[q][1] # key[r][1]
                    BY <3>1, <5>1
                <5>3. QED
                    BY <2>0, <3>1, <5>1, <5>2
            <4>3. QED
                BY <4>1, <4>2
        <3>3. QED
            BY <2>0, <3>2
    <2>2. CASE ResolveLookup(r)
        <3>1. CASE Goto(r, "lookup", "read") /\ Unlock(r)
            BY <2>0, <3>1
        <3>2. CASE /\ Goto(r, "lookup", IF kind[r] = "teaser" THEN "count" ELSE "insert")
                   /\ UNCHANGED lock
            BY <2>0, <3>2
        <3>3. QED
            BY <2>2, <3>1, <3>2 DEF ResolveLookup
    <2>3. CASE ResolveCount(r)
        <3>1. CASE Answer(r, "count", "402", {}) /\ Unlock(r)
            BY <2>0, <3>1
        <3>2. CASE Goto(r, "count", "insert") /\ UNCHANGED lock
            BY <2>0, <3>2
        <3>3. QED
            BY <2>3, <3>1, <3>2 DEF ResolveCount
    <2>4. CASE ResolveInsert(r)
        BY <2>4 DEF ResolveInsert
    <2>5. ASSUME NEW call \in Calls, CallSucceeds(r, call) \/ CallFails(r, call)
          PROVE  LockHeld'
        BY <2>5, AfterCallType DEF CallSucceeds, CallFails, Section, Calls
    <2>6. CASE /\ ~ResolveLock(r)
               /\ ~ResolveLookup(r)
               /\ ~ResolveCount(r)
               /\ ~ResolveInsert(r)
               /\ \A call \in Calls : ~CallSucceeds(r, call) /\ ~CallFails(r, call)
        <3>1. /\ UNCHANGED lock
              /\ UNCHANGED key
              /\ \A r2 \in Requests \ {r} : pc'[r2] = pc[r2]
              /\ pc'[r] \notin Resolving
            BY <1>3, <2>6 DEF Handler, Gate, Throttle, ReadBack, Replay, List,
               Respond200, Claim, ClaimLost, MarkFailed, CommitSnapshot, CommitApply
        <3>2. QED
            BY <3>1
    <2>7. QED
        BY <2>1, <2>2, <2>3, <2>4, <2>5, <2>6
<1>4. ASSUME NEW u \in Users, SetEntitlement(u) PROVE LockHeld'
    BY <1>4 DEF SetEntitlement
<1>5. CASE Tick
    BY <1>5 DEF Tick
<1>6. CASE UNCHANGED vars
    BY <1>6 DEF vars
<1>7. QED
    BY <1>1, <1>2, <1>3, <1>4, <1>5, <1>6 DEF Next

LEMMA RowExistsInductive ==
    ASSUME TypeOK, RowExists, [Next]_vars
    PROVE  RowExists'
<1> DEFINE Past == {"read", "replay", "claim", "list"} \cup Section
<1> SUFFICES ASSUME NEW q \in Requests, pc'[q] \in Past
             PROVE  status'[key'[q]] # "absent"
    BY DEF RowExists
<1>1. CASE pc[q] \in Past /\ key'[q] = key[q]
    <2>1. status[key[q]] # "absent" /\ key[q] \in Keys
        BY <1>1 DEF RowExists, TypeOK
    <2>2. QED
        BY <1>1, <2>1, RowsStay
<1>2. CASE ResolveInsert(q)
    BY <1>2 DEF ResolveInsert, TypeOK, locals, Statuses
<1>3. CASE ResolveLookup(q) /\ status[key[q]] # "absent"
    BY <1>3 DEF ResolveLookup, rows, locals
<1>4. (pc[q] \in Past /\ key'[q] = key[q])
        \/ ResolveInsert(q) \/ (ResolveLookup(q) /\ status[key[q]] # "absent")
    <2> USE DEF TypeOK, Goto, Answer, rows, locals
    <2>1. ASSUME NEW r \in Requests, Client(r)
          PROVE  pc[q] \in Past /\ key'[q] = key[q]
        BY <2>1 DEF Client, Start, Section, Calls
    <2>2. ASSUME NEW r \in Requests, Die(r)
          PROVE  pc[q] \in Past /\ key'[q] = key[q]
        BY <2>2 DEF Die, InternalError, Section, Calls
    <2>3. ASSUME NEW r \in Requests, Handler(r)
          PROVE  \/ pc[q] \in Past /\ key'[q] = key[q]
                 \/ ResolveInsert(q)
                 \/ ResolveLookup(q) /\ status[key[q]] # "absent"
        <3>1. /\ UNCHANGED key
              /\ \A r2 \in Requests \ {r} : pc'[r2] = pc[r2]
            BY <2>3 DEF Handler, Gate, Throttle, ResolveLock, ResolveLookup,
               ResolveCount, ResolveInsert, ReadBack, Replay, List, Respond200, Claim,
               ClaimLost, CallSucceeds, CallFails, MarkFailed, CommitSnapshot, CommitApply
        <3>2. CASE q # r
            BY <3>1, <3>2
        <3>3. CASE q = r
            <4>1. pc'[r] \notin Past \/ pc[r] \in Past
                    \/ ResolveInsert(r) \/ (ResolveLookup(r) /\ status[key[r]] # "absent")
                BY <2>3 DEF Handler, Gate, Throttle, ResolveLock, ResolveLookup,
                   ResolveCount, ReadBack, Replay, List, Respond200, Claim,
                   ClaimLost, CallSucceeds, CallFails, MarkFailed, CommitSnapshot,
                   CommitApply, Section, Calls
            <4>2. QED
                BY <3>1, <3>3, <4>1
        <3>4. QED
            BY <3>2, <3>3
    <2>4. ASSUME NEW u \in Users, SetEntitlement(u)
          PROVE  pc[q] \in Past /\ key'[q] = key[q]
        BY <2>4 DEF SetEntitlement
    <2>5. CASE Tick
        BY <2>5 DEF Tick
    <2>6. CASE UNCHANGED vars
        BY <2>6 DEF vars
    <2>7. QED
        BY <2>1, <2>2, <2>3, <2>4, <2>5, <2>6 DEF Next
<1>5. QED
    BY <1>1, <1>2, <1>3, <1>4

\* Only an insert of the user's own requests changes the rows the cap counts.
LEMMA TeaserRowsStay ==
    ASSUME TypeOK, RowExists, [Next]_vars, NEW u \in Users,
           \A r \in Requests : ~(ResolveInsert(r) /\ key[r][1] = u)
    PROVE  TeaserRows(u)' = TeaserRows(u)
<1>1. SUFFICES ASSUME NEW p \in Photos
               PROVE  (p \in TeaserRows(u))' <=> p \in TeaserRows(u)
    BY DEF TeaserRows
<1>2. <<u, p>> \in Keys
    BY DEF Keys
<1>3. CASE status[<<u, p>>] # "absent"
    BY <1>2, <1>3, RowsStay DEF TeaserRows
<1>4. CASE status[<<u, p>>] = "absent"
    <2>1. \A r \in Requests : ~(ResolveInsert(r) /\ key[r] = <<u, p>>)
        OBVIOUS
    <2>2. status'[<<u, p>>] = "absent"
        BY <1>2, <1>4, <2>1, OnlyInsertAdds
    <2>3. QED
        BY <1>4, <2>2 DEF TeaserRows
<1>5. QED
    BY <1>3, <1>4

LEMMA TeaserRowsFinite == \A u : IsFiniteSet(TeaserRows(u)) /\ Cardinality(TeaserRows(u)) \in Nat
<1> SUFFICES ASSUME NEW u PROVE IsFiniteSet(TeaserRows(u))
    BY FS_CardinalityType
<1>1. TeaserRows(u) \subseteq Photos
    BY DEF TeaserRows
<1>2. QED
    BY <1>1, ConstantsAssumption, FS_Subset

LEMMA CapInductive ==
    ASSUME TypeOK, CapInv, [Next]_vars
    PROVE  TeaserCapHeld' /\ RoomLeft'
<1>1. CASE \A r \in Requests : ~ResolveInsert(r)
    <2>1. \A u \in Users : TeaserRows(u)' = TeaserRows(u)
        BY <1>1, TeaserRowsStay DEF CapInv
    <2>2. TeaserCapHeld'
        BY <2>1 DEF CapInv, TeaserCapHeld
    <2>3. ASSUME NEW q \in Requests, pc'[q] = "insert", kind'[q] = "teaser"
          PROVE  /\ key'[q] = key[q]
                 /\ Cardinality(TeaserRows(key[q][1])) < TeaserCap
        <3> USE DEF TypeOK, Goto, Answer, rows, locals
        <3>1. CASE ResolveCount(q)
            BY <3>1, <2>3 DEF ResolveCount
        <3>2. CASE pc[q] = "insert" /\ kind[q] = "teaser" /\ key'[q] = key[q]
            BY <3>2 DEF CapInv, RoomLeft
        <3>3. ASSUME NEW r \in Requests, Handler(r)
              PROVE  \/ ResolveCount(q)
                     \/ pc[q] = "insert" /\ kind[q] = "teaser" /\ key'[q] = key[q]
            <4>1. /\ UNCHANGED <<key, kind>>
                  /\ \A r2 \in Requests \ {r} : pc'[r2] = pc[r2]
                BY <3>3 DEF Handler, Gate, Throttle, ResolveLock, ResolveLookup,
                   ResolveCount, ResolveInsert, ReadBack, Replay, List, Respond200, Claim,
                   ClaimLost, CallSucceeds, CallFails, MarkFailed, CommitSnapshot,
                   CommitApply
            <4>2. CASE q # r
                BY <4>1, <4>2, <2>3
            <4>3. CASE q = r
                BY <3>3, <4>1, <4>3, <2>3, AfterCallType DEF Handler, Gate, Throttle,
                   ResolveLock, ResolveLookup, ResolveInsert, ReadBack, Replay, List,
                   Respond200, Claim, ClaimLost, CallSucceeds, CallFails, MarkFailed,
                   CommitSnapshot, CommitApply, Section, Calls
            <4>4. QED
                BY <4>2, <4>3
        <3>4. ASSUME NEW r \in Requests, Client(r) \/ Die(r)
              PROVE  pc[q] = "insert" /\ kind[q] = "teaser" /\ key'[q] = key[q]
            BY <3>4, <2>3 DEF Client, Start, Die
        <3>5. ASSUME NEW u \in Users, SetEntitlement(u)
              PROVE  pc[q] = "insert" /\ kind[q] = "teaser" /\ key'[q] = key[q]
            BY <3>5, <2>3 DEF SetEntitlement
        <3>6. CASE Tick
            BY <3>2, <3>6, <2>3 DEF Tick
        <3>7. CASE UNCHANGED vars
            BY <3>2, <3>7, <2>3 DEF vars
        <3>8. QED
            BY <3>1, <3>2, <3>3, <3>4, <3>5, <3>6, <3>7 DEF Next
    <2>4. RoomLeft'
        BY <2>1, <2>3 DEF RoomLeft, TypeOK, Keys
    <2>5. QED
        BY <2>2, <2>4
<1>2. ASSUME NEW r \in Requests, ResolveInsert(r),
             NEW u \in Users, NEW p \in Photos, key[r] = <<u, p>>
      PROVE  TeaserCapHeld' /\ RoomLeft'
    <2>1. key[r] \in Keys /\ key[r][1] = u
        BY <1>2 DEF Keys
    <2>2. /\ UNCHANGED <<key, kind>>
          /\ pc' = [pc EXCEPT ![r] = "read"]
          /\ pc[r] = "insert"
          /\ \A k \in Keys : k # key[r] => status'[k] = status[k] /\ rowKind'[k] = rowKind[k]
        BY <1>2 DEF ResolveInsert, Goto, locals, TypeOK
    <2>3. \A v \in Users : v # u => TeaserRows(v)' = TeaserRows(v)
        BY <1>2, <2>2 DEF TeaserRows, Keys
    <2>4. Cardinality(TeaserRows(u)') <= TeaserCap
        <3>1. CASE kind[r] = "teaser"
            <4> DEFINE Before == TeaserRows(u)
            <4> DEFINE After == TeaserRows(u)'
            <4>1. Cardinality(Before) < TeaserCap
                BY <2>1, <2>2, <3>1 DEF CapInv, RoomLeft
            <4>2. After \subseteq Before \cup {p}
                BY <1>2, <2>2 DEF TeaserRows, Keys
            <4>3. IsFiniteSet(Before) /\ Cardinality(Before) \in Nat
                BY TeaserRowsFinite
            <4> HIDE DEF Before, After
            <4>4. /\ IsFiniteSet(Before \cup {p})
                  /\ Cardinality(Before \cup {p}) <= Cardinality(Before) + 1
                BY <4>3, FS_AddElement
            <4>5. /\ IsFiniteSet(After)
                  /\ Cardinality(After) <= Cardinality(Before \cup {p})
                BY <4>2, <4>4, FS_Subset
            <4>6. Cardinality(After) \in Nat /\ Cardinality(Before \cup {p}) \in Nat
                BY <4>4, <4>5, FS_CardinalityType
            <4>7. Cardinality(After) <= TeaserCap
                BY <4>1, <4>3, <4>4, <4>5, <4>6, ConstantsAssumption
            <4>8. QED
                BY <4>7 DEF After
        <3>2. CASE kind[r] = "full"
            <4>1. \A k \in Keys :
                        (status'[k] # "absent" /\ rowKind'[k] = "teaser")
                            <=> (status[k] # "absent" /\ rowKind[k] = "teaser")
                BY <1>2, <2>1, <2>2, <3>2 DEF ResolveInsert, TypeOK
            <4>2. TeaserRows(u)' = TeaserRows(u)
                BY <4>1 DEF TeaserRows, Keys
            <4>3. QED
                BY <4>2 DEF CapInv, TeaserCapHeld
        <3>3. QED
            BY <3>1, <3>2 DEF TypeOK, Kinds
    <2>5. TeaserCapHeld'
        BY <2>3, <2>4 DEF CapInv, TeaserCapHeld
    <2>6. ASSUME NEW q \in Requests, NEW v \in Users, key[q][1] = v,
                 pc'[q] = "insert", kind'[q] = "teaser"
          PROVE  Cardinality(TeaserRows(v)') < TeaserCap
        <3>1. q # r /\ pc[q] = "insert" /\ kind[q] = "teaser"
            BY <2>2, <2>6 DEF TypeOK
        <3>2. lock[v] = {q} /\ lock[u] = {r}
            BY <2>1, <2>2, <2>6, <3>1 DEF CapInv, LockHeld, Resolving
        <3>3. v # u
            BY <3>1, <3>2
        <3>4. QED
            BY <2>3, <2>6, <3>1, <3>3 DEF CapInv, RoomLeft
    <2>7. RoomLeft'
        BY <2>2, <2>6 DEF RoomLeft, TypeOK, Keys
    <2>8. QED
        BY <2>5, <2>7
<1>3. QED
    BY <1>1, <1>2 DEF TypeOK, Keys

LEMMA CapKept == Spec => []CapInv
<1>1. Init => CapInv
    <2>1. Init => RowExists /\ LockHeld /\ RoomLeft
        BY DEF Init, RowExists, LockHeld, RoomLeft, Section, Calls, Resolving
    <2>2. ASSUME Init, NEW u \in Users PROVE TeaserRows(u) = {}
        BY <2>2 DEF Init, TeaserRows, Keys
    <2>3. Init => TeaserCapHeld
        BY <2>2, FS_EmptySet, ConstantsAssumption DEF TeaserCapHeld
    <2>4. QED
        BY <2>1, <2>3 DEF CapInv
<1>2. TypeOK /\ CapInv /\ [Next]_vars => CapInv'
    BY CapInductive, LockInductive, RowExistsInductive DEF CapInv
<1>3. QED
    BY <1>1, <1>2, TypeCorrect, PTL DEF Spec

\* The teaser cap is a hard per-user guarantee: no interleaving of requests,
\* crashes and clocks brings a user more than TeaserCap teaser rows.
THEOREM TeaserCapTheorem == Spec => []TeaserCapHeld
<1>1. CapInv => TeaserCapHeld
    BY DEF CapInv
<1>2. QED
    BY <1>1, CapKept, PTL

\* Whoever is among the holders of a lock is inside the function for its user.
LockReturned ==
    \A u \in Users : \A r \in lock[u] : pc[r] \in Resolving /\ key[r][1] = u

LEMMA ReturnInductive ==
    ASSUME TypeOK, LockReturned, [Next]_vars
    PROVE  LockReturned'
<1> SUFFICES ASSUME NEW u \in Users, NEW q \in lock'[u]
             PROVE  pc'[q] \in Resolving /\ key'[q][1] = u
    BY DEF LockReturned
<1> USE DEF TypeOK, LockReturned, Resolving, rows, locals, Goto, Answer, Unlock
<1>1. ASSUME NEW r \in Requests, Client(r) PROVE pc'[q] \in Resolving /\ key'[q][1] = u
    <2>1. /\ pc[r] = "idle" /\ lock' = lock
          /\ \A r2 \in Requests \ {r} : pc'[r2] = pc[r2] /\ key'[r2] = key[r2]
        BY <1>1 DEF Client, Start
    <2>2. QED
        BY <2>1
<1>2. ASSUME NEW r \in Requests, Die(r) PROVE pc'[q] \in Resolving /\ key'[q][1] = u
    <2>1. /\ key' = key /\ \A r2 \in Requests \ {r} : pc'[r2] = pc[r2]
          /\ lock' = [lock EXCEPT ![key[r][1]] = @ \ {r}]
        BY <1>2 DEF Die, InternalError
    <2>2. q \in lock[u] /\ q \in Requests
        BY <2>1
    <2>3. q # r
        BY <2>1, <2>2
    <2>4. QED
        BY <2>1, <2>2, <2>3
<1>3. ASSUME NEW r \in Requests, Handler(r) PROVE pc'[q] \in Resolving /\ key'[q][1] = u
    <2>0. key' = key /\ \A r2 \in Requests \ {r} : pc'[r2] = pc[r2]
        BY <1>3 DEF Keys, Handler, Gate, Throttle, ResolveLock, ResolveLookup, ResolveCount,
           ResolveInsert, ReadBack, Replay, List, Respond200, Claim, ClaimLost, CallSucceeds,
           CallFails, MarkFailed, CommitSnapshot, CommitApply
    <2>1. CASE ResolveLock(r)
        BY <2>0, <2>1 DEF ResolveLock
    <2>2. CASE lock' = lock /\ (pc[r] \in Resolving => pc'[r] \in Resolving)
        BY <2>0, <2>2
    <2>3. CASE Unlock(r)
        <3>1. q \in lock[u] /\ q \in Requests
            BY <2>3
        <3>2. q # r
            BY <2>3, <3>1
        <3>3. QED
            BY <2>0, <3>1, <3>2
    <2>4. ResolveLock(r) \/ (lock' = lock /\ (pc[r] \in Resolving => pc'[r] \in Resolving)) \/ Unlock(r)
        BY <1>3 DEF Handler, Gate, Throttle, ResolveLookup, ResolveCount,
           ResolveInsert, ReadBack, Replay, List, Respond200, Claim, ClaimLost, CallSucceeds,
           CallFails, MarkFailed, CommitSnapshot, CommitApply, Calls
    <2>5. QED
        BY <2>1, <2>2, <2>3, <2>4
<1>4. CASE (\E w \in Users : SetEntitlement(w)) \/ Tick \/ UNCHANGED vars
    BY <1>4 DEF SetEntitlement, Tick, vars
<1>5. QED
    BY <1>1, <1>2, <1>3, <1>4 DEF Next

\* The advisory lock of a user is held by the one request inside
\* resolve_teaser_job for her, if there is one: no early return, cap refusal or
\* crash leaves it behind, where every later request of hers would wait for ever.
THEOREM LockTheorem ==
    Spec => [](\A u \in Users :
                 /\ lock[u] = {r \in Requests : pc[r] \in Resolving /\ key[r][1] = u}
                 /\ \A r1, r2 \in lock[u] : r1 = r2)
<1>1. Init => LockReturned
    BY DEF Init, LockReturned
<1>2. TypeOK /\ LockHeld /\ LockReturned
        => \A u \in Users :
             /\ lock[u] = {r \in Requests : pc[r] \in Resolving /\ key[r][1] = u}
             /\ \A r1, r2 \in lock[u] : r1 = r2
    <2> SUFFICES ASSUME TypeOK, LockHeld, LockReturned, NEW u \in Users
                 PROVE  /\ lock[u] = {r \in Requests : pc[r] \in Resolving /\ key[r][1] = u}
                        /\ \A r1, r2 \in lock[u] : r1 = r2
        OBVIOUS
    <2>1. lock[u] \subseteq Requests
        BY DEF TypeOK
    <2>2. \A r \in lock[u] : pc[r] \in Resolving /\ key[r][1] = u
        BY DEF LockReturned
    <2>3. \A r \in Requests : pc[r] \in Resolving /\ key[r][1] = u => lock[u] = {r}
        BY DEF LockHeld
    <2>4. QED
        BY <2>1, <2>2, <2>3
<1>3. CapInv => LockHeld
    BY DEF CapInv
<1>4. QED
    BY <1>1, <1>2, <1>3, ReturnInductive, CapKept, TypeCorrect, PTL DEF Spec

-----------------------------------------------------------------------------
(* One request at a time in the paid section, under the timing assumption. *)

\* Time the steps after step s may still take.
Rest ==
    [s \in Section |-> CASE s = "mint" -> 3 * CallTime + DbTime
                          [] s = "vision" -> 2 * CallTime + DbTime
                          [] s = "cutout" -> CallTime + DbTime
                          [] s = "upload" -> DbTime
                          [] OTHER -> 0]

\* The lease of a claimed row lasts longer than its holder can.
FlightInv ==
    /\ SingleFlight
    /\ \A r \in Requests :
         pc[r] \in Section =>
             /\ status[key[r]] = "processing"
             /\ lease[key[r]] > left[r] + Rest[pc[r]]

LEMMA RestValues ==
    /\ \A s \in Section : Rest[s] \in Nat
    /\ \A s \in Calls : Rest[s] >= DbTime
    /\ \A s \in Calls : AfterCall[s] \in Calls => CallTime + Rest[AfterCall[s]] = Rest[s]
    /\ \A s \in Calls : AfterCall[s] \notin Calls
            => AfterCall[s] = "commit" /\ Rest[s] = DbTime
    /\ Rest["commit"] = 0 /\ Rest["apply"] = 0 /\ Rest["failing"] = 0
    /\ Rest["mint"] = 3 * CallTime + DbTime
BY ConstantsAssumption DEF Rest, AfterCall, Section, Calls

LEMMA FlightInductive ==
    ASSUME Timely, LeaseCoversParse, TypeOK, FlightInv, [Next]_vars
    PROVE  FlightInv'
<1> USE ConstantsAssumption, RestValues
<1>0. \A q \in Requests : key[q] \in Keys /\ left[q] \in Nat /\ lease[key[q]] \in Nat
    BY DEF TypeOK
<1>1. ASSUME NEW r \in Requests, UNCHANGED <<status, lease>>, pc'[r] \notin Section,
             \A q \in Requests \ {r} :
                pc'[q] = pc[q] /\ key'[q] = key[q] /\ left'[q] = left[q]
      PROVE  FlightInv'
    BY <1>1 DEF FlightInv, SingleFlight
\* A request moves on inside the section and what it needs still fits in what it needed.
<1>8. ASSUME NEW r \in Requests, pc[r] \in Section, pc'[r] \in Section,
             UNCHANGED <<status, lease, key>>,
             left'[r] \in Nat, left'[r] + Rest[pc'[r]] <= Rest[pc[r]],
             \A q \in Requests \ {r} : pc'[q] = pc[q] /\ left'[q] = left[q]
      PROVE  FlightInv'
    <2>1. lease[key[r]] > left'[r] + Rest[pc'[r]] /\ status[key[r]] = "processing"
        <3>1. /\ lease[key[r]] > left[r] + Rest[pc[r]]
              /\ status[key[r]] = "processing"
            BY <1>8 DEF FlightInv
        <3>2. /\ lease[key[r]] \in Nat /\ left[r] \in Nat /\ left'[r] \in Nat
              /\ Rest[pc[r]] \in Nat /\ Rest[pc'[r]] \in Nat
            BY <1>0, <1>8
        <3>3. QED
            BY <1>8, <3>1, <3>2
    <2>2. SingleFlight'
        BY <1>8 DEF FlightInv, SingleFlight
    <2>3. ASSUME NEW q \in Requests, pc'[q] \in Section
          PROVE  status'[key'[q]] = "processing" /\ lease'[key'[q]] > left'[q] + Rest[pc'[q]]
        BY <1>8, <2>1, <2>3 DEF FlightInv
    <2>4. QED
        BY <2>2, <2>3 DEF FlightInv
<1>2. ASSUME NEW r \in Requests, Client(r) PROVE FlightInv'
    <2>1. /\ UNCHANGED <<status, lease>>
          /\ pc'[r] \notin Section
          /\ \A q \in Requests \ {r} :
                pc'[q] = pc[q] /\ key'[q] = key[q] /\ left'[q] = left[q]
        BY <1>2 DEF Client, Start, Goto, rows, TypeOK, Section, Calls
    <2>2. QED
        BY <1>1, <2>1
<1>3. ASSUME NEW r \in Requests, Die(r) PROVE FlightInv'
    <2>1. /\ UNCHANGED <<status, lease>>
          /\ pc'[r] \notin Section
          /\ \A q \in Requests \ {r} :
                pc'[q] = pc[q] /\ key'[q] = key[q] /\ left'[q] = left[q]
        BY <1>3 DEF Die, InternalError, Timed, rows, TypeOK, Section, Calls
    <2>2. QED
        BY <1>1, <2>1
<1>4. ASSUME NEW r \in Requests, Handler(r) PROVE FlightInv'
    <2> USE DEF TypeOK, Goto, Answer, Timed, rows, locals
    <2>1. CASE Claim(r)
        <3>1. \A q \in Requests : pc[q] \in Section => key[q] # key[r]
            BY <1>0, <2>1 DEF Claim, Claimable, FlightInv
        <3>2. /\ status'[key[r]] = "processing"
              /\ lease'[key[r]] = Lease
              /\ left'[r] = CallTime
              /\ pc'[r] = "mint"
              /\ UNCHANGED key
              /\ \A q \in Requests \ {r} : pc'[q] = pc[q] /\ left'[q] = left[q]
              /\ \A k \in Keys \ {key[r]} : status'[k] = status[k] /\ lease'[k] = lease[k]
            BY <1>0, <2>1 DEF Claim
        <3>3. lease'[key[r]] > left'[r] + Rest[pc'[r]]
            BY <3>2 DEF LeaseCoversParse
        <3>4. SingleFlight'
            BY <3>1, <3>2 DEF FlightInv, SingleFlight
        <3>5. ASSUME NEW q \in Requests, pc'[q] \in Section
              PROVE  status'[key'[q]] = "processing" /\ lease'[key'[q]] > left'[q] + Rest[pc'[q]]
            <4>1. CASE q = r
                BY <3>2, <3>3, <4>1
            <4>2. CASE q # r
                <5>1. /\ pc[q] \in Section
                      /\ key[q] \in Keys \ {key[r]}
                      /\ key'[q] = key[q] /\ pc'[q] = pc[q] /\ left'[q] = left[q]
                    BY <1>0, <3>1, <3>2, <3>5, <4>2
                <5>2. QED
                    BY <3>2, <5>1 DEF FlightInv
            <4>3. QED
                BY <4>1, <4>2
        <3>6. QED
            BY <3>4, <3>5 DEF FlightInv
    <2>2. ASSUME NEW call \in Calls, CallSucceeds(r, call) PROVE FlightInv'
        <3>1. /\ pc[r] = call
              /\ pc'[r] = AfterCall[call]
              /\ left'[r] = IF AfterCall[call] = "commit" THEN DbTime ELSE CallTime
              /\ UNCHANGED <<status, lease, key>>
              /\ \A q \in Requests \ {r} : pc'[q] = pc[q] /\ left'[q] = left[q]
            BY <2>2 DEF CallSucceeds
        <3>2. left'[r] + Rest[pc'[r]] <= Rest[call] /\ pc'[r] \in Section /\ pc[r] \in Section
            BY <3>1, AfterCallType DEF Section
        <3>3. QED
            BY <1>8, <3>1, <3>2
    <2>3. ASSUME NEW call \in Calls, CallFails(r, call) PROVE FlightInv'
        <3>1. /\ pc[r] = call
              /\ pc'[r] = "failing"
              /\ left'[r] = DbTime
              /\ UNCHANGED <<status, lease, key>>
              /\ \A q \in Requests \ {r} : pc'[q] = pc[q] /\ left'[q] = left[q]
            BY <2>3 DEF CallFails
        <3>2. left'[r] + Rest[pc'[r]] <= Rest[call] /\ pc'[r] \in Section /\ pc[r] \in Section
            BY <3>1 DEF Section
        <3>3. QED
            BY <1>8, <3>1, <3>2
    <2>4. CASE MarkFailed(r) \/ CommitApply(r)
        <3>1. /\ pc[r] \in Section
              /\ pc'[r] \notin Section
              /\ UNCHANGED key
              /\ \A q \in Requests \ {r} : pc'[q] = pc[q] /\ left'[q] = left[q]
              /\ \A k \in Keys \ {key[r]} : status'[k] = status[k] /\ lease'[k] = lease[k]
            <4>1. CASE MarkFailed(r)
                BY <1>0, <4>1 DEF MarkFailed, Section, Calls
            <4>2. CASE CommitApply(r)
                BY <1>0, <4>2 DEF CommitApply, Section, Calls
            <4>3. QED
                BY <2>4, <4>1, <4>2
        <3>2. \A q \in Requests \ {r} : pc[q] \in Section => key[q] # key[r]
            BY <3>1 DEF FlightInv, SingleFlight
        <3>3. QED
            BY <1>0, <3>1, <3>2 DEF FlightInv, SingleFlight
    <2>5. CASE CommitSnapshot(r)
        BY <1>0, <2>5 DEF CommitSnapshot, FlightInv, SingleFlight, Section
    <2>6. CASE ResolveInsert(r)
        <3>1. /\ pc'[r] \notin Section
              /\ UNCHANGED <<key, lease, left>>
              /\ \A q \in Requests \ {r} : pc'[q] = pc[q]
              /\ \A k \in Keys : status[k] # "absent" => status'[k] = status[k]
            BY <2>6 DEF ResolveInsert, Section, Calls
        <3>2. QED
            BY <1>0, <3>1 DEF FlightInv, SingleFlight
    <2>7. CASE /\ ~Claim(r)
               /\ \A call \in Calls : ~CallSucceeds(r, call) /\ ~CallFails(r, call)
               /\ ~MarkFailed(r)
               /\ ~CommitApply(r)
               /\ ~CommitSnapshot(r)
               /\ ~ResolveInsert(r)
        <3>1. /\ UNCHANGED <<status, lease>>
              /\ pc'[r] \notin Section
              /\ \A q \in Requests \ {r} :
                    pc'[q] = pc[q] /\ key'[q] = key[q] /\ left'[q] = left[q]
            BY <1>4, <2>7 DEF Handler, Gate, Throttle, ResolveLock, ResolveLookup,
               ResolveCount, ReadBack, Replay, List, Respond200, ClaimLost, Section, Calls
        <3>2. QED
            BY <1>1, <3>1
    <2>8. QED
        BY <2>1, <2>2, <2>3, <2>4, <2>5, <2>6, <2>7
<1>5. ASSUME NEW u \in Users, SetEntitlement(u) PROVE FlightInv'
    BY <1>5 DEF SetEntitlement, FlightInv, SingleFlight, rows, locals
<1>6. CASE Tick
    <2>1. /\ UNCHANGED <<status, pc, key>>
          /\ \A q \in Requests : pc[q] \in Section =>
                /\ left[q] > 0
                /\ left'[q] = left[q] - 1
                /\ lease'[key[q]] = IF lease[key[q]] > 0 THEN lease[key[q]] - 1 ELSE 0
        BY <1>0, <1>6 DEF Tick, locals
    <2>2. QED
        BY <1>0, <2>1 DEF FlightInv, SingleFlight
<1>7. CASE UNCHANGED vars
    BY <1>7 DEF vars, FlightInv, SingleFlight, rows, locals
<1>9. QED
    BY <1>2, <1>3, <1>4, <1>5, <1>6, <1>7 DEF Next

\* While every step keeps its time bound and the lease covers four provider
\* calls and a transaction, one photo is never paid for by two requests at once.
THEOREM SingleFlightTheorem ==
    ASSUME Timely, LeaseCoversParse
    PROVE  Spec => [](SingleFlight /\ ClaimCoversSection)
<1>1. Init => FlightInv
    BY DEF Init, FlightInv, SingleFlight, Section, Calls
<1>2. TypeOK /\ FlightInv /\ [Next]_vars => FlightInv'
    BY FlightInductive
<1>3. TypeOK /\ FlightInv => SingleFlight /\ ClaimCoversSection
    BY RestValues DEF TypeOK, FlightInv, ClaimCoversSection
<1>4. QED
    BY <1>1, <1>2, <1>3, TypeCorrect, PTL DEF Spec

LEMMA GarmentsStay ==
    ASSUME TypeOK, [Next]_vars, NEW k \in Keys, items[k] # {}
    PROVE  items'[k] # {}
<1>1. ASSUME NEW r \in Requests, CommitApply(r) PROVE items'[k] # {}
    BY <1>1 DEF CommitApply, TypeOK, locals
<1>2. ASSUME NEW r \in Requests, Handler(r), ~CommitApply(r) PROVE UNCHANGED items
    BY <1>2 DEF Handler, Gate, Throttle, ResolveLock, ResolveLookup, ResolveCount,
       ResolveInsert, ReadBack, Replay, List, Respond200, Claim, ClaimLost, CallSucceeds,
       CallFails, MarkFailed, CommitSnapshot, rows
<1>3. CASE \A r \in Requests : ~Handler(r)
    BY <1>3 DEF Next, Client, Start, Die, SetEntitlement, Tick, rows, vars
<1>4. QED
    BY <1>1, <1>2, <1>3

\* Without any timing assumption, and even where two requests end up inside the
\* paid section of one photo: no commit loses a photo its garments, because it
\* removes what its snapshot held only together with adding its own.
THEOREM GarmentsSurviveTheorem == Spec => GarmentsSurvive
<1>1. TypeOK /\ [Next]_vars => \A k \in Keys : items[k] # {} => items'[k] # {}
    BY GarmentsStay
<1>2. QED
    BY <1>1, TypeCorrect, PTL DEF Spec, GarmentsSurvive

-----------------------------------------------------------------------------
(* What follows from the single flight: a finished job stays as it is,      *)
(* every 200 carries the garments of its photo, and the pipeline implements *)
(* ParseOnce.                                                               *)

\* The garments of a job exist exactly when it is done, a commit therefore
\* never sees an older set, and whoever answers 200 looks at a done job.
ResultInv ==
    /\ \A k \in Keys : status[k] # "done" => items[k] = {}
    /\ \A k \in Keys : status[k] = "done" => \E x \in Requests : items[k] = {x}
    /\ \A r \in Requests : seen[r] = {}
    /\ \A r \in Requests : pc[r] \in {"replay", "list"} => status[key[r]] = "done"
    /\ \A r \in Requests :
         reply[r].code = "200" =>
             status[key[r]] = "done" /\ reply[r].items = items[key[r]]

\* A step that answers nothing, writes no garments and ends no job.
LEMMA QuietStep ==
    ASSUME TypeOK, ResultInv, NEW r \in Requests,
           UNCHANGED <<items, seen>>,
           \A k \in Keys : status'[k] = "done" <=> status[k] = "done",
           \A q \in Requests \ {r} :
               pc'[q] = pc[q] /\ key'[q] = key[q] /\ reply'[q] = reply[q],
           pc'[r] \in {"replay", "list"} => status[key'[r]] = "done",
           reply'[r].code = "200" =>
               status[key'[r]] = "done" /\ reply'[r].items = items[key'[r]],
           key' \in [Requests -> Keys]
    PROVE  ResultInv'
<1>1. /\ \A k \in Keys : status'[k] # "done" => items'[k] = {}
      /\ \A k \in Keys : status'[k] = "done" => \E x \in Requests : items'[k] = {x}
      /\ \A q \in Requests : seen'[q] = {}
    BY DEF ResultInv
<1>2. ASSUME NEW q \in Requests
      PROVE  /\ pc'[q] \in {"replay", "list"} => status'[key'[q]] = "done"
             /\ reply'[q].code = "200" =>
                    status'[key'[q]] = "done" /\ reply'[q].items = items'[key'[q]]
    <2>1. CASE q = r
        BY <2>1
    <2>2. CASE q # r
        BY <2>2 DEF ResultInv
    <2>3. QED
        BY <2>1, <2>2
<1>3. QED
    BY <1>1, <1>2 DEF ResultInv

LEMMA DoneStep ==
    ASSUME TypeOK, FlightInv, ResultInv, [Next]_vars
    PROVE  \A k \in Keys : status[k] = "done" => status'[k] = "done" /\ items'[k] = items[k]
<1>1. SUFFICES ASSUME NEW k \in Keys, status[k] = "done"
               PROVE  status'[k] = "done" /\ items'[k] = items[k]
    OBVIOUS
<1>2. \A r \in Requests : pc[r] \in Section => key[r] # k
    BY <1>1 DEF FlightInv
<1>3. ASSUME NEW r \in Requests, Client(r) \/ Die(r)
      PROVE  status'[k] = "done" /\ items'[k] = items[k]
    BY <1>1, <1>3 DEF Client, Start, Die, rows
<1>4. ASSUME NEW r \in Requests, Handler(r)
      PROVE  status'[k] = "done" /\ items'[k] = items[k]
    <2>1. CASE Claim(r)
        BY <1>1, <2>1 DEF Claim, Claimable, TypeOK
    <2>2. CASE MarkFailed(r)
        BY <1>1, <1>2, <2>2 DEF MarkFailed, Answer, Goto, Section, TypeOK
    <2>3. CASE CommitApply(r)
        BY <1>1, <1>2, <2>3 DEF CommitApply, Goto, Section, TypeOK
    <2>4. CASE ResolveInsert(r)
        BY <1>1, <2>4 DEF ResolveInsert, TypeOK
    <2>5. CASE ~Claim(r) /\ ~MarkFailed(r) /\ ~CommitApply(r) /\ ~ResolveInsert(r)
        BY <1>1, <1>4, <2>5 DEF Handler, Gate, Throttle, ResolveLock, ResolveLookup,
           ResolveCount, ReadBack, Replay, List, Respond200, ClaimLost, CallSucceeds,
           CallFails, CommitSnapshot, rows
    <2>6. QED
        BY <2>1, <2>2, <2>3, <2>4, <2>5
<1>5. CASE \/ \E u \in Users : SetEntitlement(u)
           \/ Tick
           \/ UNCHANGED vars
    BY <1>1, <1>5 DEF SetEntitlement, Tick, vars, rows
<1>6. QED
    BY <1>3, <1>4, <1>5 DEF Next

LEMMA ResultInductive ==
    ASSUME TypeOK, TypeOK', FlightInv, ResultInv, [Next]_vars
    PROVE  ResultInv'
<1> USE DEF Goto, Answer, Timed, Reply, NoReply, locals, rows
<1>1. ASSUME NEW r \in Requests, Client(r) \/ Die(r) PROVE ResultInv'
    <2>1. CASE Client(r)
        BY <2>1, QuietStep DEF Client, Start, TypeOK
    <2>2. CASE Die(r)
        <3>1. seen' = seen
            BY <2>2 DEF Die, InternalError, ResultInv, TypeOK
        <3>2. QED
            <4>1. /\ UNCHANGED <<status, items, key>>
                  /\ pc' = [pc EXCEPT ![r] = "idle"]
                  /\ reply' = [reply EXCEPT ![r] = [code |-> "500", items |-> {}]]
                BY <2>2 DEF Die, InternalError
            <4>2. QED
                BY <3>1, <4>1, QuietStep DEF TypeOK
    <2>3. QED
        BY <1>1, <2>1, <2>2
<1>2. ASSUME NEW r \in Requests, Handler(r) PROVE ResultInv'
    <2>0. key[r] \in Keys /\ pc[r] \in Steps
        BY DEF TypeOK
    <2>1. CASE Claim(r)
        <3>1. \A k \in Keys : status'[k] = "done" <=> status[k] = "done"
            BY <2>1 DEF Claim, Claimable, TypeOK
        <3>2. /\ UNCHANGED <<items, seen, key, reply>>
              /\ pc' = [pc EXCEPT ![r] = "mint"]
            BY <2>1 DEF Claim
        <3>3. QED
            BY <3>1, <3>2, QuietStep DEF TypeOK, ResultInv
    <2>2. CASE MarkFailed(r)
        <3>1. pc[r] = "failing" /\ status[key[r]] = "processing"
            BY <2>2 DEF MarkFailed, FlightInv, Section
        <3>2. \A k \in Keys : status'[k] = "done" <=> status[k] = "done"
            BY <2>2, <3>1 DEF MarkFailed, TypeOK
        <3>3. /\ UNCHANGED <<items, seen, key>>
              /\ pc' = [pc EXCEPT ![r] = "idle"]
              /\ reply' = [reply EXCEPT ![r] = [code |-> "502", items |-> {}]]
            BY <2>2 DEF MarkFailed
        <3>4. QED
            BY <3>2, <3>3, QuietStep DEF TypeOK, ResultInv
    <2>3. CASE CommitApply(r)
        <3>1. /\ pc' = [pc EXCEPT ![r] = "list"]
              /\ items' = [items EXCEPT ![key[r]] = (@ \ seen[r]) \cup {r}]
              /\ status' = [status EXCEPT ![key[r]] = "done"]
              /\ seen' = [seen EXCEPT ![r] = {}]
              /\ UNCHANGED <<key, reply>>
              /\ status[key[r]] = "processing"
            BY <2>3 DEF CommitApply, FlightInv, Section
        <3>2. items'[key[r]] = {r} /\ status'[key[r]] = "done"
            BY <2>0, <3>1 DEF ResultInv, TypeOK
        <3>3. \A k \in Keys \ {key[r]} : items'[k] = items[k] /\ status'[k] = status[k]
            BY <2>0, <3>1 DEF TypeOK
        <3>4. \A q \in Requests : seen'[q] = {}
            BY <3>1 DEF ResultInv, TypeOK
        <3>5. \A q \in Requests : pc'[q] \in {"replay", "list"} => status'[key'[q]] = "done"
            BY <3>1, <3>2, <3>3 DEF ResultInv, TypeOK
        <3>6. ASSUME NEW q \in Requests, reply'[q].code = "200"
              PROVE  status'[key'[q]] = "done" /\ reply'[q].items = items'[key'[q]]
            <4>1. status[key[q]] = "done" /\ reply[q].items = items[key[q]]
                BY <3>1, <3>6 DEF ResultInv
            <4>2. key[q] \in Keys \ {key[r]}
                BY <3>1, <4>1 DEF TypeOK
            <4>3. QED
                BY <3>1, <3>3, <4>1, <4>2
        <3>7. QED
            BY <3>2, <3>3, <3>4, <3>5, <3>6 DEF ResultInv
    <2>4. CASE ResolveInsert(r)
        BY <2>4, QuietStep DEF ResolveInsert, TypeOK, ResultInv
    <2>5. CASE CommitSnapshot(r)
        <3>1. pc[r] = "commit" /\ status[key[r]] = "processing"
            BY <2>5 DEF CommitSnapshot, FlightInv, Section
        <3>2. seen' = seen
            <4>1. items[key[r]] = seen[r]
                BY <2>0, <3>1 DEF ResultInv
            <4>2. seen' = [seen EXCEPT ![r] = seen[r]]
                BY <2>5, <4>1 DEF CommitSnapshot
            <4>3. QED
                BY <4>2 DEF TypeOK
        <3>3. QED
            <4>1. /\ UNCHANGED <<status, items, key, reply>>
                  /\ pc' = [pc EXCEPT ![r] = "apply"]
                BY <2>5 DEF CommitSnapshot
            <4>2. QED
                BY <3>2, <4>1, QuietStep DEF TypeOK, ResultInv
    <2>6. CASE ReadBack(r) \/ Replay(r) \/ List(r)
        <3>1. CASE ReadBack(r)
            <4>1. /\ UNCHANGED <<status, items, seen, key, reply>>
                  /\ pc' = [pc EXCEPT ![r] =
                               IF status[key[r]] = "done" THEN "replay" ELSE "claim"]
                BY <3>1 DEF ReadBack
            <4>2. QED
                BY <4>1, QuietStep DEF TypeOK, ResultInv
        <3>2. CASE Replay(r) \/ List(r)
            <4>1. /\ UNCHANGED <<status, items, seen, key>>
                  /\ pc[r] \in {"replay", "list"}
                  /\ pc' = [pc EXCEPT ![r] = "idle"]
                  /\ reply' = [reply EXCEPT ![r] = [code |-> "200", items |-> items[key[r]]]]
                BY <3>2 DEF Replay, List, Respond200
            <4>2. status[key[r]] = "done"
                BY <4>1 DEF ResultInv
            <4>3. QED
                BY <4>1, <4>2, QuietStep DEF TypeOK, ResultInv
        <3>3. QED
            BY <2>6, <3>1, <3>2
    <2>7. ASSUME NEW call \in Calls, CallSucceeds(r, call) \/ CallFails(r, call)
          PROVE  ResultInv'
        <3>1. /\ UNCHANGED <<status, items, seen, key, reply>>
              /\ pc' = [pc EXCEPT ![r] = pc'[r]]
              /\ pc'[r] \in Section
            <4>1. CASE CallSucceeds(r, call)
                BY <4>1, AfterCallType DEF CallSucceeds, TypeOK, Section
            <4>2. CASE CallFails(r, call)
                BY <4>2 DEF CallFails, TypeOK, Section
            <4>3. QED
                BY <2>7, <4>1, <4>2
        <3>2. "replay" \notin Section /\ "list" \notin Section
            BY DEF Section, Calls
        <3>3. QED
            BY <3>1, <3>2, QuietStep DEF TypeOK, ResultInv
    <2>8. CASE \/ Gate(r) \/ (\E allowed \in BOOLEAN : Throttle(r, allowed))
               \/ ResolveLock(r) \/ ResolveLookup(r) \/ ResolveCount(r) \/ ClaimLost(r)
        <3>1. /\ UNCHANGED <<status, items, seen, key>>
              /\ \A q \in Requests \ {r} : pc'[q] = pc[q] /\ reply'[q] = reply[q]
              /\ pc'[r] \notin {"replay", "list"}
              /\ reply'[r] = reply[r] \/ reply'[r].code # "200"
            <4>1. CASE Gate(r) \/ ResolveLock(r) \/ ClaimLost(r)
                BY <2>0, <4>1 DEF Gate, ResolveLock, ClaimLost, TypeOK
            <4>2. CASE \E allowed \in BOOLEAN : Throttle(r, allowed)
                BY <2>0, <4>2 DEF Throttle, TypeOK
            <4>3. CASE ResolveLookup(r)
                BY <2>0, <4>3 DEF ResolveLookup, TypeOK
            <4>4. CASE ResolveCount(r)
                BY <2>0, <4>4 DEF ResolveCount, TypeOK
            <4>5. QED
                BY <2>8, <4>1, <4>2, <4>3, <4>4
        <3>2. /\ key' \in [Requests -> Keys]
              /\ \A k \in Keys : status'[k] = "done" <=> status[k] = "done"
              /\ \A q \in Requests \ {r} : key'[q] = key[q]
            BY <3>1 DEF TypeOK
        <3>3. reply'[r].code = "200" =>
                    status[key'[r]] = "done" /\ reply'[r].items = items[key'[r]]
            BY <3>1 DEF ResultInv
        <3>4. QED
            BY <3>1, <3>2, <3>3, QuietStep
    <2>9. QED
        BY <1>2, <2>1, <2>2, <2>3, <2>4, <2>5, <2>6, <2>7, <2>8 DEF Handler
<1>3. CASE \/ \E u \in Users : SetEntitlement(u)
           \/ Tick
           \/ UNCHANGED vars
    BY <1>3 DEF SetEntitlement, Tick, vars, ResultInv
<1>4. QED
    BY <1>1, <1>2, <1>3 DEF Next

LEMMA ResultCorrect ==
    ASSUME Timely, LeaseCoversParse
    PROVE  Spec => [](TypeOK /\ FlightInv /\ ResultInv)
<1>1. Init => FlightInv /\ ResultInv
    BY DEF Init, FlightInv, SingleFlight, ResultInv, Section, Calls, NoReply, Reply
<1>2. TypeOK /\ TypeOK' /\ FlightInv /\ ResultInv /\ [Next]_vars => FlightInv' /\ ResultInv'
    BY FlightInductive, ResultInductive
<1>3. QED
    BY <1>1, <1>2, TypeCorrect, PTL DEF Spec

\* A finished job is final: no late failure, second commit or new claim
\* touches its status or its garments, as long as every step keeps its bound.
THEOREM DoneIsFinalTheorem ==
    ASSUME Timely, LeaseCoversParse
    PROVE  Spec => DoneIsFinal
<1>1. TypeOK /\ FlightInv /\ ResultInv /\ [Next]_vars
        => [\A k \in Keys : status[k] = "done" =>
                status'[k] = "done" /\ items'[k] = items[k]]_vars
    BY DoneStep
<1>2. Spec => [](TypeOK /\ FlightInv /\ ResultInv)
    BY ResultCorrect
<1>3. QED
    BY <1>1, <1>2, PTL DEF Spec, DoneIsFinal

\* Every 200 carries exactly one set of garments, those of the photo asked for.
THEOREM AnswerTheorem ==
    ASSUME Timely, LeaseCoversParse
    PROVE  Spec => []AnswerCarriesGarments
<1>1. TypeOK /\ ResultInv => AnswerCarriesGarments
    <2>1. SUFFICES ASSUME TypeOK, ResultInv, NEW r \in Requests, reply[r].code = "200"
                   PROVE  /\ reply[r].items = items[key[r]]
                          /\ Cardinality(reply[r].items) = 1
        BY DEF AnswerCarriesGarments
    <2>2. key[r] \in Keys /\ status[key[r]] = "done" /\ reply[r].items = items[key[r]]
        BY <2>1 DEF TypeOK, ResultInv
    <2>3. PICK x \in Requests : items[key[r]] = {x}
        BY <2>1, <2>2 DEF ResultInv
    <2>4. QED
        BY <2>2, <2>3, FS_Singleton
<1>2. QED
    BY <1>1, ResultCorrect, PTL

-----------------------------------------------------------------------------
(* Refinement of ParseOnce.                                                *)

\* The workers of every photo stay the same while a request stays on its side
\* of the section's boundary.
LEMMA SameWorkers ==
    ASSUME NEW r \in Requests,
           pc'[r] \in Section <=> pc[r] \in Section,
           pc[r] \in Section => key'[r] = key[r],
           \A q \in Requests \ {r} : pc'[q] = pc[q] /\ key'[q] = key[q]
    PROVE  \A k \in Keys : Workers(k)' = Workers(k)
BY DEF Workers

\* A request that works on a photo is its only worker.
LEMMA OnlyWorker ==
    ASSUME FlightInv, NEW r \in Requests, pc[r] \in Section
    PROVE  Workers(key[r]) = {r}
BY DEF FlightInv, SingleFlight, Workers

\* ParseOnce sees nothing of a step that keeps phases, workers and garments.
LEMMA OnceStutters ==
    ASSUME UNCHANGED items,
           \A k \in Keys : Phase(status[k])' = Phase(status[k]),
           \A k \in Keys : Workers(k)' = Workers(k)
    PROVE  UNCHANGED Once!vars
BY DEF Once!vars

\* A request takes up a photo nobody works on.
LEMMA ClaimBegins ==
    ASSUME TypeOK, FlightInv, NEW r \in Requests, NEW k \in Keys, key[r] = k, Claim(r)
    PROVE  Once!Next
<1>1. status[k] \in {"pending", "failed", "processing"} /\ lease[k] = 0
    BY DEF Claim, Claimable, TypeOK
<1>2. /\ pc[r] = "claim" /\ pc' = [pc EXCEPT ![r] = "mint"]
      /\ status' = [status EXCEPT ![k] = "processing"]
      /\ UNCHANGED <<items, key>>
    BY DEF Claim, Goto, locals
<1>3. \A q \in Requests : pc[q] \in Section => key[q] # k
    BY <1>1, RestValues DEF FlightInv, TypeOK
<1>4. Workers(k) = {}
    BY <1>3 DEF Workers
<1>5. Workers(k)' = {r}
    BY <1>2, <1>3 DEF Workers, TypeOK, Section, Calls
<1>6. \A j \in Keys \ {k} : Workers(j)' = Workers(j)
    BY <1>2 DEF Workers, TypeOK
<1>7. \A j \in Keys : Phase(status[j])' = Phase(status[j])
    BY <1>1, <1>2 DEF Phase, TypeOK
<1>8. Phase(status[k]) = "open"
    BY <1>1 DEF Phase
<1>9. Once!Begin(k, r)
    <2>1. /\ [j \in Keys |-> Workers(j)]' = [[j \in Keys |-> Workers(j)] EXCEPT ![k] = {r}]
          /\ [j \in Keys |-> Phase(status[j])]' = [j \in Keys |-> Phase(status[j])]
        BY <1>5, <1>6, <1>7
    <2>2. items' = items
        BY <1>2
    <2>3. QED
        BY <1>1, <1>4, <1>8, <2>1, <2>2 DEF Once!Begin
<1>10. QED
    BY <1>1, <1>9 DEF Once!Next

\* A request leaves the section without a result: markFailed, or its death.
LEMMA GivesUp ==
    ASSUME TypeOK, FlightInv, NEW r \in Requests, NEW k \in Keys, key[r] = k,
           pc[r] \in Section, pc'[r] \notin Section,
           \A q \in Requests \ {r} : pc'[q] = pc[q],
           UNCHANGED <<items, key>>,
           \A j \in Keys : Phase(status[j])' = Phase(status[j])
    PROVE  Once!Next
<1>1. Workers(k) = {r}
    BY OnlyWorker
<1>2. Workers(k)' = {} /\ \A j \in Keys \ {k} : Workers(j)' = Workers(j)
    BY <1>1 DEF Workers
<1>3. Phase(status[k]) = "open"
    BY DEF FlightInv, Phase
<1>4. Once!GiveUp(k, r)
    <2>1. /\ [j \in Keys |-> Workers(j)]' = [[j \in Keys |-> Workers(j)] EXCEPT ![k] = {}]
          /\ [j \in Keys |-> Phase(status[j])]' = [j \in Keys |-> Phase(status[j])]
        BY <1>2
    <2>2. QED
        BY <1>1, <1>3, <2>1 DEF Once!GiveUp
<1>5. QED
    BY <1>4 DEF Once!Next

\* The commit ends the photo with the garments of the only worker.
LEMMA CommitFinishes ==
    ASSUME TypeOK, FlightInv, ResultInv,
           NEW r \in Requests, NEW k \in Keys, key[r] = k, CommitApply(r)
    PROVE  Once!Next
<1>1. /\ pc[r] = "apply" /\ pc' = [pc EXCEPT ![r] = "list"]
      /\ status' = [status EXCEPT ![k] = "done"]
      /\ items' = [items EXCEPT ![k] = (@ \ seen[r]) \cup {r}]
      /\ UNCHANGED key
    BY DEF CommitApply, Goto
<1>2. pc[r] \in Section /\ status[k] = "processing"
    BY <1>1 DEF FlightInv, Section
<1>3. items[k] = {} /\ seen[r] = {}
    BY <1>2 DEF ResultInv
<1>4. items' = [items EXCEPT ![k] = {r}]
    BY <1>1, <1>3
<1>5. Workers(k) = {r}
    BY <1>2, OnlyWorker
<1>6. Workers(k)' = {} /\ \A j \in Keys \ {k} : Workers(j)' = Workers(j)
    BY <1>1, <1>5 DEF Workers, TypeOK, Section, Calls
<1>7. /\ Phase(status[k]) = "open" /\ Phase(status[k])' = "done"
      /\ \A j \in Keys \ {k} : Phase(status[j])' = Phase(status[j])
    BY <1>1, <1>2 DEF Phase, TypeOK
<1>8. Once!Finish(k, r)
    <2>1. /\ [j \in Keys |-> Workers(j)]' = [[j \in Keys |-> Workers(j)] EXCEPT ![k] = {}]
          /\ [j \in Keys |-> Phase(status[j])]'
                = [[j \in Keys |-> Phase(status[j])] EXCEPT ![k] = "done"]
        BY <1>6, <1>7
    <2>2. QED
        BY <1>4, <1>5, <1>7, <2>1 DEF Once!Finish
<1>9. QED
    BY <1>8 DEF Once!Next

\* The first submission of a photo registers it.
LEMMA InsertRegisters ==
    ASSUME TypeOK, FlightInv, NEW r \in Requests, NEW k \in Keys, key[r] = k,
           ResolveInsert(r)
    PROVE  Once!Next \/ UNCHANGED Once!vars
<1>1. /\ pc[r] = "insert" /\ pc' = [pc EXCEPT ![r] = "read"]
      /\ status' = [status EXCEPT ![k] = IF @ = "absent" THEN "pending" ELSE @]
      /\ UNCHANGED <<items, key>>
    BY DEF ResolveInsert, Goto, locals
<1>2. \A j \in Keys : Workers(j)' = Workers(j)
    BY <1>1 DEF Workers, TypeOK, Section, Calls
<1>3. CASE status[k] # "absent"
    <2>1. \A j \in Keys : Phase(status[j])' = Phase(status[j])
        BY <1>1, <1>3 DEF TypeOK
    <2>2. QED
        BY <1>1, <1>2, <2>1, OnceStutters
<1>4. CASE status[k] = "absent"
    <2>1. /\ Phase(status[k]) = "none" /\ Phase(status[k])' = "open"
          /\ \A j \in Keys \ {k} : Phase(status[j])' = Phase(status[j])
        BY <1>1, <1>4 DEF Phase, TypeOK
    <2>2. /\ [j \in Keys |-> Workers(j)]' = [j \in Keys |-> Workers(j)]
          /\ [j \in Keys |-> Phase(status[j])]'
                = [[j \in Keys |-> Phase(status[j])] EXCEPT ![k] = "open"]
        BY <1>2, <2>1
    <2>3. Once!Register(k)
        BY <1>1, <2>1, <2>2 DEF Once!Register
    <2>4. QED
        BY <2>3 DEF Once!Next
<1>5. QED
    BY <1>3, <1>4

LEMMA OnceStep ==
    ASSUME TypeOK, FlightInv, ResultInv, [Next]_vars
    PROVE  Once!Next \/ UNCHANGED Once!vars
<1> USE DEF Goto, Answer, locals, rows
<1>1. ASSUME NEW r \in Requests, Client(r) PROVE UNCHANGED Once!vars
    <2>1. /\ pc[r] \notin Section /\ pc'[r] \notin Section
          /\ \A q \in Requests \ {r} : pc'[q] = pc[q] /\ key'[q] = key[q]
          /\ UNCHANGED <<items, status>>
        BY <1>1 DEF Client, Start, TypeOK, Section, Calls
    <2>2. QED
        BY <2>1, SameWorkers, OnceStutters
<1>2. ASSUME NEW r \in Requests, Die(r) PROVE Once!Next \/ UNCHANGED Once!vars
    <2>1. /\ pc'[r] \notin Section
          /\ \A q \in Requests \ {r} : pc'[q] = pc[q]
          /\ UNCHANGED <<items, status, key>>
        BY <1>2 DEF Die, InternalError, TypeOK, Section, Calls
    <2>2. CASE pc[r] \in Section
        <3>1. PICK k \in Keys : key[r] = k
            BY DEF TypeOK
        <3>2. QED
            BY <2>1, <2>2, <3>1, GivesUp
    <2>3. CASE pc[r] \notin Section
        BY <2>1, <2>3, SameWorkers, OnceStutters
    <2>4. QED
        BY <2>2, <2>3
<1>3. ASSUME NEW r \in Requests, Handler(r) PROVE Once!Next \/ UNCHANGED Once!vars
    <2>0. PICK k \in Keys : key[r] = k
        BY DEF TypeOK
    <2>1. CASE Claim(r)
        BY <2>0, <2>1, ClaimBegins
    <2>2. CASE MarkFailed(r)
        <3>1. /\ pc[r] = "failing" /\ pc' = [pc EXCEPT ![r] = "idle"]
              /\ status' = [status EXCEPT ![k] = "failed"]
              /\ UNCHANGED <<items, key>>
            BY <2>0, <2>2 DEF MarkFailed
        <3>2. pc[r] \in Section /\ pc'[r] \notin Section /\ status[k] = "processing"
            BY <2>0, <3>1 DEF FlightInv, TypeOK, Section, Calls
        <3>3. \A j \in Keys : Phase(status[j])' = Phase(status[j])
            BY <3>1, <3>2 DEF Phase, TypeOK
        <3>4. \A q \in Requests \ {r} : pc'[q] = pc[q]
            BY <3>1 DEF TypeOK
        <3>5. QED
            BY <2>0, <3>1, <3>2, <3>3, <3>4, GivesUp
    <2>3. CASE CommitApply(r)
        BY <2>0, <2>3, CommitFinishes
    <2>4. CASE ResolveInsert(r)
        BY <2>0, <2>4, InsertRegisters
    <2>5. ASSUME NEW call \in Calls, CallSucceeds(r, call) \/ CallFails(r, call)
          PROVE  UNCHANGED Once!vars
        <3>1. /\ pc[r] \in Section /\ pc'[r] \in Section
              /\ \A q \in Requests \ {r} : pc'[q] = pc[q]
              /\ UNCHANGED <<items, status, key>>
            <4>1. CASE CallSucceeds(r, call)
                BY <4>1, AfterCallType DEF CallSucceeds, TypeOK, Section
            <4>2. CASE CallFails(r, call)
                BY <4>2 DEF CallFails, TypeOK, Section
            <4>3. QED
                BY <2>5, <4>1, <4>2
        <3>2. QED
            BY <3>1, SameWorkers, OnceStutters
    <2>6. CASE CommitSnapshot(r)
        <3>1. /\ pc[r] \in Section /\ pc'[r] \in Section
              /\ \A q \in Requests \ {r} : pc'[q] = pc[q]
              /\ UNCHANGED <<items, status, key>>
            BY <2>6 DEF CommitSnapshot, TypeOK, Section
        <3>2. QED
            BY <3>1, SameWorkers, OnceStutters
    <2>7. CASE \/ Gate(r) \/ (\E allowed \in BOOLEAN : Throttle(r, allowed))
               \/ ResolveLock(r) \/ ResolveLookup(r) \/ ResolveCount(r)
               \/ ReadBack(r) \/ Replay(r) \/ List(r) \/ ClaimLost(r)
        <3>1. /\ pc[r] \notin Section /\ pc'[r] \notin Section
              /\ \A q \in Requests \ {r} : pc'[q] = pc[q]
              /\ UNCHANGED <<items, status, key>>
            <4> USE DEF TypeOK, Section, Calls
            <4>1. CASE Gate(r) \/ ResolveLock(r) \/ ClaimLost(r)
                BY <4>1 DEF Gate, ResolveLock, ClaimLost
            <4>2. CASE \E allowed \in BOOLEAN : Throttle(r, allowed)
                BY <4>2 DEF Throttle
            <4>3. CASE ResolveLookup(r)
                BY <4>3 DEF ResolveLookup
            <4>4. CASE ResolveCount(r)
                BY <4>4 DEF ResolveCount
            <4>5. CASE ReadBack(r) \/ Replay(r) \/ List(r)
                BY <4>5 DEF ReadBack, Replay, List, Respond200
            <4>6. QED
                BY <2>7, <4>1, <4>2, <4>3, <4>4, <4>5
        <3>2. QED
            BY <3>1, SameWorkers, OnceStutters
    <2>8. QED
        BY <1>3, <2>1, <2>2, <2>3, <2>4, <2>5, <2>6, <2>7 DEF Handler
<1>4. CASE \/ \E u \in Users : SetEntitlement(u)
           \/ Tick
           \/ UNCHANGED vars
    <2>1. UNCHANGED <<items, status, key, pc>>
        BY <1>4 DEF SetEntitlement, Tick, vars
    <2>2. QED
        BY <2>1 DEF Once!vars, Workers
<1>5. QED
    BY <1>1, <1>2, <1>3, <1>4 DEF Next

\* The request pipeline implements ParseOnce: with every step inside its bound,
\* a photo is worked on by one request at a time, an attempt may be given up
\* and taken over, and its garments appear once, together, at the end.
THEOREM RefinesParseOnce ==
    ASSUME Timely, LeaseCoversParse
    PROVE  Spec => ImplementsParseOnce
<1>1. Init => Once!Init
    BY DEF Init, Once!Init, Phase, Workers, Section, Calls
<1>2. TypeOK /\ FlightInv /\ ResultInv /\ [Next]_vars => [Once!Next]_(Once!vars)
    BY OnceStep
<1>3. Spec => [](TypeOK /\ FlightInv /\ ResultInv)
    BY ResultCorrect
<1>4. QED
    BY <1>1, <1>2, <1>3, PTL DEF Spec, ImplementsParseOnce, Once!Spec
=============================================================================
