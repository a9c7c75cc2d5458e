--------------------------- MODULE WardrobeProofs ---------------------------
(* Theorems about WardrobeStore. *)
EXTENDS WardrobeStore, TLAPS

-----------------------------------------------------------------------------
(* The strengthening: what the row locks and the foreign keys guarantee      *)
(* while transactions are open.                                             *)

\* An uncommitted tap is the only one of its client_id and keeps its garment there.
HeldWear == \A r \in Requests : pc[r] = "wearCommit" =>
    /\ wear[job[r].tap] = NoRow /\ job[r].item \in present
    /\ \A s \in Requests : pc[s] = "wearCommit" /\ job[s].tap = job[r].tap => s = r

\* A merge that has re-pointed a wear row keeps its keeper there.
HeldKeep == \A r \in Requests : moved[r] # {} => Merging(r) /\ job[r].keep \in present

\* What a merge has re-pointed are wear rows of its discard, and of no other merge.
MovedRows == \A r \in Requests : \A t \in moved[r] :
    /\ wear[t] # NoRow /\ wear[t].item = job[r].discard
    /\ \A s \in Requests : t \in moved[s] => s = r

\* Once a merge has deleted its discard it has every wear row of it, and nobody
\* holds the discard or is about to.
Deleted == \A r \in Requests : pc[r] = "mergeCommit" =>
    /\ WearOf(job[r].discard) \subseteq moved[r]
    /\ \A s \in Requests : moved[s] # {} => job[s].keep # job[r].discard
    /\ \A s \in Requests : pc[s] = "wearCommit" => job[s].item # job[r].discard

LockInv == HeldWear /\ HeldKeep /\ MovedRows /\ Deleted

-----------------------------------------------------------------------------
(* Types.                                                                  *)

\* The part of TypeOK that the control of a request can disturb.
ControlTyped ==
    /\ pc \in [Requests -> Steps]
    /\ job \in [Requests -> Jobs]
    /\ \A r \in Requests :
         /\ pc[r] \in {"wearCommit", "wearLookup"} => job[r] \in WearJobs
         /\ pc[r] \in {"outfitCommit", "outfitLookup"} => job[r] \in OutfitJobs
         /\ Merging(r) => job[r] \in MergeJobs
    /\ moved \in [Requests -> SUBSET Taps]
    /\ dropped \in [Requests -> SUBSET Outfits]
    /\ repointed \in [Requests -> SUBSET Outfits]

\* Entering a transaction leaves the control typed.
LEMMA EnterTyped ==
    ASSUME TypeOK, NEW r \in Requests, NEW to \in Steps, NEW j \in Jobs, Enter(r, to, j),
           to \in {"wearCommit", "wearLookup"} => j \in WearJobs,
           to \in {"outfitCommit", "outfitLookup"} => j \in OutfitJobs,
           to \in MergeSteps => j \in MergeJobs,
           UNCHANGED pending
    PROVE  ControlTyped'
<1>1. pc' = [pc EXCEPT ![r] = to] /\ job' = [job EXCEPT ![r] = j]
  BY DEF Enter, Goto
<1>2. ASSUME NEW s \in Requests
      PROVE  /\ pc'[s] \in {"wearCommit", "wearLookup"} => job'[s] \in WearJobs
             /\ pc'[s] \in {"outfitCommit", "outfitLookup"} => job'[s] \in OutfitJobs
             /\ Merging(s)' => job'[s] \in MergeJobs
  BY <1>1, <1>2 DEF TypeOK, Merging
<1>. QED
  BY <1>1, <1>2 DEF TypeOK, ControlTyped, pending

\* So does ending one, ...
LEMMA EndTyped ==
    ASSUME TypeOK, NEW r \in Requests, End(r)
    PROVE  ControlTyped'
<1>1. /\ pc' = [pc EXCEPT ![r] = "idle"]
      /\ job' = [job EXCEPT ![r] = NoJob]
  BY DEF End
<1>2. ASSUME NEW s \in Requests
      PROVE  /\ pc'[s] \in {"wearCommit", "wearLookup"} => job'[s] \in WearJobs
             /\ pc'[s] \in {"outfitCommit", "outfitLookup"} => job'[s] \in OutfitJobs
             /\ Merging(s)' => job'[s] \in MergeJobs
  BY <1>1, <1>2 DEF TypeOK, Merging, MergeSteps
<1>. QED
  BY <1>1, <1>2 DEF TypeOK, ControlTyped, End, Steps, Jobs

\* ... and going from one statement of a merge to the next.
LEMMA MergeTyped ==
    ASSUME TypeOK, NEW r \in Requests, NEW from \in MergeSteps, NEW to \in MergeSteps,
           Goto(r, from, to), UNCHANGED job,
           moved' \in [Requests -> SUBSET Taps],
           dropped' \in [Requests -> SUBSET Outfits],
           repointed' \in [Requests -> SUBSET Outfits]
    PROVE  ControlTyped'
<1>1. pc[r] = from /\ pc' = [pc EXCEPT ![r] = to]
  BY DEF Goto
<1>2. ASSUME NEW s \in Requests
      PROVE  /\ pc'[s] \in {"wearCommit", "wearLookup"} => job'[s] \in WearJobs
             /\ pc'[s] \in {"outfitCommit", "outfitLookup"} => job'[s] \in OutfitJobs
             /\ Merging(s)' => job'[s] \in MergeJobs
  BY <1>1, <1>2 DEF TypeOK, Merging, MergeSteps
<1>. QED
  BY <1>1, <1>2 DEF TypeOK, ControlTyped, Steps

\* The part of TypeOK about committed rows and history.
RowsTyped ==
    /\ present \subseteq Garments
    /\ dirty \subseteq present
    /\ outfits \subseteq Outfits
    /\ members \subseteq Outfits \X Garments
    /\ wear \in [Taps -> WearRows \cup {NoRow}]
    /\ logged \in [Taps -> Garments \cup {NoRow}]
    /\ composed \in [Outfits -> SUBSET Garments]
    /\ into \in [Garments -> Garments]
    /\ flips \in [Taps -> Nat]

LEMMA TypeSplit == (TypeOK <=> ControlTyped /\ RowsTyped) /\ (TypeOK' <=> ControlTyped' /\ RowsTyped')
  BY DEF TypeOK, ControlTyped, RowsTyped

LEMMA RowsUnchanged == ASSUME TypeOK, UNCHANGED <<rows, history>> PROVE RowsTyped'
  BY DEF TypeOK, RowsTyped, rows, history

LEMMA TypeInitial == Init => TypeOK
  BY DEF Init, TypeOK, Steps, Jobs, Merging, MergeSteps

LEMMA TypeInductive == TypeOK /\ LockInv /\ [Next]_vars => TypeOK'
<1>. SUFFICES ASSUME TypeOK, LockInv, [Next]_vars PROVE ControlTyped' /\ RowsTyped'
  BY TypeSplit
<1>1. CASE UNCHANGED vars
  BY <1>1 DEF TypeOK, ControlTyped, RowsTyped, vars, rows, pending, history, Merging
<1>2. ASSUME NEW r \in Requests, NEW j \in WearJobs, InsertWear(r, j)
      PROVE  ControlTyped' /\ RowsTyped'
  <2>1. RowsTyped'
    BY <1>2, RowsUnchanged DEF InsertWear
  <2>2. \E to \in {"wearLookup", "wearCommit"} : Enter(r, to, j)
    BY <1>2 DEF InsertWear
  <2>3. ControlTyped'
    BY <1>2, <2>2, EnterTyped DEF InsertWear, Steps, MergeSteps, Jobs
  <2>. QED  BY <2>1, <2>3
<1>3. ASSUME NEW r \in Requests, CommitWear(r) PROVE ControlTyped' /\ RowsTyped'
  <2>1. ControlTyped'
    BY <1>3, EndTyped DEF CommitWear
  <2>2. job[r] \in WearJobs
    BY <1>3 DEF CommitWear, TypeOK
  <2>3. [item |-> job[r].item, outfit |-> job[r].outfit] \in WearRows /\ job[r].tap \in Taps
        /\ job[r].item \in Garments
    BY <2>2 DEF WearJobs, WearRows
  <2>4. flips' \in [Taps -> Nat]
    BY <1>3, <2>3 DEF CommitWear, TypeOK
  <2>5. wear' \in [Taps -> WearRows \cup {NoRow}] /\ logged' \in [Taps -> Garments \cup {NoRow}]
    BY <1>3, <2>3 DEF CommitWear, TypeOK
  <2>6. dirty' \subseteq present'
    BY <1>3 DEF CommitWear, TypeOK, LockInv, HeldWear
  <2>. QED  BY <1>3, <2>1, <2>4, <2>5, <2>6 DEF CommitWear, TypeOK, RowsTyped
<1>4. ASSUME NEW r \in Requests, NEW j \in OutfitJobs, InsertOutfit(r, j)
      PROVE  ControlTyped' /\ RowsTyped'
  <2>1. RowsTyped'
    BY <1>4, RowsUnchanged DEF InsertOutfit
  <2>2. \E to \in {"outfitLookup", "outfitCommit"} : Enter(r, to, j)
    BY <1>4 DEF InsertOutfit
  <2>3. ControlTyped'
    BY <1>4, <2>2, EnterTyped DEF InsertOutfit, Steps, MergeSteps, Jobs
  <2>. QED  BY <2>1, <2>3
<1>5. ASSUME NEW r \in Requests, CommitOutfit(r) PROVE ControlTyped' /\ RowsTyped'
  <2>1. ControlTyped'
    BY <1>5, EndTyped DEF CommitOutfit
  <2>2. job[r].outfit \in Outfits /\ job[r].items \in SUBSET Garments
    BY <1>5 DEF CommitOutfit, TypeOK, OutfitJobs
  <2>. QED  BY <1>5, <2>1, <2>2 DEF CommitOutfit, TypeOK, RowsTyped
<1>6. ASSUME NEW r \in Requests, NEW j \in MergeJobs, StartMerge(r, j)
      PROVE  ControlTyped' /\ RowsTyped'
  <2>1. RowsTyped'
    BY <1>6, RowsUnchanged DEF StartMerge
  <2>2. ControlTyped'
    BY <1>6, EnterTyped DEF StartMerge, Steps, MergeSteps, Jobs
  <2>. QED  BY <2>1, <2>2
<1>7. ASSUME NEW r \in Requests,
             MergeWear(r) \/ MergeDups(r) \/ MergeMembers(r) \/ MergeDelete(r)
      PROVE  ControlTyped' /\ RowsTyped'
  <2>1. RowsTyped'
    BY <1>7, RowsUnchanged DEF MergeWear, MergeDups, MergeMembers, MergeDelete
  <2>2. CASE MergeWear(r)
    <3>1. moved' \in [Requests -> SUBSET Taps]
      BY <2>2 DEF MergeWear, TypeOK, WearOf
    <3>. QED  BY <3>1, <2>1, <2>2, MergeTyped DEF MergeWear, TypeOK, MergeSteps
  <2>3. CASE MergeDups(r)
    <3>1. dropped' \in [Requests -> SUBSET Outfits]
      BY <2>3 DEF MergeDups, TypeOK, OutfitsOf
    <3>. QED  BY <3>1, <2>1, <2>3, MergeTyped DEF MergeDups, TypeOK, MergeSteps
  <2>4. CASE MergeMembers(r)
    <3>1. repointed' \in [Requests -> SUBSET Outfits]
      BY <2>4 DEF MergeMembers, TypeOK, OutfitsOf
    <3>. QED  BY <3>1, <2>1, <2>4, MergeTyped DEF MergeMembers, TypeOK, MergeSteps
  <2>5. CASE MergeDelete(r)
    BY <2>1, <2>5, MergeTyped DEF MergeDelete, TypeOK, MergeSteps, pending
  <2>. QED  BY <1>7, <2>2, <2>3, <2>4, <2>5
<1>8. ASSUME NEW r \in Requests, CommitMerge(r) PROVE ControlTyped' /\ RowsTyped'
  <2>1. ControlTyped'
    BY <1>8, EndTyped DEF CommitMerge
  <2>2. job[r] \in MergeJobs
    BY <1>8 DEF CommitMerge, TypeOK, Merging, MergeSteps
  <2>3. job[r].keep \in Garments /\ job[r].discard \in Garments
    BY <2>2 DEF MergeJobs
  <2>4. wear' \in [Taps -> WearRows \cup {NoRow}]
    <3>. SUFFICES ASSUME NEW t \in Taps PROVE wear'[t] \in WearRows \cup {NoRow}
      BY <1>8 DEF CommitMerge
    <3>1. CASE t \notin moved[r]
      BY <3>1, <1>8 DEF CommitMerge, TypeOK
    <3>2. CASE t \in moved[r] /\ wear[t] \in WearRows
      BY <3>2, <2>3, <1>8 DEF CommitMerge, WearRows
    <3>3. CASE t \in moved[r] /\ wear[t] = NoRow
      BY <3>3 DEF LockInv, MovedRows
    <3>. QED  BY <3>1, <3>2, <3>3 DEF TypeOK
  <2>5. into' \in [Garments -> Garments]
    BY <1>8, <2>3 DEF CommitMerge, TypeOK
  <2>6. members' \subseteq Outfits \X Garments
    BY <1>8, <2>3 DEF CommitMerge, TypeOK
  <2>. QED  BY <1>8, <2>1, <2>3, <2>4, <2>5, <2>6 DEF CommitMerge, TypeOK, RowsTyped
<1>9. ASSUME NEW r \in Requests, LookupWear(r) \/ LookupOutfit(r) \/ Rollback(r)
      PROVE  ControlTyped' /\ RowsTyped'
  BY <1>9, EndTyped, RowsUnchanged DEF LookupWear, LookupOutfit, Rollback
<1>10. ASSUME NEW g \in Garments, SetAvailability(g) PROVE ControlTyped' /\ RowsTyped'
  BY <1>10 DEF SetAvailability, TypeOK, ControlTyped, RowsTyped, pending, history, Merging
<1>11. ASSUME NEW o \in Outfits, DeleteOutfit(o) PROVE ControlTyped' /\ RowsTyped'
  <2>1. wear' \in [Taps -> WearRows \cup {NoRow}]
    BY <1>11 DEF DeleteOutfit, TypeOK, WearRows
  <2>. QED  BY <1>11, <2>1 DEF DeleteOutfit, TypeOK, ControlTyped, RowsTyped, pending, history, Merging
<1>. QED
  BY <1>1, <1>2, <1>3, <1>4, <1>5, <1>6, <1>7, <1>8, <1>9, <1>10, <1>11
     DEF Next, Append, Create, Merge

-----------------------------------------------------------------------------
(* The locks.  Most actions leave the wear rows and the garments alone and    *)
(* move one request: four lemmas cover them.                                *)

LEMMA LocksInitial == Init => LockInv
  BY DEF Init, LockInv, HeldWear, HeldKeep, MovedRows, Deleted

\* Nothing a lock protects changes, except perhaps the outfit of a wear row.
LEMMA FrameLocks ==
    ASSUME LockInv, UNCHANGED <<present, pc, job, moved>>,
           \A t \in Taps : wear'[t] = NoRow <=> wear[t] = NoRow,
           \A t \in Taps : wear[t] # NoRow => wear'[t].item = wear[t].item,
           TypeOK
    PROVE  LockInv'
<1>1. HeldWear'
  BY DEF LockInv, HeldWear, TypeOK, WearJobs
<1>2. HeldKeep'
  BY DEF LockInv, HeldKeep, Merging
<1>3. MovedRows'
  BY DEF LockInv, MovedRows, TypeOK
<1>4. Deleted'
  BY DEF LockInv, Deleted, WearOf
<1>. QED  BY <1>1, <1>2, <1>3, <1>4 DEF LockInv

\* A request starts, and has not written a wear row or deleted a garment.
LEMMA EnterLocks ==
    ASSUME TypeOK, LockInv, NEW r \in Requests, NEW to \in Steps \ {"wearCommit", "mergeCommit"},
           NEW j, Enter(r, to, j), UNCHANGED <<present, wear, moved>>
    PROVE  LockInv'
<1>1. pc[r] = "idle" /\ pc' = [pc EXCEPT ![r] = to] /\ job' = [job EXCEPT ![r] = j]
  BY DEF Enter, Goto
<1>2. moved[r] = {}
  BY <1>1 DEF LockInv, HeldKeep, Merging, MergeSteps
<1>3. \A s \in Requests \ {r} : pc'[s] = pc[s] /\ job'[s] = job[s]
  BY <1>1 DEF TypeOK
<1>4. pc'[r] = to
  BY <1>1 DEF TypeOK
<1>5. HeldWear'
  BY <1>3, <1>4 DEF LockInv, HeldWear
<1>6. HeldKeep'
  BY <1>2, <1>3 DEF LockInv, HeldKeep, Merging
<1>7. MovedRows'
  BY <1>2, <1>3 DEF LockInv, MovedRows
<1>8. Deleted'
  BY <1>2, <1>3, <1>4 DEF LockInv, Deleted, WearOf
<1>. QED  BY <1>5, <1>6, <1>7, <1>8 DEF LockInv

\* A merge goes to a statement before its DELETE of the garment has returned.
LEMMA GotoLocks ==
    ASSUME TypeOK, LockInv, NEW r \in Requests, NEW from \in MergeSteps,
           NEW to \in MergeSteps \ {"mergeCommit"},
           Goto(r, from, to), UNCHANGED <<present, wear, moved, job>>
    PROVE  LockInv'
<1>1. pc[r] = from /\ pc' = [pc EXCEPT ![r] = to]
  BY DEF Goto
<1>2. \A s \in Requests \ {r} : pc'[s] = pc[s]
  BY <1>1 DEF TypeOK
<1>3. pc'[r] = to
  BY <1>1 DEF TypeOK
<1>4. HeldWear'
  BY <1>2, <1>3 DEF LockInv, HeldWear, MergeSteps
<1>5. HeldKeep'
  BY <1>2, <1>3 DEF LockInv, HeldKeep, Merging
<1>6. MovedRows'
  BY DEF LockInv, MovedRows
<1>7. Deleted'
  BY <1>2, <1>3 DEF LockInv, Deleted, WearOf, MergeSteps
<1>. QED  BY <1>4, <1>5, <1>6, <1>7 DEF LockInv

\* A request ends without a garment or a wear row having changed.
LEMMA EndLocks ==
    ASSUME TypeOK, LockInv, NEW r \in Requests, End(r), UNCHANGED <<present, wear>>
    PROVE  LockInv'
<1>1. \A s \in Requests \ {r} : pc'[s] = pc[s] /\ job'[s] = job[s] /\ moved'[s] = moved[s]
  BY DEF End, TypeOK
<1>2. pc'[r] = "idle" /\ moved'[r] = {}
  BY DEF End, TypeOK
<1>3. HeldWear'
  BY <1>1, <1>2 DEF LockInv, HeldWear
<1>4. HeldKeep'
  BY <1>1, <1>2 DEF LockInv, HeldKeep, Merging
<1>5. MovedRows'
  BY <1>1, <1>2 DEF LockInv, MovedRows
<1>6. Deleted'
  BY <1>1, <1>2 DEF LockInv, Deleted, WearOf
<1>. QED  BY <1>3, <1>4, <1>5, <1>6 DEF LockInv

\* The insert of a tap that wins takes the locks HeldWear describes.
LEMMA InsertLocks ==
    ASSUME TypeOK, LockInv, NEW r \in Requests, NEW j \in WearJobs, InsertWear(r, j),
           wear[j.tap] = NoRow
    PROVE  LockInv'
<1>1. /\ pc[r] = "idle" /\ pc' = [pc EXCEPT ![r] = "wearCommit"]
      /\ job' = [job EXCEPT ![r] = j]
      /\ UNCHANGED <<present, wear, moved>>
      /\ Settled(j.item) /\ j.item \in present
      /\ \A s \in Requests : ~(pc[s] = "wearCommit" /\ job[s].tap = j.tap)
  BY DEF InsertWear, Enter, Goto, rows, pending
<1>2. moved[r] = {}
  BY <1>1 DEF LockInv, HeldKeep, Merging, MergeSteps
<1>3. \A s \in Requests \ {r} : pc'[s] = pc[s] /\ job'[s] = job[s]
  BY <1>1 DEF TypeOK
<1>4. pc'[r] = "wearCommit" /\ job'[r] = j
  BY <1>1 DEF TypeOK
<1>5. HeldWear'
  BY <1>1, <1>3, <1>4 DEF LockInv, HeldWear
<1>6. HeldKeep'
  BY <1>1, <1>2, <1>3 DEF LockInv, HeldKeep, Merging
<1>7. MovedRows'
  BY <1>1, <1>2, <1>3 DEF LockInv, MovedRows
<1>8. Deleted'
  <2>. SUFFICES ASSUME NEW s \in Requests, pc'[s] = "mergeCommit"
       PROVE /\ WearOf(job[s].discard)' \subseteq moved'[s]
             /\ \A q \in Requests : moved'[q] # {} => job'[q].keep # job'[s].discard
             /\ \A q \in Requests : pc'[q] = "wearCommit" => job'[q].item # job'[s].discard
    BY DEF Deleted
  <2>1. s # r /\ pc[s] = "mergeCommit" /\ job'[s] = job[s]
    BY <1>3, <1>4
  <2>2. j.item # job[s].discard
    BY <1>1, <2>1 DEF Settled, Deletes
  <2>. QED  BY <1>1, <1>2, <1>3, <1>4, <2>1, <2>2 DEF LockInv, Deleted, WearOf
<1>. QED  BY <1>5, <1>6, <1>7, <1>8 DEF LockInv

\* The tap commits: the row it adds belongs to no merge.
LEMMA CommitWearLocks ==
    ASSUME TypeOK, LockInv, NEW r \in Requests, CommitWear(r)
    PROVE  LockInv'
<1>1. /\ pc[r] = "wearCommit" /\ End(r) /\ UNCHANGED present
      /\ wear' = [wear EXCEPT ![job[r].tap] = [item |-> job[r].item, outfit |-> job[r].outfit]]
  BY DEF CommitWear
<1>2. \A s \in Requests \ {r} : pc'[s] = pc[s] /\ job'[s] = job[s] /\ moved'[s] = moved[s]
  BY <1>1 DEF End, TypeOK
<1>3. pc'[r] = "idle" /\ moved'[r] = {} /\ job[r].tap \in Taps
  BY <1>1 DEF End, TypeOK, WearJobs
<1>4. \A t \in Taps : t # job[r].tap => wear'[t] = wear[t]
  BY <1>1 DEF TypeOK
<1>5. wear'[job[r].tap].item = job[r].item
  BY <1>1, <1>3 DEF TypeOK
<1>6. wear[job[r].tap] = NoRow
  BY <1>1 DEF LockInv, HeldWear
<1>7. HeldWear'
  BY <1>1, <1>2, <1>3, <1>4 DEF LockInv, HeldWear, TypeOK, WearJobs
<1>8. HeldKeep'
  BY <1>1, <1>2, <1>3 DEF LockInv, HeldKeep, Merging
<1>9. MovedRows'
  BY <1>2, <1>3, <1>4, <1>6 DEF LockInv, MovedRows, TypeOK
<1>10. Deleted'
  BY <1>1, <1>2, <1>3, <1>4, <1>5 DEF LockInv, Deleted, WearOf
<1>. QED  BY <1>7, <1>8, <1>9, <1>10 DEF LockInv

\* The first UPDATE of a merge takes the wear rows of the discard.
LEMMA MergeWearLocks ==
    ASSUME TypeOK, LockInv, NEW r \in Requests, MergeWear(r)
    PROVE  LockInv'
<1>1. /\ pc[r] = "mergeWear" /\ pc' = [pc EXCEPT ![r] = "mergeDups"]
      /\ \A s \in Requests : moved[s] \cap WearOf(job[r].discard) = {}
      /\ WearOf(job[r].discard) # {} => job[r].keep \in present /\ Settled(job[r].keep)
      /\ moved' = [moved EXCEPT ![r] = WearOf(job[r].discard)]
      /\ UNCHANGED <<present, wear, job>>
  BY DEF MergeWear, Goto, rows
<1>2. \A s \in Requests \ {r} : pc'[s] = pc[s] /\ moved'[s] = moved[s]
  BY <1>1 DEF TypeOK
<1>3. pc'[r] = "mergeDups" /\ moved'[r] = WearOf(job[r].discard)
  BY <1>1 DEF TypeOK
<1>4. HeldWear'
  BY <1>1, <1>2, <1>3 DEF LockInv, HeldWear
<1>5. HeldKeep'
  BY <1>1, <1>2, <1>3 DEF LockInv, HeldKeep, Merging, MergeSteps
<1>6. MovedRows'
  BY <1>1, <1>2, <1>3 DEF LockInv, MovedRows, WearOf
<1>7. Deleted'
  <2>. SUFFICES ASSUME NEW s \in Requests, pc'[s] = "mergeCommit"
       PROVE /\ WearOf(job[s].discard)' \subseteq moved'[s]
             /\ \A q \in Requests : moved'[q] # {} => job'[q].keep # job'[s].discard
             /\ \A q \in Requests : pc'[q] = "wearCommit" => job'[q].item # job'[s].discard
    BY DEF Deleted
  <2>1. s # r /\ pc[s] = "mergeCommit"
    BY <1>2, <1>3
  <2>2. moved'[r] # {} => job[r].keep # job[s].discard
    BY <1>1, <1>3, <2>1 DEF Settled, Deletes
  <2>. QED  BY <1>1, <1>2, <1>3, <2>1, <2>2 DEF LockInv, Deleted, WearOf
<1>. QED  BY <1>4, <1>5, <1>6, <1>7 DEF LockInv

\* The DELETE of the discard returns when nobody holds it.
LEMMA MergeDeleteLocks ==
    ASSUME TypeOK, LockInv, NEW r \in Requests, MergeDelete(r)
    PROVE  LockInv'
<1>1. /\ pc[r] = "mergeDelete" /\ pc' = [pc EXCEPT ![r] = "mergeCommit"]
      /\ \A s \in Requests \ {r} : ~KeyShares(s, job[r].discard)
      /\ WearOf(job[r].discard) \subseteq moved[r]
      /\ UNCHANGED <<present, wear, job, moved>>
  BY DEF MergeDelete, Goto, rows, pending
<1>2. \A s \in Requests \ {r} : pc'[s] = pc[s]
  BY <1>1 DEF TypeOK
<1>3. pc'[r] = "mergeCommit"
  BY <1>1 DEF TypeOK
<1>4. job[r].keep # job[r].discard
  BY <1>1 DEF TypeOK, Merging, MergeSteps, MergeJobs
<1>5. \A s \in Requests \ {r} :
        /\ moved[s] # {} => job[s].keep # job[r].discard
        /\ pc[s] = "wearCommit" => job[s].item # job[r].discard
  BY <1>1 DEF KeyShares, LockInv, HeldKeep
<1>6. HeldWear'
  BY <1>1, <1>2, <1>3 DEF LockInv, HeldWear
<1>7. HeldKeep'
  BY <1>1, <1>2, <1>3 DEF LockInv, HeldKeep, Merging, MergeSteps
<1>8. MovedRows'
  BY <1>1 DEF LockInv, MovedRows
<1>9. Deleted'
  BY <1>1, <1>2, <1>3, <1>4, <1>5 DEF LockInv, Deleted, WearOf
<1>. QED  BY <1>6, <1>7, <1>8, <1>9 DEF LockInv

\* The merge commits: rows it moved now name the keeper, the discard is gone.
LEMMA CommitMergeLocks ==
    ASSUME TypeOK, LockInv, NEW r \in Requests, CommitMerge(r)
    PROVE  LockInv'
<1>1. /\ pc[r] = "mergeCommit" /\ End(r) /\ present' = present \ {job[r].discard}
      /\ wear' = [t \in Taps |-> IF t \in moved[r] THEN [wear[t] EXCEPT !.item = job[r].keep]
                                                   ELSE wear[t]]
  BY DEF CommitMerge
<1>2. \A s \in Requests \ {r} : pc'[s] = pc[s] /\ job'[s] = job[s] /\ moved'[s] = moved[s]
  BY <1>1 DEF End, TypeOK
<1>3. pc'[r] = "idle" /\ moved'[r] = {}
  BY <1>1 DEF End, TypeOK
<1>4. job[r].keep \in Garments
  BY <1>1 DEF TypeOK, Merging, MergeSteps, MergeJobs
<1>5. \A t \in Taps : t \notin moved[r] => wear'[t] = wear[t]
  BY <1>1
<1>6. \A t \in moved[r] : wear'[t] # NoRow /\ wear[t] # NoRow /\ wear'[t].item = job[r].keep
  <2>. SUFFICES ASSUME NEW t \in moved[r]
       PROVE  wear'[t] # NoRow /\ wear[t] # NoRow /\ wear'[t].item = job[r].keep
    OBVIOUS
  <2>1. t \in Taps /\ wear[t] # NoRow
    BY DEF LockInv, MovedRows, TypeOK
  <2>2. wear[t] \in WearRows
    BY <2>1 DEF TypeOK
  <2>3. wear'[t] = [wear[t] EXCEPT !.item = job[r].keep]
    BY <1>1, <2>1
  <2>4. wear'[t] \in WearRows /\ wear'[t].item = job[r].keep
    BY <1>4, <2>2, <2>3 DEF WearRows
  <2>. QED  BY <2>1, <2>4, ConstantsAssumption
<1>7. \A s \in Requests \ {r} : moved[s] \cap moved[r] = {}
  BY DEF LockInv, MovedRows
<1>8. HeldWear'
  <2>. SUFFICES ASSUME NEW s \in Requests \ {r}, pc[s] = "wearCommit"
       PROVE /\ wear'[job[s].tap] = NoRow /\ job[s].item \in present'
             /\ \A q \in Requests : pc'[q] = "wearCommit" /\ job'[q].tap = job[s].tap => q = s
    BY <1>2, <1>3 DEF HeldWear
  <2>1. job[s].tap \in Taps /\ wear[job[s].tap] = NoRow /\ job[s].item \in present
    BY DEF TypeOK, WearJobs, LockInv, HeldWear
  <2>2. job[s].tap \notin moved[r]
    BY <2>1 DEF LockInv, MovedRows
  <2>3. job[s].item # job[r].discard
    BY <1>1 DEF LockInv, Deleted
  <2>4. \A q \in Requests : pc'[q] = "wearCommit" /\ job'[q].tap = job[s].tap => q = s
    BY <1>2, <1>3 DEF LockInv, HeldWear
  <2>. QED  BY <1>1, <1>5, <2>1, <2>2, <2>3, <2>4
<1>9. HeldKeep'
  BY <1>1, <1>2, <1>3 DEF LockInv, HeldKeep, Merging, Deleted
<1>10. MovedRows'
  BY <1>2, <1>3, <1>5, <1>7 DEF LockInv, MovedRows, TypeOK
<1>11. Deleted'
  <2>. SUFFICES ASSUME NEW s \in Requests \ {r}, pc[s] = "mergeCommit"
       PROVE /\ WearOf(job[s].discard)' \subseteq moved'[s]
             /\ \A q \in Requests : moved'[q] # {} => job'[q].keep # job'[s].discard
             /\ \A q \in Requests : pc'[q] = "wearCommit" => job'[q].item # job'[s].discard
    BY <1>2, <1>3 DEF Deleted
  <2>1. \A q \in Requests : moved'[q] # {} => job'[q].keep # job'[s].discard
    BY <1>2, <1>3 DEF LockInv, Deleted
  <2>2. \A q \in Requests : pc'[q] = "wearCommit" => job'[q].item # job'[s].discard
    BY <1>2, <1>3 DEF LockInv, Deleted
  <2>3. WearOf(job[s].discard)' \subseteq moved'[s]
    <3>. SUFFICES ASSUME NEW t \in Taps, wear'[t] # NoRow, wear'[t].item = job[s].discard
         PROVE  t \in moved[s]
      BY <1>2 DEF WearOf
    <3>1. CASE t \in moved[r]
      BY <3>1, <1>1, <1>6 DEF LockInv, Deleted
    <3>2. CASE t \notin moved[r]
      BY <3>2, <1>5 DEF LockInv, Deleted, WearOf
    <3>. QED  BY <3>1, <3>2
  <2>. QED  BY <2>1, <2>2, <2>3
<1>. QED  BY <1>8, <1>9, <1>10, <1>11 DEF LockInv

\* ON DELETE SET NULL touches the outfit of a wear row and nothing else.
LEMMA OutfitLeavesWear ==
    ASSUME TypeOK, NEW o \in Outfits, DeleteOutfit(o)
    PROVE  \A t \in Taps : /\ wear'[t] = NoRow <=> wear[t] = NoRow
                           /\ wear[t] # NoRow => wear'[t].item = wear[t].item
<1>. SUFFICES ASSUME NEW t \in Taps
     PROVE  /\ wear'[t] = NoRow <=> wear[t] = NoRow
            /\ wear[t] # NoRow => wear'[t].item = wear[t].item
  OBVIOUS
<1>1. CASE wear[t] = NoRow
  BY <1>1 DEF DeleteOutfit
<1>2. CASE wear[t] # NoRow /\ wear[t].outfit = o
  <2>1. wear'[t] = [wear[t] EXCEPT !.outfit = NoOutfit] /\ wear[t] \in WearRows
    BY <1>2 DEF DeleteOutfit, TypeOK
  <2>2. wear'[t] \in WearRows /\ wear'[t].item = wear[t].item
    BY <2>1 DEF WearRows
  <2>. QED  BY <1>2, <2>2, ConstantsAssumption
<1>3. CASE wear[t] # NoRow /\ wear[t].outfit # o
  BY <1>3 DEF DeleteOutfit
<1>. QED  BY <1>1, <1>2, <1>3

LEMMA LocksInductive == TypeOK /\ LockInv /\ [Next]_vars => LockInv'
<1>. SUFFICES ASSUME TypeOK, LockInv, [Next]_vars PROVE LockInv'
  OBVIOUS
<1>1. CASE UNCHANGED vars
  BY <1>1, FrameLocks DEF vars, rows, pending
<1>2. ASSUME NEW r \in Requests, NEW j \in WearJobs, InsertWear(r, j) PROVE LockInv'
  <2>1. CASE wear[j.tap] = NoRow
    BY <1>2, <2>1, InsertLocks
  <2>2. CASE wear[j.tap] # NoRow
    BY <1>2, <2>2, EnterLocks DEF InsertWear, Steps, rows, pending
  <2>. QED  BY <2>1, <2>2
<1>3. ASSUME NEW r \in Requests, CommitWear(r) PROVE LockInv'
  BY <1>3, CommitWearLocks
<1>4. ASSUME NEW r \in Requests, NEW j \in OutfitJobs, InsertOutfit(r, j) PROVE LockInv'
  <2>1. \E to \in {"outfitLookup", "outfitCommit"} : Enter(r, to, j)
    BY <1>4 DEF InsertOutfit
  <2>. QED  BY <1>4, <2>1, EnterLocks DEF InsertOutfit, Steps, rows, pending
<1>5. ASSUME NEW r \in Requests, CommitOutfit(r) PROVE LockInv'
  BY <1>5, EndLocks DEF CommitOutfit
<1>6. ASSUME NEW r \in Requests, NEW j \in MergeJobs, StartMerge(r, j) PROVE LockInv'
  BY <1>6, EnterLocks DEF StartMerge, Steps, MergeSteps, rows, pending
<1>7. ASSUME NEW r \in Requests, MergeWear(r) PROVE LockInv'
  BY <1>7, MergeWearLocks
<1>8. ASSUME NEW r \in Requests, MergeDups(r) PROVE LockInv'
  BY <1>8, GotoLocks DEF MergeDups, MergeSteps, rows
<1>9. ASSUME NEW r \in Requests, MergeMembers(r) PROVE LockInv'
  BY <1>9, GotoLocks DEF MergeMembers, MergeSteps, rows
<1>10. ASSUME NEW r \in Requests, MergeDelete(r) PROVE LockInv'
  BY <1>10, MergeDeleteLocks
<1>11. ASSUME NEW r \in Requests, CommitMerge(r) PROVE LockInv'
  BY <1>11, CommitMergeLocks
<1>12. ASSUME NEW r \in Requests, LookupWear(r) \/ LookupOutfit(r) \/ Rollback(r) PROVE LockInv'
  BY <1>12, EndLocks DEF LookupWear, LookupOutfit, Rollback, rows
<1>13. ASSUME NEW g \in Garments, SetAvailability(g) PROVE LockInv'
  BY <1>13, FrameLocks DEF SetAvailability, pending
<1>14. ASSUME NEW o \in Outfits, DeleteOutfit(o) PROVE LockInv'
  BY <1>14, OutfitLeavesWear, FrameLocks DEF DeleteOutfit, pending
<1>. QED
  BY <1>1, <1>2, <1>3, <1>4, <1>5, <1>6, <1>7, <1>8, <1>9, <1>10, <1>11, <1>12, <1>13, <1>14
     DEF Next, Append, Create, Merge

LEMMA LocksHeld == Spec => [](TypeOK /\ LockInv)
<1>1. Init => TypeOK /\ LockInv
  BY TypeInitial, LocksInitial
<1>2. TypeOK /\ LockInv /\ [Next]_vars => (TypeOK /\ LockInv)'
  BY TypeInductive, LocksInductive
<1>. QED  BY <1>1, <1>2, PTL DEF Spec

\* Every variable keeps its type, and status goes with its garment: no tap can
\* mark dirty a garment that a merge has deleted, or is about to (CommitWear
\* against CommitMerge; wear-log.repo.ts against merge_keep_one).
THEOREM TypeCorrect == Spec => []TypeOK
  BY LocksHeld, PTL

-----------------------------------------------------------------------------
(* The wear history.  Only three actions touch what WearHistoryKept and      *)
(* DirtiedOnce speak of.                                                    *)

\* A garment that is there has not been merged into another.
StandsForItself == \A g \in present : into[g] = g

\* Only a committed tap has made a garment dirty.
FlippedByCommitted == \A t \in Taps : flips[t] <= 1 /\ (wear[t] = NoRow => flips[t] = 0)

HistoryInv == StandsForItself /\ WearHistoryKept /\ FlippedByCommitted

Touches == (\E r \in Requests : CommitWear(r) \/ CommitMerge(r)) \/ (\E o \in Outfits : DeleteOutfit(o))

LEMMA Untouched ==
    ASSUME [Next]_vars, ~Touches
    PROVE  UNCHANGED <<present, wear, logged, into, flips>>
  BY DEF Touches, Next, Append, Create, Merge, InsertWear, LookupWear, InsertOutfit,
         CommitOutfit, LookupOutfit, StartMerge, MergeWear, MergeDups, MergeMembers,
         MergeDelete, Rollback, SetAvailability, vars, rows, history

LEMMA HistoryInitial == Init => HistoryInv
  BY DEF Init, HistoryInv, StandsForItself, WearHistoryKept, FlippedByCommitted

LEMMA CommitWearHistory ==
    ASSUME TypeOK, LockInv, HistoryInv, NEW r \in Requests, CommitWear(r)
    PROVE  HistoryInv'
<1>1. job[r].tap \in Taps /\ job[r].item \in Garments /\ job[r].outfit \in Outfits \cup {NoOutfit}
  BY DEF CommitWear, TypeOK, WearJobs
<1>2. job[r].item \in present /\ wear[job[r].tap] = NoRow
  BY DEF CommitWear, LockInv, HeldWear
<1>3. UNCHANGED <<present, into>>
  BY DEF CommitWear
<1>4. /\ wear'[job[r].tap] = [item |-> job[r].item, outfit |-> job[r].outfit]
      /\ logged'[job[r].tap] = job[r].item
  BY <1>1 DEF CommitWear, TypeOK
<1>5. \A t \in Taps \ {job[r].tap} :
        wear'[t] = wear[t] /\ logged'[t] = logged[t] /\ flips'[t] = flips[t]
  BY DEF CommitWear, TypeOK
<1>6. wear'[job[r].tap] # NoRow /\ logged'[job[r].tap] # NoRow
  BY <1>1, <1>4, ConstantsAssumption DEF WearRows
<1>7. flips'[job[r].tap] <= 1
  <2>1. flips[job[r].tap] = 0
    BY <1>1, <1>2 DEF HistoryInv, FlippedByCommitted
  <2>2. flips' = flips \/ flips' = [flips EXCEPT ![job[r].tap] = @ + 1]
    BY DEF CommitWear
  <2>. QED  BY <1>1, <2>1, <2>2 DEF TypeOK
<1>8. StandsForItself'
  BY <1>3 DEF HistoryInv, StandsForItself
<1>9. WearHistoryKept'
  BY <1>2, <1>3, <1>4, <1>5, <1>6 DEF HistoryInv, StandsForItself, WearHistoryKept
<1>10. FlippedByCommitted'
  BY <1>5, <1>6, <1>7 DEF HistoryInv, FlippedByCommitted
<1>. QED  BY <1>8, <1>9, <1>10 DEF HistoryInv

LEMMA CommitMergeHistory ==
    ASSUME TypeOK, LockInv, HistoryInv, NEW r \in Requests, CommitMerge(r)
    PROVE  HistoryInv'
<1>1. /\ pc[r] = "mergeCommit" /\ present' = present \ {job[r].discard}
      /\ UNCHANGED <<logged, flips>>
  BY DEF CommitMerge
<1>2. job[r].keep \in Garments /\ job[r].discard \in Garments /\ job[r].keep # job[r].discard
  BY <1>1 DEF TypeOK, Merging, MergeSteps, MergeJobs
<1>3. \A g \in Garments : into[g] # job[r].discard => into'[g] = into[g]
  BY DEF CommitMerge, TypeOK
<1>4. job[r].discard \in present => \A g \in Garments : into[g] = job[r].discard => into'[g] = into[job[r].keep]
  BY DEF CommitMerge
<1>5. \A t \in Taps \ moved[r] : wear'[t] = wear[t]
  BY DEF CommitMerge
<1>6. ASSUME NEW t \in moved[r]
      PROVE  /\ t \in Taps /\ wear[t] # NoRow /\ wear[t].item = job[r].discard
             /\ wear'[t] # NoRow /\ wear'[t].item = job[r].keep
  <2>1. t \in Taps /\ wear[t] # NoRow /\ wear[t].item = job[r].discard
    BY DEF LockInv, MovedRows, TypeOK
  <2>2. wear[t] \in WearRows /\ wear'[t] = [wear[t] EXCEPT !.item = job[r].keep]
    BY <2>1 DEF TypeOK, CommitMerge
  <2>3. wear'[t] \in WearRows /\ wear'[t].item = job[r].keep
    BY <1>2, <2>2 DEF WearRows
  <2>. QED  BY <2>1, <2>3, ConstantsAssumption
<1>7. StandsForItself'
  BY <1>1, <1>3 DEF HistoryInv, StandsForItself, TypeOK
<1>8. WearHistoryKept'
  <2>. SUFFICES ASSUME NEW t \in Taps
       PROVE /\ logged[t] = NoRow <=> wear'[t] = NoRow
             /\ wear'[t] # NoRow =>
                  wear'[t].item = into'[logged[t]] /\ wear'[t].item \in present'
    BY <1>1 DEF WearHistoryKept
  <2>1. CASE t \in moved[r]
    <3>1. logged[t] # NoRow /\ logged[t] \in Garments
      BY <1>6, <2>1 DEF HistoryInv, WearHistoryKept, TypeOK
    <3>2. into[logged[t]] = job[r].discard /\ job[r].discard \in present
      BY <1>6, <2>1 DEF HistoryInv, WearHistoryKept
    <3>3. job[r].keep \in present
      BY <2>1 DEF LockInv, HeldKeep
    <3>4. into'[logged[t]] = job[r].keep
      BY <1>4, <3>1, <3>2, <3>3 DEF HistoryInv, StandsForItself
    <3>. QED  BY <1>1, <1>2, <1>6, <2>1, <3>1, <3>3, <3>4
  <2>2. CASE t \notin moved[r] /\ wear[t] # NoRow
    <3>1. logged[t] # NoRow /\ logged[t] \in Garments /\ wear'[t] = wear[t]
      BY <1>5, <2>2 DEF HistoryInv, WearHistoryKept, TypeOK
    <3>2. wear[t].item # job[r].discard
      BY <1>1, <2>2 DEF LockInv, Deleted, WearOf
    <3>3. wear[t].item = into[logged[t]] /\ wear[t].item \in present
      BY <2>2 DEF HistoryInv, WearHistoryKept
    <3>. QED  BY <1>1, <1>3, <2>2, <3>1, <3>2, <3>3
  <2>3. CASE t \notin moved[r] /\ wear[t] = NoRow
    BY <1>5, <2>3 DEF HistoryInv, WearHistoryKept
  <2>. QED  BY <2>1, <2>2, <2>3
<1>9. FlippedByCommitted'
  BY <1>1, <1>5, <1>6 DEF HistoryInv, FlippedByCommitted
<1>. QED  BY <1>7, <1>8, <1>9 DEF HistoryInv

LEMMA DeleteOutfitHistory ==
    ASSUME TypeOK, HistoryInv, NEW o \in Outfits, DeleteOutfit(o)
    PROVE  HistoryInv'
<1>1. UNCHANGED <<present, logged, into, flips>>
  BY DEF DeleteOutfit, history
<1>2. ASSUME NEW t \in Taps
      PROVE  /\ wear'[t] = NoRow <=> wear[t] = NoRow
             /\ wear[t] # NoRow => wear'[t].item = wear[t].item
  BY OutfitLeavesWear
<1>. QED  BY <1>1, <1>2 DEF HistoryInv, StandsForItself, WearHistoryKept, FlippedByCommitted

LEMMA HistoryInductive == TypeOK /\ LockInv /\ HistoryInv /\ [Next]_vars => HistoryInv'
<1>. SUFFICES ASSUME TypeOK, LockInv, HistoryInv, [Next]_vars PROVE HistoryInv'
  OBVIOUS
<1>1. CASE Touches
  BY <1>1, CommitWearHistory, CommitMergeHistory, DeleteOutfitHistory DEF Touches
<1>2. CASE ~Touches
  BY <1>2, Untouched DEF HistoryInv, StandsForItself, WearHistoryKept, FlippedByCommitted
<1>. QED  BY <1>1, <1>2

LEMMA HistoryHeld == Spec => []HistoryInv
<1>1. Init => HistoryInv
  BY HistoryInitial
<1>2. TypeOK /\ LockInv /\ HistoryInv /\ [Next]_vars => HistoryInv'
  BY HistoryInductive
<1>. QED  BY <1>1, <1>2, LocksHeld, PTL DEF Spec

\* For any number of garments, devices and merges, in any interleaving of their
\* statements: a logged wear is never lost and names the garment that stands
\* for the one tapped (appendWear against merge_keep_one and outfit deletion).
THEOREM WearHistoryTheorem == Spec => []WearHistoryKept
<1>1. HistoryInv => WearHistoryKept
  BY DEF HistoryInv
<1>. QED  BY <1>1, HistoryHeld, PTL

\* The unique client_id makes a tap idempotent, status included: however many
\* copies of it run at a time it makes its garment dirty at most once.
THEOREM DirtiedOnceTheorem == Spec => []DirtiedOnce
<1>1. HistoryInv => DirtiedOnce
  BY DEF HistoryInv, FlippedByCommitted, DirtiedOnce
<1>. QED  BY <1>1, HistoryHeld, PTL

-----------------------------------------------------------------------------
(* The outfits.  What the key shares of an uncommitted outfit and the row     *)
(* locks of a merge on memberships guarantee.                               *)

\* An uncommitted outfit is the only one of its id, and its garments are there.
HeldOutfit == \A r \in Requests : pc[r] = "outfitCommit" =>
    /\ job[r].outfit \notin outfits /\ job[r].items \subseteq present
    /\ \A s \in Requests : pc[s] = "outfitCommit" /\ job[s].outfit = job[r].outfit => s = r

\* What a merge has re-pointed are memberships of its discard, its keeper stays.
HeldMembers == \A r \in Requests : \A o \in repointed[r] :
    /\ Merging(r) /\ job[r].keep \in present
    /\ <<o, job[r].discard>> \in members

\* Once a merge has deleted its discard nobody is about to refer to it, and no
\* other merge holds a membership of it.
Cleared == \A r \in Requests : pc[r] = "mergeCommit" =>
    /\ \A s \in Requests : pc[s] = "outfitCommit" => job[r].discard \notin job[s].items
    /\ \A s \in Requests : repointed[s] # {} =>
         job[s].keep # job[r].discard /\ (job[s].discard = job[r].discard => s = r)

MemberInv == HeldOutfit /\ HeldMembers /\ Cleared /\ NoStrangers

LEMMA MembersInitial == Init => MemberInv
  BY DEF Init, MemberInv, HeldOutfit, HeldMembers, Cleared, NoStrangers

\* Nothing the outfits depend on changes.
LEMMA FrameMembers ==
    ASSUME MemberInv, UNCHANGED <<present, outfits, members, composed, into, pc, job, repointed>>
    PROVE  MemberInv'
  BY DEF MemberInv, HeldOutfit, HeldMembers, Cleared, NoStrangers, Merging

\* A request starts, and has not written an outfit or deleted a garment.
LEMMA EnterMembers ==
    ASSUME TypeOK, MemberInv, NEW r \in Requests, NEW j,
           NEW to \in Steps \ {"outfitCommit", "mergeCommit"}, Enter(r, to, j),
           UNCHANGED <<present, outfits, members, composed, into, repointed>>
    PROVE  MemberInv'
<1>1. pc[r] = "idle" /\ pc' = [pc EXCEPT ![r] = to] /\ job' = [job EXCEPT ![r] = j]
  BY DEF Enter, Goto
<1>2. repointed[r] = {}
  BY <1>1 DEF MemberInv, HeldMembers, Merging, MergeSteps
<1>3. \A s \in Requests \ {r} : pc'[s] = pc[s] /\ job'[s] = job[s]
  BY <1>1 DEF TypeOK
<1>4. pc'[r] = to
  BY <1>1 DEF TypeOK
<1>5. HeldOutfit'
  BY <1>3, <1>4 DEF MemberInv, HeldOutfit
<1>6. HeldMembers'
  BY <1>2, <1>3 DEF MemberInv, HeldMembers, Merging
<1>7. Cleared'
  BY <1>2, <1>3, <1>4 DEF MemberInv, Cleared
<1>8. NoStrangers'
  BY DEF MemberInv, NoStrangers
<1>. QED  BY <1>5, <1>6, <1>7, <1>8 DEF MemberInv

\* A merge goes to a statement and has not touched a membership in this one.
LEMMA GotoMembers ==
    ASSUME TypeOK, MemberInv, NEW r \in Requests, NEW from \in MergeSteps,
           NEW to \in MergeSteps \ {"mergeCommit"}, Goto(r, from, to),
           UNCHANGED <<present, outfits, members, composed, into, job, repointed>>
    PROVE  MemberInv'
<1>1. pc[r] = from /\ pc' = [pc EXCEPT ![r] = to]
  BY DEF Goto
<1>2. \A s \in Requests \ {r} : pc'[s] = pc[s]
  BY <1>1 DEF TypeOK
<1>3. pc'[r] = to
  BY <1>1 DEF TypeOK
<1>4. HeldOutfit'
  BY <1>2, <1>3 DEF MemberInv, HeldOutfit, MergeSteps
<1>5. HeldMembers'
  BY <1>2, <1>3 DEF MemberInv, HeldMembers, Merging
<1>6. Cleared'
  BY <1>2, <1>3 DEF MemberInv, Cleared, MergeSteps
<1>7. NoStrangers'
  BY DEF MemberInv, NoStrangers
<1>. QED  BY <1>4, <1>5, <1>6, <1>7 DEF MemberInv

\* A request ends without a garment or an outfit having changed.
LEMMA EndMembers ==
    ASSUME TypeOK, MemberInv, NEW r \in Requests, End(r),
           UNCHANGED <<present, outfits, members, composed, into>>
    PROVE  MemberInv'
<1>1. \A s \in Requests \ {r} : pc'[s] = pc[s] /\ job'[s] = job[s] /\ repointed'[s] = repointed[s]
  BY DEF End, TypeOK
<1>2. pc'[r] = "idle" /\ repointed'[r] = {}
  BY DEF End, TypeOK
<1>3. HeldOutfit'
  BY <1>1, <1>2 DEF MemberInv, HeldOutfit
<1>4. HeldMembers'
  BY <1>1, <1>2 DEF MemberInv, HeldMembers, Merging
<1>5. Cleared'
  BY <1>1, <1>2 DEF MemberInv, Cleared
<1>6. NoStrangers'
  BY DEF MemberInv, NoStrangers
<1>. QED  BY <1>3, <1>4, <1>5, <1>6 DEF MemberInv

\* An outfit is inserted: its foreign keys were checked on garments nobody is
\* about to remove, its id is on no other insert.
LEMMA InsertOutfitMembers ==
    ASSUME TypeOK, MemberInv, NEW r \in Requests, NEW j \in OutfitJobs, InsertOutfit(r, j)
    PROVE  MemberInv'
<1>1. UNCHANGED <<present, outfits, members, composed, into, repointed>>
  BY DEF InsertOutfit, rows, pending, history
<1>2. CASE Enter(r, "outfitLookup", j)
  BY <1>1, <1>2, EnterMembers DEF Steps
<1>3. CASE /\ j.outfit \notin outfits /\ j.items \subseteq present
           /\ \A g \in j.items : Settled(g)
           /\ Enter(r, "outfitCommit", j)
  <2>1. pc[r] = "idle" /\ pc' = [pc EXCEPT ![r] = "outfitCommit"] /\ job' = [job EXCEPT ![r] = j]
    BY <1>3 DEF Enter, Goto
  <2>2. repointed[r] = {}
    BY <2>1 DEF MemberInv, HeldMembers, Merging, MergeSteps
  <2>3. \A s \in Requests \ {r} : pc'[s] = pc[s] /\ job'[s] = job[s]
    BY <2>1 DEF TypeOK
  <2>4. pc'[r] = "outfitCommit" /\ job'[r] = j
    BY <2>1 DEF TypeOK
  <2>5. HeldOutfit'
    BY <1>1, <1>3, <2>3, <2>4 DEF MemberInv, HeldOutfit, InsertOutfit
  <2>6. HeldMembers'
    BY <1>1, <2>2, <2>3 DEF MemberInv, HeldMembers, Merging
  <2>7. Cleared'
    <3>1. \A s \in Requests : pc[s] = "mergeCommit" => job[s].discard \notin j.items
      BY <1>3 DEF Settled, Deletes
    <3>. QED  BY <1>1, <2>2, <2>3, <2>4, <3>1 DEF MemberInv, Cleared
  <2>8. NoStrangers'
    BY <1>1 DEF MemberInv, NoStrangers
  <2>. QED  BY <2>5, <2>6, <2>7, <2>8 DEF MemberInv
<1>. QED  BY <1>2, <1>3 DEF InsertOutfit

\* It commits, and each of its garments still stands for itself.
LEMMA CommitOutfitMembers ==
    ASSUME TypeOK, HistoryInv, MemberInv, NEW r \in Requests, CommitOutfit(r)
    PROVE  MemberInv'
<1>1. /\ pc[r] = "outfitCommit" /\ End(r) /\ UNCHANGED <<present, into>>
      /\ outfits' = outfits \cup {job[r].outfit}
      /\ members' = members \cup ({job[r].outfit} \X job[r].items)
      /\ composed' = [composed EXCEPT ![job[r].outfit] = job[r].items]
  BY DEF CommitOutfit
<1>2. \A s \in Requests \ {r} : pc'[s] = pc[s] /\ job'[s] = job[s] /\ repointed'[s] = repointed[s]
  BY <1>1 DEF End, TypeOK
<1>3. pc'[r] = "idle" /\ repointed'[r] = {}
  BY <1>1 DEF End, TypeOK
<1>4. job[r].outfit \in Outfits /\ job[r].items \subseteq Garments
  BY <1>1 DEF TypeOK, OutfitJobs
<1>5. job[r].outfit \notin outfits /\ job[r].items \subseteq present
  BY <1>1 DEF MemberInv, HeldOutfit
<1>6. HeldOutfit'
  BY <1>1, <1>2, <1>3 DEF MemberInv, HeldOutfit
<1>7. HeldMembers'
  BY <1>1, <1>2, <1>3 DEF MemberInv, HeldMembers, Merging
<1>8. Cleared'
  BY <1>2, <1>3 DEF MemberInv, Cleared
<1>9. NoStrangers'
  <2>. SUFFICES ASSUME NEW m \in members'
       PROVE  /\ m[1] \in outfits' /\ m[2] \in present'
              /\ \E g \in composed'[m[1]] : into'[g] = m[2]
    BY DEF NoStrangers
  <2>1. CASE m \in members
    <3>1. /\ m[1] \in outfits /\ m[2] \in present
          /\ \E g \in composed[m[1]] : into[g] = m[2]
      BY <2>1 DEF MemberInv, NoStrangers
    <3>2. composed'[m[1]] = composed[m[1]]
      BY <1>1, <1>5, <3>1 DEF TypeOK
    <3>. QED  BY <1>1, <3>1, <3>2
  <2>2. CASE m \in {job[r].outfit} \X job[r].items
    <3>1. m[1] = job[r].outfit /\ m[2] \in job[r].items
      BY <2>2
    <3>2. composed'[m[1]] = job[r].items
      BY <1>1, <1>4, <3>1 DEF TypeOK
    <3>3. into[m[2]] = m[2] /\ m[2] \in present
      BY <1>5, <3>1 DEF HistoryInv, StandsForItself
    <3>. QED  BY <1>1, <3>1, <3>2, <3>3
  <2>. QED  BY <1>1, <2>1, <2>2
<1>. QED  BY <1>6, <1>7, <1>8, <1>9 DEF MemberInv

\* The UPDATE of the memberships waits for every merge that holds one of them,
\* a deletion of the same discard included.
LEMMA MergeMembersMembers ==
    ASSUME TypeOK, MemberInv, NEW r \in Requests, MergeMembers(r)
    PROVE  MemberInv'
<1>. DEFINE d == job[r].discard
            rest == OutfitsOf(d) \ dropped[r]
<1>1. /\ pc[r] = "mergeMembers" /\ pc' = [pc EXCEPT ![r] = "mergeDelete"]
      /\ \A s \in Requests \ {r}, o \in rest : ~HoldsMember(s, o, d)
      /\ rest # {} => job[r].keep \in present /\ Settled(job[r].keep)
      /\ repointed' = [repointed EXCEPT ![r] = rest]
      /\ UNCHANGED <<present, outfits, members, composed, into, job>>
  BY DEF MergeMembers, Goto, rows, history
<1>2. \A s \in Requests \ {r} : pc'[s] = pc[s] /\ repointed'[s] = repointed[s]
  BY <1>1 DEF TypeOK
<1>3. pc'[r] = "mergeDelete" /\ repointed'[r] = rest
  BY <1>1 DEF TypeOK
<1>4. \A o \in rest : <<o, d>> \in members
  BY DEF OutfitsOf
<1>5. HeldOutfit'
  BY <1>1, <1>2, <1>3 DEF MemberInv, HeldOutfit
<1>6. HeldMembers'
  BY <1>1, <1>2, <1>3, <1>4 DEF MemberInv, HeldMembers, Merging, MergeSteps
<1>7. Cleared'
  <2>. SUFFICES ASSUME NEW s \in Requests, pc'[s] = "mergeCommit"
       PROVE /\ \A q \in Requests : pc'[q] = "outfitCommit" => job'[s].discard \notin job'[q].items
             /\ \A q \in Requests : repointed'[q] # {} =>
                  job'[q].keep # job'[s].discard /\ (job'[q].discard = job'[s].discard => q = s)
    BY DEF Cleared
  <2>1. s # r /\ pc[s] = "mergeCommit" /\ Merging(s)
    BY <1>2, <1>3 DEF Merging, MergeSteps
  <2>2. rest # {} => job[r].keep # job[s].discard
    BY <1>1, <2>1 DEF Settled, Deletes
  <2>3. rest # {} => d # job[s].discard
    BY <1>1, <2>1 DEF HoldsMember
  <2>. QED  BY <1>1, <1>2, <1>3, <2>1, <2>2, <2>3 DEF MemberInv, Cleared
<1>8. NoStrangers'
  BY <1>1 DEF MemberInv, NoStrangers
<1>. QED  BY <1>5, <1>6, <1>7, <1>8 DEF MemberInv

\* The DELETE returns when nobody refers to the discard or holds a membership.
LEMMA MergeDeleteMembers ==
    ASSUME TypeOK, MemberInv, NEW r \in Requests, MergeDelete(r)
    PROVE  MemberInv'
<1>1. /\ pc[r] = "mergeDelete" /\ pc' = [pc EXCEPT ![r] = "mergeCommit"]
      /\ \A s \in Requests \ {r} :
           ~KeyShares(s, job[r].discard) /\ \A o \in Outfits : ~HoldsMember(s, o, job[r].discard)
      /\ UNCHANGED <<present, outfits, members, composed, into, job, repointed>>
  BY DEF MergeDelete, Goto, rows, pending, history
<1>2. \A s \in Requests \ {r} : pc'[s] = pc[s]
  BY <1>1 DEF TypeOK
<1>3. pc'[r] = "mergeCommit"
  BY <1>1 DEF TypeOK
<1>4. job[r].keep # job[r].discard
  BY <1>1 DEF TypeOK, Merging, MergeSteps, MergeJobs
<1>5. ASSUME NEW s \in Requests \ {r}
      PROVE  /\ repointed[s] # {} =>
                  job[s].keep # job[r].discard /\ job[s].discard # job[r].discard
             /\ pc[s] = "outfitCommit" => job[r].discard \notin job[s].items
  <2>1. repointed[s] \subseteq Outfits /\ (repointed[s] # {} => Merging(s))
    BY DEF TypeOK, MemberInv, HeldMembers
  <2>. QED  BY <1>1, <2>1 DEF KeyShares, HoldsMember
<1>6. HeldOutfit'
  BY <1>1, <1>2, <1>3 DEF MemberInv, HeldOutfit
<1>7. HeldMembers'
  BY <1>1, <1>2, <1>3 DEF MemberInv, HeldMembers, Merging, MergeSteps
<1>8. Cleared'
  BY <1>1, <1>2, <1>3, <1>4, <1>5 DEF MemberInv, Cleared
<1>9. NoStrangers'
  BY <1>1 DEF MemberInv, NoStrangers
<1>. QED  BY <1>6, <1>7, <1>8, <1>9 DEF MemberInv

\* The merge commits: the keeper takes the discard's place in every outfit.
LEMMA CommitMergeMembers ==
    ASSUME TypeOK, HistoryInv, MemberInv, NEW r \in Requests, CommitMerge(r)
    PROVE  MemberInv'
<1>. DEFINE d == job[r].discard
            k == job[r].keep
<1>1. /\ pc[r] = "mergeCommit" /\ End(r) /\ present' = present \ {d}
      /\ members' = (members \ (Outfits \X {d})) \cup (repointed[r] \X {k})
      /\ UNCHANGED <<outfits, composed>>
  BY DEF CommitMerge
<1>2. \A s \in Requests \ {r} : pc'[s] = pc[s] /\ job'[s] = job[s] /\ repointed'[s] = repointed[s]
  BY <1>1 DEF End, TypeOK
<1>3. pc'[r] = "idle" /\ repointed'[r] = {}
  BY <1>1 DEF End, TypeOK
<1>4. d \in Garments /\ k \in Garments /\ d # k
  BY <1>1 DEF TypeOK, Merging, MergeSteps, MergeJobs
<1>5. \A g \in Garments : into[g] # d => into'[g] = into[g]
  BY DEF CommitMerge, TypeOK
<1>6. d \in present => \A g \in Garments : into[g] = d => into'[g] = into[k]
  BY DEF CommitMerge
<1>7. HeldOutfit'
  BY <1>1, <1>2, <1>3 DEF MemberInv, HeldOutfit, Cleared
<1>8. HeldMembers'
  <2>. SUFFICES ASSUME NEW s \in Requests \ {r}, NEW o \in repointed[s]
       PROVE  Merging(s)' /\ job[s].keep \in present' /\ <<o, job[s].discard>> \in members'
    BY <1>2, <1>3 DEF HeldMembers
  <2>1. Merging(s) /\ job[s].keep \in present /\ <<o, job[s].discard>> \in members
    BY DEF MemberInv, HeldMembers
  <2>2. job[s].keep # d /\ job[s].discard # d
    BY <1>1 DEF MemberInv, Cleared
  <2>. QED  BY <1>1, <1>2, <2>1, <2>2 DEF Merging
<1>9. Cleared'
  BY <1>2, <1>3 DEF MemberInv, Cleared
<1>10. NoStrangers'
  <2>. SUFFICES ASSUME NEW m \in members'
       PROVE  /\ m[1] \in outfits /\ m[2] \in present'
              /\ \E g \in composed[m[1]] : into'[g] = m[2]
    BY <1>1 DEF NoStrangers
  <2>1. CASE m \in members /\ m \notin Outfits \X {d}
    <3>1. /\ m[1] \in outfits /\ m[2] \in present /\ m[1] \in Outfits
          /\ \E g \in composed[m[1]] : into[g] = m[2]
      BY <2>1 DEF MemberInv, NoStrangers, TypeOK
    <3>2. m[2] # d
      BY <2>1, <3>1 DEF TypeOK
    <3>. QED  BY <1>1, <1>5, <3>1, <3>2 DEF TypeOK
  <2>2. CASE m \in repointed[r] \X {k}
    <3>1. m[1] \in repointed[r] /\ m[2] = k
      BY <2>2
    <3>2. k \in present /\ <<m[1], d>> \in members
      BY <3>1 DEF MemberInv, HeldMembers
    <3>3. /\ m[1] \in outfits /\ d \in present
          /\ \E g \in composed[m[1]] : into[g] = d
      BY <3>2 DEF MemberInv, NoStrangers
    <3>4. into[k] = k
      BY <3>2 DEF HistoryInv, StandsForItself
    <3>. QED  BY <1>1, <1>4, <1>6, <3>1, <3>2, <3>3, <3>4 DEF TypeOK
  <2>. QED  BY <1>1, <2>1, <2>2
<1>. QED  BY <1>7, <1>8, <1>9, <1>10 DEF MemberInv

\* An outfit is deleted: the cascade waits for the memberships a merge holds.
LEMMA DeleteOutfitMembers ==
    ASSUME TypeOK, MemberInv, NEW o \in Outfits, DeleteOutfit(o)
    PROVE  MemberInv'
<1>1. /\ outfits' = outfits \ {o} /\ members' = {m \in members : m[1] # o}
      /\ UNCHANGED <<present, composed, into, pc, job, repointed>>
  BY DEF DeleteOutfit, pending, history
<1>2. HeldOutfit'
  BY <1>1 DEF MemberInv, HeldOutfit
<1>3. HeldMembers'
  <2>. SUFFICES ASSUME NEW s \in Requests, NEW p \in repointed[s]
       PROVE  Merging(s)' /\ job[s].keep \in present /\ <<p, job[s].discard>> \in members'
    BY <1>1 DEF HeldMembers
  <2>1. Merging(s) /\ job[s].keep \in present /\ <<p, job[s].discard>> \in members
    BY DEF MemberInv, HeldMembers
  <2>2. p # o
    BY <2>1 DEF DeleteOutfit, HoldsMember, TypeOK
  <2>. QED  BY <1>1, <2>1, <2>2 DEF Merging
<1>4. Cleared'
  BY <1>1 DEF MemberInv, Cleared
<1>5. NoStrangers'
  BY <1>1 DEF MemberInv, NoStrangers
<1>. QED  BY <1>2, <1>3, <1>4, <1>5 DEF MemberInv

LEMMA MembersInductive == TypeOK /\ HistoryInv /\ MemberInv /\ [Next]_vars => MemberInv'
<1>. SUFFICES ASSUME TypeOK, HistoryInv, MemberInv, [Next]_vars PROVE MemberInv'
  OBVIOUS
<1>1. CASE UNCHANGED vars
  BY <1>1, FrameMembers DEF vars, rows, pending, history
<1>2. ASSUME NEW r \in Requests, NEW j \in WearJobs, InsertWear(r, j) PROVE MemberInv'
  <2>1. \E to \in {"wearLookup", "wearCommit"} : Enter(r, to, j)
    BY <1>2 DEF InsertWear
  <2>. QED  BY <1>2, <2>1, EnterMembers DEF InsertWear, Steps, rows, pending, history
<1>3. ASSUME NEW r \in Requests, CommitWear(r) PROVE MemberInv'
  BY <1>3, EndMembers DEF CommitWear
<1>4. ASSUME NEW r \in Requests, NEW j \in MergeJobs, StartMerge(r, j) PROVE MemberInv'
  BY <1>4, EnterMembers DEF StartMerge, Steps, MergeSteps, rows, pending, history
<1>5. ASSUME NEW r \in Requests, MergeWear(r) PROVE MemberInv'
  BY <1>5, GotoMembers DEF MergeWear, MergeSteps, rows, history
<1>6. ASSUME NEW r \in Requests, MergeDups(r) PROVE MemberInv'
  BY <1>6, GotoMembers DEF MergeDups, MergeSteps, rows, history
<1>7. ASSUME NEW r \in Requests, LookupWear(r) \/ LookupOutfit(r) \/ Rollback(r) PROVE MemberInv'
  BY <1>7, EndMembers DEF LookupWear, LookupOutfit, Rollback, rows, history
<1>8. ASSUME NEW g \in Garments, SetAvailability(g) PROVE MemberInv'
  BY <1>8, FrameMembers DEF SetAvailability, pending, history
<1>. QED
  BY <1>1, <1>2, <1>3, <1>4, <1>5, <1>6, <1>7, <1>8, InsertOutfitMembers, CommitOutfitMembers,
     MergeMembersMembers, MergeDeleteMembers, CommitMergeMembers, DeleteOutfitMembers
     DEF Next, Append, Create, Merge

\* In any interleaving of outfits created and deleted with merges of their
\* garments, of one another's discards too: no membership dangles, and the
\* garments of an outfit stand for those it was created with (createWithItems
\* and remove against merge_keep_one).
THEOREM NoStrangersTheorem == Spec => []NoStrangers
<1>1. Init => MemberInv
  BY MembersInitial
<1>2. TypeOK /\ HistoryInv /\ MemberInv /\ [Next]_vars => MemberInv'
  BY MembersInductive
<1>3. MemberInv => NoStrangers
  BY DEF MemberInv
<1>. QED  BY <1>1, <1>2, <1>3, LocksHeld, HistoryHeld, PTL DEF Spec

-----------------------------------------------------------------------------
(* Retried taps.                                                           *)

\* No step takes a committed wear row away.
LEMMA WearRowsStay ==
    ASSUME TypeOK, LockInv, [Next]_vars, NEW t \in Taps, wear[t] # NoRow
    PROVE  wear'[t] # NoRow
<1>1. CASE ~Touches
  BY <1>1, Untouched
<1>2. ASSUME NEW r \in Requests, CommitWear(r) PROVE wear'[t] # NoRow
  <2>1. wear[job[r].tap] = NoRow
    BY <1>2 DEF CommitWear, LockInv, HeldWear
  <2>. QED  BY <1>2, <2>1 DEF CommitWear, TypeOK
<1>3. ASSUME NEW r \in Requests, CommitMerge(r) PROVE wear'[t] # NoRow
  <2>1. job[r].keep \in Garments /\ wear[t] \in WearRows
    BY <1>3 DEF CommitMerge, TypeOK, Merging, MergeSteps, MergeJobs
  <2>2. wear'[t] = [wear[t] EXCEPT !.item = job[r].keep] \/ wear'[t] = wear[t]
    BY <1>3 DEF CommitMerge
  <2>3. wear'[t] \in WearRows
    BY <2>1, <2>2 DEF WearRows
  <2>. QED  BY <2>3, ConstantsAssumption
<1>4. ASSUME NEW o \in Outfits, DeleteOutfit(o) PROVE wear'[t] # NoRow
  BY <1>4, OutfitLeavesWear
<1>. QED  BY <1>1, <1>2, <1>3, <1>4 DEF Touches

\* A request is on its way to look a wear row up only after an insert that found it.
LEMMA LookupEntered ==
    ASSUME TypeOK, [Next]_vars, NEW r \in Requests, pc'[r] = "wearLookup"
    PROVE  \/ pc[r] = "wearLookup" /\ job'[r] = job[r]
           \/ job'[r].tap \in Taps /\ wear[job'[r].tap] # NoRow
<1>1. CASE UNCHANGED vars
  BY <1>1 DEF vars
<1>2. ASSUME NEW s \in Requests, NEW j \in WearJobs, InsertWear(s, j)
      PROVE  \/ pc[r] = "wearLookup" /\ job'[r] = job[r]
             \/ job'[r].tap \in Taps /\ wear[job'[r].tap] # NoRow
  <2>1. j.tap \in Taps
    BY DEF WearJobs
  <2>. QED  BY <1>2, <2>1 DEF InsertWear, Enter, Goto, TypeOK
<1>3. ASSUME NEW s \in Requests,
             \/ \E j \in OutfitJobs : InsertOutfit(s, j)
             \/ \E j \in MergeJobs : StartMerge(s, j)
      PROVE  pc[r] = "wearLookup" /\ job'[r] = job[r]
  BY <1>3 DEF InsertOutfit, StartMerge, Enter, Goto, TypeOK
<1>4. ASSUME NEW s \in Requests,
             MergeWear(s) \/ MergeDups(s) \/ MergeMembers(s) \/ MergeDelete(s)
      PROVE  pc[r] = "wearLookup" /\ job'[r] = job[r]
  BY <1>4 DEF MergeWear, MergeDups, MergeMembers, MergeDelete, Goto, TypeOK
<1>5. ASSUME NEW s \in Requests, End(s)
      PROVE  pc[r] = "wearLookup" /\ job'[r] = job[r]
  BY <1>5 DEF End, TypeOK
<1>6. CASE UNCHANGED <<pc, job>>
  BY <1>6
<1>. QED
  BY <1>1, <1>2, <1>3, <1>4, <1>5, <1>6
     DEF Next, Append, Create, Merge, CommitWear, LookupWear, CommitOutfit, LookupOutfit,
         CommitMerge, Rollback, SetAvailability, DeleteOutfit

\* A tap sent again, at once or after a timeout, always finds the row that won:
\* nothing else can have taken it away before the look-up (appendWear).
THEOREM RetriedTapTheorem == Spec => []RetriedTapAnswered
<1>1. Init => RetriedTapAnswered
  BY DEF Init, RetriedTapAnswered
<1>2. TypeOK /\ LockInv /\ RetriedTapAnswered /\ [Next]_vars => RetriedTapAnswered'
  <2>. SUFFICES ASSUME TypeOK, LockInv, RetriedTapAnswered, [Next]_vars,
                       NEW r \in Requests, pc'[r] = "wearLookup"
       PROVE  wear'[job'[r].tap] # NoRow
    BY DEF RetriedTapAnswered
  <2>1. job'[r].tap \in Taps /\ wear[job'[r].tap] # NoRow
    BY LookupEntered DEF RetriedTapAnswered, TypeOK, WearJobs
  <2>. QED  BY <2>1, WearRowsStay
<1>. QED  BY <1>1, <1>2, LocksHeld, PTL DEF Spec

-----------------------------------------------------------------------------
(* Merges keep one.  False in general (two devices can merge a pair both      *)
(* ways); true when every device prefers the same garment of a pair.         *)

\* If the requests follow some ranking of the garments, such as the date they
\* were added, every merged garment keeps a stand-in in the wardrobe, through
\* whatever chains of merges that overlap (merge_keep_one against itself).
THEOREM KeeperTheorem ==
    ASSUME NEW rank \in [Garments -> Nat],
           \A m \in MergeJobs : rank[m.keep] < rank[m.discard]
    PROVE  Spec => []KeeperStands
<1>. DEFINE Stands(g) == into[g] \in present /\ rank[into[g]] <= rank[g]
            Inv == \A g \in Garments : Stands(g)
<1>1. Init => Inv
  <2>. SUFFICES ASSUME Init, NEW g \in Garments PROVE Stands(g)
    OBVIOUS
  <2>1. into[g] = g /\ g \in present /\ rank[g] \in Nat
    BY DEF Init
  <2>. QED  BY <2>1
<1>2. TypeOK /\ Inv /\ [Next]_vars => Inv'
  <2>. SUFFICES ASSUME TypeOK, Inv, [Next]_vars PROVE Inv'
    OBVIOUS
  <2>1. CASE \E r \in Requests : CommitMerge(r)
    <3>1. PICK r \in Requests : CommitMerge(r)
      BY <2>1
    <3>2. job[r] \in MergeJobs
      BY <3>1 DEF CommitMerge, TypeOK, Merging, MergeSteps
    <3>3. job[r].keep \in Garments /\ job[r].discard \in Garments
          /\ rank[job[r].keep] < rank[job[r].discard]
      BY <3>2 DEF MergeJobs
    <3>4. present' = present \ {job[r].discard}
      BY <3>1 DEF CommitMerge
    <3>5. \A g \in Garments : into[g] \in Garments /\ rank[g] \in Nat
      BY DEF TypeOK
    <3>6. into[job[r].keep] \in present' /\ rank[into[job[r].keep]] <= rank[job[r].keep]
      BY <3>3, <3>4, <3>5
    <3>. SUFFICES ASSUME NEW g \in Garments PROVE Stands(g)'
      OBVIOUS
    <3>7. CASE into[g] = job[r].discard
      <4>1. job[r].discard \in present
        BY <3>7
      <4>2. into'[g] = into[job[r].keep]
        BY <3>1, <3>7, <4>1 DEF CommitMerge
      <4>. QED  BY <3>3, <3>5, <3>6, <3>7, <4>2
    <3>8. CASE into[g] # job[r].discard
      <4>1. into'[g] = into[g]
        BY <3>1, <3>8 DEF CommitMerge, TypeOK
      <4>. QED  BY <3>4, <3>8, <4>1
    <3>. QED  BY <3>7, <3>8
  <2>2. CASE ~Touches
    BY <2>2, Untouched
  <2>3. CASE \E r \in Requests : CommitWear(r)
    BY <2>3 DEF CommitWear
  <2>4. CASE \E o \in Outfits : DeleteOutfit(o)
    BY <2>4 DEF DeleteOutfit, history
  <2>. QED  BY <2>1, <2>2, <2>3, <2>4 DEF Touches
<1>3. Inv => KeeperStands
  BY DEF KeeperStands
<1>. QED  BY <1>1, <1>2, <1>3, LocksHeld, PTL DEF Spec
=============================================================================
