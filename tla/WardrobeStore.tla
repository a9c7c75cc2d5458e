---------------------------- MODULE WardrobeStore ----------------------------
(***************************************************************************)
(* The garments, outfits and wear log of one user (row-level security      *)
(* keeps users apart): db/src/repos/{wardrobe,outfits,wear-log}.repo.ts    *)
(* over migrations 0002, 0004 to 0006, 0010, 0011, 0017 and 0018.          *)
(*                                                                         *)
(* Every request is a transaction.  A statement that writes is one step    *)
(* and COMMIT another; between them its rows are invisible to the others   *)
(* while its locks already make them wait.  merge_keep_one is one step per *)
(* statement, because each sees a fresh READ COMMITTED snapshot.  A        *)
(* foreign key check locks the row it finds (FOR KEY SHARE) until the end  *)
(* of the transaction, and a DELETE of that row waits for it.              *)
(*                                                                         *)
(* A request the database refuses changes nothing and has no action here.  *)
(***************************************************************************)
EXTENDS Naturals

CONSTANTS
    Garments,   \* wardrobe_items of the user, present at the start
    Outfits,    \* outfit ids the client mints
    Taps,       \* client_id values of "I wore this" taps
    Requests,   \* requests that may run at a time
    Merges,     \* pairs <<keep, discard>> the user may ask to merge
    NoOutfit,   \* outfit_id IS NULL
    NoRow,      \* no wear_log row with this client_id
    NoJob       \* the request is idle

WearRows == [item : Garments, outfit : Outfits \cup {NoOutfit}]
WearJobs == [tap : Taps, item : Garments, outfit : Outfits \cup {NoOutfit}, flip : BOOLEAN]
OutfitJobs == [outfit : Outfits, items : (SUBSET Garments) \ {{}}]

ASSUME ConstantsAssumption ==
    /\ NoOutfit \notin Outfits
    /\ NoRow \notin WearRows \cup Garments

\* The request schema refuses to merge a garment into itself.
MergeJobs ==
    {m \in [keep : Garments, discard : Garments] :
        <<m.keep, m.discard>> \in Merges /\ m.keep # m.discard}
Jobs == WearJobs \cup OutfitJobs \cup MergeJobs \cup {NoJob}

VARIABLES
    present,   \* committed rows of wardrobe_items
    dirty,     \* the garments whose availability reads 'dirty'
    outfits,   \* committed rows of outfits
    members,   \* committed rows of outfit_items: pairs <<outfit, garment>>
    wear,      \* wear[t]: committed wear_log row of client_id t, or NoRow
    pc,        \* pc[r]: the next step of request r
    job,       \* job[r]: what it was asked to do
    moved,     \* moved[r]: wear rows its merge has re-pointed, uncommitted
    dropped,   \* dropped[r]: outfits it has removed the discard from, uncommitted
    repointed, \* repointed[r]: outfits it has put keep for discard in, uncommitted
    logged,    \* history: logged[t]: the garment tapped, NoRow before
    composed,  \* history: composed[o]: the garments outfit o was created with
    into,      \* history: into[g]: the garment that stands for g after the merges
    flips      \* history: flips[t]: how often tap t made a garment dirty

rows == <<present, dirty, outfits, members, wear>>
history == <<logged, composed, into, flips>>
pending == <<moved, dropped, repointed>>
vars == <<rows, pc, job, pending, history>>

MergeSteps == {"mergeWear", "mergeDups", "mergeMembers", "mergeDelete", "mergeCommit"}
Steps == {"idle", "wearCommit", "wearLookup", "outfitCommit", "outfitLookup"} \cup MergeSteps

Init ==
    /\ present = Garments
    /\ dirty = {}
    /\ outfits = {}
    /\ members = {}
    /\ wear = [t \in Taps |-> NoRow]
    /\ pc = [r \in Requests |-> "idle"]
    /\ job = [r \in Requests |-> NoJob]
    /\ moved = [r \in Requests |-> {}]
    /\ dropped = [r \in Requests |-> {}]
    /\ repointed = [r \in Requests |-> {}]
    /\ logged = [t \in Taps |-> NoRow]
    /\ composed = [o \in Outfits |-> {}]
    /\ into = [g \in Garments |-> g]
    /\ flips = [t \in Taps |-> 0]

-----------------------------------------------------------------------------
(* Locks.                                                                  *)

Merging(r) == pc[r] \in MergeSteps

\* Request r has inserted, or pointed a row at, garment g: it holds FOR KEY SHARE.
KeyShares(r, g) ==
    \/ pc[r] = "wearCommit" /\ job[r].item = g
    \/ pc[r] = "outfitCommit" /\ g \in job[r].items
    \/ Merging(r) /\ job[r].keep = g /\ (moved[r] # {} \/ repointed[r] # {})

\* Request r has deleted garment g and not committed.
Deletes(r, g) == pc[r] = "mergeCommit" /\ job[r].discard = g

\* A foreign key check of g can be decided: nobody is about to remove it.
Settled(g) == \A r \in Requests : ~Deletes(r, g)

\* Request r holds the row lock of the membership <<o, g>>: it has removed or
\* re-pointed it, or deleted it along with the garment (ON DELETE CASCADE).
HoldsMember(r, o, g) ==
    /\ Merging(r) /\ job[r].discard = g
    /\ pc[r] = "mergeCommit" \/ o \in dropped[r] \cup repointed[r]

Goto(r, from, to) == pc[r] = from /\ pc' = [pc EXCEPT ![r] = to]

Enter(r, to, j) == Goto(r, "idle", to) /\ job' = [job EXCEPT ![r] = j]

\* The transaction ends; what it had not committed is gone.
End(r) ==
    /\ pc' = [pc EXCEPT ![r] = "idle"]
    /\ job' = [job EXCEPT ![r] = NoJob]
    /\ moved' = [moved EXCEPT ![r] = {}]
    /\ dropped' = [dropped EXCEPT ![r] = {}]
    /\ repointed' = [repointed EXCEPT ![r] = {}]

-----------------------------------------------------------------------------
(* Wear log: appendWear.                                                   *)

\* The Bug_... definitions are planted by the mutation runs in place of the
\* definition that follows them; no specification uses them.
Bug_InsertWearFallback(r, j) ==
    /\ \/ /\ wear[j.tap] # NoRow \/ \E s \in Requests : pc[s] = "wearCommit" /\ job[s].tap = j.tap
          /\ Enter(r, "wearLookup", j)
       \/ /\ wear[j.tap] = NoRow
          /\ Settled(j.item) /\ j.item \in present
          /\ j.outfit \in outfits \cup {NoOutfit}
          /\ Enter(r, "wearCommit", j)
    /\ UNCHANGED <<rows, pending, history>>

Bug_InsertWearNoIndex(r, j) ==
    /\ wear[j.tap] = NoRow
    /\ Settled(j.item) /\ j.item \in present
    /\ j.outfit \in outfits \cup {NoOutfit}
    /\ Enter(r, "wearCommit", j)
    /\ UNCHANGED <<rows, pending, history>>

\* The writable CTE: insert ON CONFLICT DO NOTHING and flip the garment.  An
\* uncommitted row of the same client_id makes it wait; a committed one sends
\* the request to the look-up in a second transaction.
InsertWear(r, j) ==
    /\ \A s \in Requests : ~(pc[s] = "wearCommit" /\ job[s].tap = j.tap)
    /\ \/ /\ wear[j.tap] # NoRow
          /\ Enter(r, "wearLookup", j)
       \/ /\ wear[j.tap] = NoRow
          /\ Settled(j.item) /\ j.item \in present
          /\ j.outfit \in outfits \cup {NoOutfit}
          /\ Enter(r, "wearCommit", j)
    /\ UNCHANGED <<rows, pending, history>>

CommitWear(r) ==
    LET j == job[r] IN
    /\ pc[r] = "wearCommit"
    /\ wear' = [wear EXCEPT ![j.tap] = [item |-> j.item, outfit |-> j.outfit]]
    /\ dirty' = IF j.flip THEN dirty \cup {j.item} ELSE dirty
    /\ logged' = [logged EXCEPT ![j.tap] = j.item]
    /\ flips' = IF j.flip THEN [flips EXCEPT ![j.tap] = @ + 1] ELSE flips
    /\ End(r)
    /\ UNCHANGED <<present, outfits, members, composed, into>>

\* The fresh SELECT of the row that won; finding none would be a 500.
LookupWear(r) ==
    /\ pc[r] = "wearLookup"
    /\ End(r)
    /\ UNCHANGED <<rows, history>>

\* setAvailability; the row lock makes it wait for an uncommitted DELETE.
SetAvailability(g) ==
    /\ g \in present /\ Settled(g)
    /\ dirty' \in {dirty \cup {g}, dirty \ {g}}
    /\ UNCHANGED <<present, outfits, members, wear, pc, job, pending, history>>
-----------------------------------------------------------------------------
(* Outfits: createWithItems, remove.                                       *)

InsertOutfit(r, j) ==
    /\ \A s \in Requests : ~(pc[s] = "outfitCommit" /\ job[s].outfit = j.outfit)
    /\ \/ j.outfit \in outfits /\ Enter(r, "outfitLookup", j)
       \/ /\ j.outfit \notin outfits
          /\ j.items \subseteq present /\ \A g \in j.items : Settled(g)
          /\ Enter(r, "outfitCommit", j)
    /\ UNCHANGED <<rows, pending, history>>

CommitOutfit(r) ==
    LET j == job[r] IN
    /\ pc[r] = "outfitCommit"
    /\ outfits' = outfits \cup {j.outfit}
    /\ members' = members \cup ({j.outfit} \X j.items)
    /\ composed' = [composed EXCEPT ![j.outfit] = j.items]
    /\ End(r)
    /\ UNCHANGED <<present, dirty, wear, logged, into, flips>>

LookupOutfit(r) ==
    /\ pc[r] = "outfitLookup"
    /\ End(r)
    /\ UNCHANGED <<rows, history>>

\* DELETE of the outfit with its cascades: members go, wear rows keep their
\* garment and lose the outfit (migration 0018).  It waits for uncommitted
\* wear rows of the outfit and for the rows a merge has locked.
DeleteOutfit(o) ==
    /\ o \in outfits
    /\ \A r \in Requests :
         /\ ~(pc[r] = "wearCommit" /\ job[r].outfit = o)
         /\ \A g \in Garments : <<o, g>> \in members => ~HoldsMember(r, o, g)
         /\ \A t \in moved[r] : wear[t].outfit # o
    /\ outfits' = outfits \ {o}
    /\ members' = {m \in members : m[1] # o}
    /\ wear' = [t \in Taps |-> IF wear[t] # NoRow /\ wear[t].outfit = o
                                 THEN [wear[t] EXCEPT !.outfit = NoOutfit]
                                 ELSE wear[t]]
    /\ UNCHANGED <<present, dirty, pc, job, pending, history>>

-----------------------------------------------------------------------------
(* merge_keep_one, statement by statement.                                 *)

\* The existence checks are plain SELECTs: they lock nothing.
StartMerge(r, j) ==
    /\ {j.keep, j.discard} \subseteq present
    /\ Enter(r, "mergeWear", j)
    /\ UNCHANGED <<rows, pending, history>>

WearOf(g) == {t \in Taps : wear[t] # NoRow /\ wear[t].item = g}

\* UPDATE wear_log: the rows a snapshot shows on the discard.
MergeWear(r) ==
    LET d == job[r].discard
        k == job[r].keep IN
    /\ Goto(r, "mergeWear", "mergeDups")
    /\ \A s \in Requests : moved[s] \cap WearOf(d) = {}
    /\ WearOf(d) # {} => k \in present /\ Settled(k)
    /\ moved' = [moved EXCEPT ![r] = WearOf(d)]
    /\ UNCHANGED <<rows, job, dropped, repointed, history>>

OutfitsOf(g) == {o \in Outfits : <<o, g>> \in members}

\* DELETE FROM outfit_items: the discard where keep is a member too.
MergeDups(r) ==
    LET d == job[r].discard
        both == OutfitsOf(d) \cap OutfitsOf(job[r].keep) IN
    /\ Goto(r, "mergeDups", "mergeMembers")
    /\ \A s \in Requests, o \in both : ~HoldsMember(s, o, d)
    /\ dropped' = [dropped EXCEPT ![r] = both]
    /\ UNCHANGED <<rows, job, moved, repointed, history>>

\* UPDATE outfit_items: the remaining memberships of the discard.  An outfit
\* that has come to hold both meanwhile violates UNIQUE (outfit_id, item_id).
MergeMembers(r) ==
    LET d == job[r].discard
        k == job[r].keep
        rest == OutfitsOf(d) \ dropped[r] IN
    /\ Goto(r, "mergeMembers", "mergeDelete")
    /\ \A s \in Requests \ {r}, o \in rest :
         /\ ~HoldsMember(s, o, d) /\ ~HoldsMember(s, o, k)
         /\ ~(Merging(s) /\ job[s].keep = k /\ o \in repointed[s])
    /\ rest # {} => k \in present /\ Settled(k)
    /\ rest \cap OutfitsOf(k) = {}
    /\ repointed' = [repointed EXCEPT ![r] = rest]
    /\ UNCHANGED <<rows, job, moved, dropped, history>>

Bug_MergeDeleteCascades(r) ==
    LET d == job[r].discard IN
    /\ Goto(r, "mergeDelete", "mergeCommit")
    /\ Settled(d)
    /\ \A s \in Requests \ {r} : ~KeyShares(s, d) /\ \A o \in Outfits : ~HoldsMember(s, o, d)
    /\ UNCHANGED <<rows, job, pending, history>>

Bug_MergeDeleteNoWait(r) ==
    /\ Goto(r, "mergeDelete", "mergeCommit")
    /\ Settled(job[r].discard)
    /\ WearOf(job[r].discard) \subseteq moved[r]
    /\ UNCHANGED <<rows, job, pending, history>>

\* DELETE FROM wardrobe_items: waits for everyone who holds the discard, then
\* ON DELETE RESTRICT looks for wear rows that came in since.
MergeDelete(r) ==
    LET d == job[r].discard IN
    /\ Goto(r, "mergeDelete", "mergeCommit")
    /\ Settled(d)
    /\ \A s \in Requests \ {r} :
         /\ ~KeyShares(s, d)
         /\ \A o \in Outfits : ~HoldsMember(s, o, d)
    /\ WearOf(d) \subseteq moved[r]
    /\ UNCHANGED <<rows, job, pending, history>>

\* What the cascade took along are the memberships of the discard that were left.
CommitMerge(r) ==
    LET d == job[r].discard
        k == job[r].keep IN
    /\ pc[r] = "mergeCommit"
    /\ present' = present \ {d}
    /\ dirty' = dirty \ {d}
    /\ members' = (members \ (Outfits \X {d})) \cup (repointed[r] \X {k})
    /\ wear' = [t \in Taps |-> IF t \in moved[r] THEN [wear[t] EXCEPT !.item = k]
                                                ELSE wear[t]]
    /\ into' = IF d \in present
                 THEN [g \in Garments |-> IF into[g] = d THEN into[k] ELSE into[g]]
                 ELSE into
    /\ End(r)
    /\ UNCHANGED <<outfits, logged, composed, flips>>

\* A statement raised (a foreign key, the unique key, a deadlock the database
\* broke) or the isolate died: the transaction is rolled back.
Rollback(r) ==
    /\ pc[r] # "idle"
    /\ End(r)
    /\ UNCHANGED <<rows, history>>

-----------------------------------------------------------------------------
Append(r) == (\E j \in WearJobs : InsertWear(r, j)) \/ CommitWear(r) \/ LookupWear(r)
Create(r) == (\E j \in OutfitJobs : InsertOutfit(r, j)) \/ CommitOutfit(r) \/ LookupOutfit(r)
Merge(r) ==
    \/ \E j \in MergeJobs : StartMerge(r, j)
    \/ MergeWear(r) \/ MergeDups(r) \/ MergeMembers(r) \/ MergeDelete(r) \/ CommitMerge(r)

Next ==
    \/ \E r \in Requests : Append(r) \/ Create(r) \/ Merge(r) \/ Rollback(r)
    \/ \E g \in Garments : SetAvailability(g)
    \/ \E o \in Outfits : DeleteOutfit(o)

Spec == Init /\ [][Next]_vars

-----------------------------------------------------------------------------
\* Every variable keeps its type.
TypeOK ==
    /\ present \subseteq Garments
    /\ dirty \subseteq present
    /\ outfits \subseteq Outfits
    /\ members \subseteq Outfits \X Garments
    /\ wear \in [Taps -> WearRows \cup {NoRow}]
    /\ pc \in [Requests -> Steps]
    /\ job \in [Requests -> Jobs]
    /\ \A r \in Requests :
         /\ pc[r] \in {"wearCommit", "wearLookup"} => job[r] \in WearJobs
         /\ pc[r] \in {"outfitCommit", "outfitLookup"} => job[r] \in OutfitJobs
         /\ Merging(r) => job[r] \in MergeJobs
    /\ moved \in [Requests -> SUBSET Taps]
    /\ dropped \in [Requests -> SUBSET Outfits]
    /\ repointed \in [Requests -> SUBSET Outfits]
    /\ logged \in [Taps -> Garments \cup {NoRow}]
    /\ composed \in [Outfits -> SUBSET Garments]
    /\ into \in [Garments -> Garments]
    /\ flips \in [Taps -> Nat]

\* The wear history survives every merge: each logged wear is still there and
\* names the garment that stands for the one tapped, which is in the wardrobe.
WearHistoryKept ==
    \A t \in Taps :
        /\ logged[t] = NoRow <=> wear[t] = NoRow
        /\ wear[t] # NoRow =>
             wear[t].item = into[logged[t]] /\ wear[t].item \in present

\* No reference dangles and no garment is twice in an outfit by way of a merge:
\* an outfit's members are garments that stand for those it was created with.
NoStrangers ==
    \A m \in members :
        /\ m[1] \in outfits /\ m[2] \in present
        /\ \E g \in composed[m[1]] : into[g] = m[2]

\* A tap retried, or sent twice at once, finds its row: the look-up after a
\* lost insert never comes back empty.
RetriedTapAnswered == \A r \in Requests : pc[r] = "wearLookup" => wear[job[r].tap] # NoRow

\* However often a tap is sent it dirties its garment once: a late retry does
\* not undo the laundry.
DirtiedOnce == \A t \in Taps : flips[t] <= 1

\* A merge keeps one: the garment a merged one was merged into is still in the
\* wardrobe, by itself or through a further merge.
KeeperStands == \A g \in Garments : into[g] \in present
=============================================================================
