------------------------- MODULE AccountDataProofs -------------------------
(* Theorems about AccountData, for any rows, inserts and number of deletions. *)
EXTENDS AccountData, FiniteSetTheorems, TLAPS

-----------------------------------------------------------------------------
(* The strengthening.                                                      *)

\* The part of TypeOK that the listing does not touch.
RowsTyped ==
    /\ live \subseteq Rows
    /\ wpc \in [Writers -> {"inserting", "committed", "failed"}]
    /\ taken \in [Writers -> SUBSET Rows]
    /\ dpc \in [Deleters -> {"idle", "deleting", "ok", "failed"}]
    /\ call \in [Deleters -> Calls \cup {NoCall}]
    /\ at \in [Deleters -> 1 .. 7]
    /\ aim \in [Deleters -> SUBSET Rows]
    /\ gone \in [Deleters -> SUBSET Rows]
    /\ before \in [Deleters -> SUBSET Rows]
    /\ later \in [Deleters -> SUBSET Rows]

\* A deletion works on rows of the user who asked for it, and only while it runs.
HerRows == \A d \in Deleters :
    /\ \A r \in aim[d] \cup gone[d] \cup before[d] : Deleting(d) /\ Genuine(call[d], Owner[r])
    /\ IF Deleting(d) THEN call[d].confirm ELSE at[d] = 1

\* What a deletion has taken is there until it commits and is no other's.
Taken == \A d \in Deleters :
    /\ gone[d] \subseteq live
    /\ \A e \in Deleters : e # d => gone[d] \cap gone[e] = {}
    /\ \A r \in aim[d] : Table[r] = Statements[at[d]]

\* What an insert holds stays until it commits, and its rows are not there before.
Held4Insert == \A w \in Writers :
    /\ taken[w] \subseteq Referred(w) \cap live
    /\ \A d \in Deleters : gone[d] \cap taken[w] = {}
    /\ wpc[w] # "inserting" => taken[w] = {}
    /\ wpc[w] # "committed" => Batch[w] \cap live = {}

\* A committed row has the rows it refers to.
Closed == \A r \in live : Refs[r] \subseteq live

\* A statement that has ended leaves no row that refers to one it deleted.
Cascaded == \A d \in Deleters : \A i \in 1 .. 7 : i < at[d] =>
    \A s \in gone[d], r \in live : Table[s] = Statements[i] /\ s \in Refs[r] => r \in gone[d]

\* A row of the beginning is taken, about to be, of a later statement, or back anew.
Swept == \A d \in Deleters : Deleting(d) => \A r \in before[d] \cap live :
    \/ r \in gone[d] \cup aim[d] \cup later[d]
    \/ \E i \in 1 .. 7 : i > at[d] /\ Table[r] = Statements[i]

AccountInv == RowsTyped /\ HerRows /\ Taken /\ Held4Insert /\ Closed /\ Cascaded /\ Swept

-----------------------------------------------------------------------------
(* The statements and the keys.                                            *)

LEMMA SevenStatements ==
    /\ Len(Statements) = 7
    /\ \A i, j \in 1 .. 7 : Statements[i] = Statements[j] => i = j
    /\ Statements[1] = "wear_log" /\ Statements[7] = "subscriptions"
  BY DEF Statements

LEMMA TableHasStatement ==
    ASSUME NEW r \in Rows
    PROVE  \E i \in 1 .. 7 : Table[r] = Statements[i]
<1>1. Table[r] \in ToSet(Statements)
  BY RowAssumption
<1>2. DOMAIN Statements = 1 .. 7
  BY DEF Statements
<1> QED
  BY <1>1, <1>2 DEF ToSet

\* Who can refer to what.
LEMMA Keys ==
    ASSUME NEW r \in Rows, NEW s \in Refs[r]
    PROVE  /\ s \in Rows /\ Owner[s] = Owner[r]
           /\ Table[r] \in {"wardrobe_items", "wear_log", "outfit_items"}
           /\ Table[s] \in {"parse_jobs", "wardrobe_items", "outfits"}
  BY RowAssumption DEF ForeignKeys

\* The row of an owner is asked for by a genuine call of the owner only.
LEMMA SubjectIsGenuine ==
    ASSUME NEW token, NEW r \in Rows, Owner[r] = Subject(token)
    PROVE  /\ token.signed /\ token.ours /\ token.expiry = "ahead" /\ token.sub = Owner[r]
  BY RowAssumption DEF Subject

LEMMA GenuineIsSubject ==
    ASSUME NEW c, NEW r \in Rows, Genuine(c, Owner[r])
    PROVE  Owner[r] = Subject(c.token)
  BY DEF Genuine, Subject, Users

-----------------------------------------------------------------------------
LEMMA InitInv == Init => AccountInv
<1> SUFFICES ASSUME Init PROVE AccountInv
  OBVIOUS
<1>1. RowsTyped
  BY RowAssumption DEF Init, RowsTyped
<1>2. HerRows /\ Taken /\ Cascaded /\ Swept
  BY DEF Init, HerRows, Taken, Cascaded, Swept, Deleting
<1>3. Held4Insert /\ Closed
  BY RowAssumption, BatchAssumption DEF Init, Held4Insert, Closed
<1> QED
  BY <1>1, <1>2, <1>3 DEF AccountInv

\* An insert that fails lets go of what it holds.
LEMMA FailInsertInv ==
    ASSUME AccountInv, NEW w \in Writers, FailInsert(w), wpc[w] = "inserting",
           UNCHANGED << live, dpc, call, at, aim, gone, before, later >>
    PROVE  AccountInv'
<1>1. /\ wpc'[w] = "failed" /\ taken'[w] = {}
      /\ \A v \in Writers \ {w} : wpc'[v] = wpc[v] /\ taken'[v] = taken[v]
  BY DEF FailInsert, AccountInv, RowsTyped
<1>2. RowsTyped'
  BY DEF FailInsert, AccountInv, RowsTyped
<1>3. (HerRows /\ Taken /\ Closed /\ Cascaded /\ Swept)'
  BY DEF AccountInv, HerRows, Taken, Closed, Cascaded, Swept, Deleting
<1>4. Held4Insert'
  BY <1>1 DEF AccountInv, Held4Insert, Referred
<1> QED
  BY <1>2, <1>3, <1>4 DEF AccountInv

LEMMA CheckKeyInv ==
    ASSUME AccountInv, NEW w \in Writers, NEW r \in Referred(w), CheckKey(w, r)
    PROVE  AccountInv'
<1>1. /\ UNCHANGED << live, dpc, call, at, aim, gone, before, later >>
      /\ wpc[w] = "inserting" /\ \A d \in Deleters : r \notin gone[d]
  BY DEF CheckKey
<1>2. \/ r \in live /\ taken' = [taken EXCEPT ![w] = taken[w] \cup {r}] /\ wpc' = wpc
      \/ FailInsert(w)
  BY DEF CheckKey
<1>3. CASE FailInsert(w)
  BY <1>1, <1>3, FailInsertInv
<1>4. CASE r \in live /\ taken' = [taken EXCEPT ![w] = taken[w] \cup {r}] /\ wpc' = wpc
  <2>1. /\ taken'[w] = taken[w] \cup {r}
        /\ \A v \in Writers \ {w} : taken'[v] = taken[v]
    BY <1>4 DEF AccountInv, RowsTyped
  <2>2. RowsTyped'
    BY <1>1, <1>4 DEF AccountInv, RowsTyped
  <2>3. (HerRows /\ Taken /\ Closed /\ Cascaded /\ Swept)'
    BY <1>1 DEF AccountInv, HerRows, Taken, Closed, Cascaded, Swept, Deleting
  <2>4. Held4Insert'
    BY <1>1, <1>4, <2>1 DEF AccountInv, Held4Insert, Referred
  <2> QED
    BY <2>2, <2>3, <2>4 DEF AccountInv
<1> QED
  BY <1>2, <1>3, <1>4

LEMMA InsertDeadlockedInv ==
    ASSUME AccountInv, NEW w \in Writers, InsertDeadlocked(w)
    PROVE  AccountInv'
<1>1. wpc[w] = "inserting"
  BY TransactionAssumption DEF InsertDeadlocked, Deadlocked, Ring, Waits
<1> QED
  BY <1>1, FailInsertInv DEF InsertDeadlocked

LEMMA CommitInsertInv ==
    ASSUME AccountInv, NEW w \in Writers, CommitInsert(w)
    PROVE  AccountInv'
<1> USE DEF CommitInsert
<1>1. /\ Batch[w] \subseteq Rows /\ Batch[w] \cap live = {}
      /\ wpc[w] = "inserting" /\ taken[w] = Referred(w)
  BY BatchAssumption DEF AccountInv, Held4Insert
<1>2. RowsTyped'
  BY <1>1 DEF AccountInv, RowsTyped
<1>3. HerRows' /\ Taken'
  BY DEF AccountInv, HerRows, Taken, Deleting
<1>4. \A r \in Batch[w] : Refs[r] \subseteq Referred(w) \cup Batch[w]
  BY DEF Referred
<1>5. Referred(w) \subseteq live /\ \A d \in Deleters : gone[d] \cap Referred(w) = {}
  BY <1>1 DEF AccountInv, Held4Insert
<1>6. Held4Insert'
  <2>1. \A v \in Writers : v # w =>
            Batch[v] \cap Batch[w] = {} /\ wpc'[v] = wpc[v] /\ taken'[v] = taken[v]
    BY BatchAssumption DEF AccountInv, RowsTyped
  <2>2. wpc'[w] = "committed" /\ taken'[w] = {} /\ live' = live \cup Batch[w] /\ gone' = gone
    BY DEF AccountInv, RowsTyped
  <2> QED
    BY <2>1, <2>2 DEF AccountInv, Held4Insert, Referred
<1>7. Closed'
  BY <1>4, <1>5 DEF AccountInv, Closed
<1>8. Cascaded'
  <2> SUFFICES ASSUME NEW d \in Deleters, NEW i \in 1 .. 7, i < at[d], NEW s \in gone[d],
                      NEW r \in live', Table[s] = Statements[i], s \in Refs[r]
               PROVE  r \in gone[d]
    BY DEF Cascaded
  <2>1. s \in live
    BY DEF AccountInv, Taken
  <2>2. r \notin Batch[w]
    BY <1>1, <1>4, <1>5, <2>1
  <2> QED
    BY <2>2 DEF AccountInv, Cascaded
<1>9. Swept'
  BY DEF AccountInv, RowsTyped, Swept, Deleting
<1> QED
  BY <1>2, <1>3, <1>6, <1>7, <1>8, <1>9 DEF AccountInv

LEMMA MergeAwayInv ==
    ASSUME AccountInv, NEW g \in Discards, MergeAway(g)
    PROVE  AccountInv'
<1> USE DEF MergeAway
<1>1. RowsTyped' /\ HerRows' /\ Taken'
  BY DEF AccountInv, RowsTyped, HerRows, Taken, Deleting
<1>2. Held4Insert'
  BY DEF AccountInv, Held4Insert, Held, Referred
<1>3. (Closed /\ Cascaded /\ Swept)'
  BY DEF AccountInv, Closed, Cascaded, Swept, Deleting
<1> QED
  BY <1>1, <1>2, <1>3 DEF AccountInv

LEMMA DeleteMyAccountInv ==
    ASSUME AccountInv, NEW d \in Deleters, NEW c \in Calls, DeleteMyAccount(d, c)
    PROVE  AccountInv'
<1> USE DEF DeleteMyAccount
<1>0. gone[d] = {} /\ aim[d] = {} /\ before[d] = {} /\ gone' = gone
  BY DEF AccountInv, HerRows, Deleting
<1>1. /\ dpc' = [dpc EXCEPT ![d] = "deleting"] /\ call' = [call EXCEPT ![d] = c] /\ call'[d] = c
      /\ c.confirm
  BY DEF Wants, AccountInv, RowsTyped
<1>2. aim' = [aim EXCEPT ![d] = Targets(d, 1)]
      /\ before' = [before EXCEPT ![d] = ExportDocument(Subject(c.token))]
  OBVIOUS
<1>3. Targets(d, 1) = { r \in live : Table[r] = Statements[1] /\ Owner[r] = Subject(c.token) }
  BY <1>0, <1>1 DEF Targets
<1>4. ExportDocument(Subject(c.token)) = { r \in live : Owner[r] = Subject(c.token) }
  BY DEF ExportDocument
<1>5. RowsTyped'
  <2>1. Targets(d, 1) \subseteq Rows /\ ExportDocument(Subject(c.token)) \subseteq Rows
    BY <1>3, <1>4 DEF AccountInv, RowsTyped
  <2> QED
    BY <1>1, <1>2, <2>1 DEF AccountInv, RowsTyped
<1>6. HerRows'
  <2>1. \A r \in aim'[d] \cup before'[d] : r \in Rows /\ Owner[r] = Subject(c.token)
    BY <1>2, <1>3, <1>4 DEF AccountInv, RowsTyped
  <2>2. \A r \in aim'[d] \cup before'[d] : Genuine(c, Owner[r])
    BY <1>1, <2>1, SubjectIsGenuine DEF Genuine
  <2>3. Deleting(d)' /\ gone'[d] = {} /\ call'[d].confirm
    BY <1>0, <1>1 DEF AccountInv, RowsTyped, Deleting
  <2>4. ASSUME NEW e \in Deleters, e # d
        PROVE  /\ aim'[e] = aim[e] /\ before'[e] = before[e] /\ gone'[e] = gone[e]
               /\ call'[e] = call[e] /\ at'[e] = at[e] /\ Deleting(e)' = Deleting(e)
    BY <1>1, <1>2, <2>4 DEF AccountInv, RowsTyped, Deleting
  <2> QED
    BY <1>1, <2>2, <2>3, <2>4 DEF AccountInv, HerRows
<1>7. Cascaded' /\ Closed' /\ Held4Insert'
  BY <1>0 DEF AccountInv, Cascaded, Closed, Held4Insert, Referred
<1>8. Taken'
  <2>1. at[d] = 1 /\ at' = at /\ live' = live
    BY <1>1 DEF AccountInv, HerRows, Deleting
  <2> QED
    BY <1>0, <1>2, <1>3, <2>1 DEF AccountInv, RowsTyped, Taken
<1>9. Swept'
  <2>1. at[d] = 1 /\ at' = at /\ live' = live /\ later' = later
    BY <1>1 DEF AccountInv, HerRows, Deleting
  <2>2. ASSUME NEW e \in Deleters, Deleting(e)', NEW r \in before'[e] \cap live'
        PROVE  \/ r \in gone'[e] \cup aim'[e] \cup later'[e]
               \/ \E i \in 1 .. 7 : i > at'[e] /\ Table[r] = Statements[i]
    <3>1. CASE e # d
      BY <1>1, <1>2, <2>1, <2>2, <3>1 DEF AccountInv, RowsTyped, Swept, Deleting
    <3>2. CASE e = d
      <4>1. r \in live /\ r \in Rows /\ Owner[r] = Subject(c.token)
        BY <1>2, <1>4, <2>2, <3>2 DEF AccountInv, RowsTyped
      <4>2. PICK i \in 1 .. 7 : Table[r] = Statements[i]
        BY <4>1, TableHasStatement
      <4>3. CASE i = 1
        BY <1>2, <1>3, <3>2, <4>1, <4>2, <4>3 DEF AccountInv, RowsTyped
      <4>4. CASE i > 1
        BY <2>1, <3>2, <4>2, <4>4
      <4> QED
        BY <4>3, <4>4
    <3> QED
      BY <3>1, <3>2
  <2> QED
    BY <2>2 DEF Swept
<1> QED
  BY <1>5, <1>6, <1>7, <1>8, <1>9 DEF AccountInv

LEMMA TakeRowInv ==
    ASSUME AccountInv, NEW d \in Deleters, NEW r \in aim[d], TakeRow(d, r)
    PROVE  AccountInv'
<1> USE DEF TakeRow
<1>1. /\ aim' = [aim EXCEPT ![d] = aim[d] \ {r}]
      /\ gone' = [gone EXCEPT ![d] = IF r \in live THEN gone[d] \cup {r} ELSE gone[d]]
      /\ UNCHANGED << live, wpc, taken, dpc, call, at, before, later >>
  OBVIOUS
<1>2. /\ aim'[d] = aim[d] \ {r} /\ gone'[d] = (gone[d] \cup {r}) \cap live
      /\ \A e \in Deleters \ {d} : aim'[e] = aim[e] /\ gone'[e] = gone[e]
  BY <1>1 DEF AccountInv, RowsTyped, Taken
<1>3. RowsTyped'
  BY <1>1 DEF AccountInv, RowsTyped
<1>4. HerRows'
  BY <1>1, <1>2 DEF AccountInv, HerRows, Deleting
<1>5. Taken'
  BY <1>1, <1>2 DEF AccountInv, Taken, HeldByDeletion
<1>6. Held4Insert' /\ Closed'
  BY <1>1, <1>2 DEF AccountInv, Held4Insert, Closed, Held, Referred, AboutToTake
<1>7. Cascaded'
  <2> SUFFICES ASSUME NEW e \in Deleters, NEW i \in 1 .. 7, i < at[e], NEW s \in gone'[e],
                      NEW q \in live, Table[s] = Statements[i], s \in Refs[q]
               PROVE  q \in gone'[e]
    BY <1>1 DEF Cascaded
  <2>1. Table[r] = Statements[at[d]] /\ at[d] \in 1 .. 7
    BY DEF AccountInv, RowsTyped, Taken
  <2>2. s \in gone[e]
    BY <1>2, <2>1, SevenStatements
  <2>3. q \in gone[e]
    BY <2>2 DEF AccountInv, Cascaded
  <2> QED
    BY <1>2, <2>3 DEF AccountInv, Taken
<1>8. Swept'
  BY <1>1, <1>2 DEF AccountInv, Swept, Deleting
<1> QED
  BY <1>3, <1>4, <1>5, <1>6, <1>7, <1>8 DEF AccountInv

LEMMA EndStatementInv ==
    ASSUME AccountInv, NEW d \in Deleters, EndStatement(d)
    PROVE  AccountInv'
<1>1. /\ Deleting(d) /\ aim[d] = {} /\ at[d] < 7 /\ ~Refused(d)
      /\ \A r \in Cascades(d) : ~HeldByDeletion(d, r)
      /\ gone' = [gone EXCEPT ![d] = gone[d] \cup Cascades(d)]
      /\ at' = [at EXCEPT ![d] = at[d] + 1]
      /\ aim' = [aim EXCEPT ![d] = Targets(d, at[d] + 1)]
      /\ UNCHANGED << live, wpc, taken, dpc, call, before, later >>
  BY SevenStatements DEF EndStatement
<1>2. /\ gone'[d] = gone[d] \cup Cascades(d) /\ at'[d] = at[d] + 1
      /\ aim'[d] = Targets(d, at[d] + 1)
      /\ \A e \in Deleters \ {d} : gone'[e] = gone[e] /\ at'[e] = at[e] /\ aim'[e] = aim[e]
  BY <1>1 DEF AccountInv, RowsTyped
<1>3. Targets(d, at[d] + 1) = { r \in live \ gone'[d] :
          Table[r] = Statements[at[d] + 1] /\ Owner[r] = Subject(call[d].token) }
  BY <1>1 DEF Targets
<1>4. /\ Cascades(d) \subseteq live
      /\ \A r \in Cascades(d) : /\ Table[r] = "outfit_items"
                                /\ \E s \in gone[d] : s \in Refs[r]
  BY DEF Cascades, Children
<1>5. live \subseteq Rows /\ at[d] \in 1 .. 7 /\ at[d] + 1 \in 1 .. 7
  BY <1>1 DEF AccountInv, RowsTyped
<1>6. RowsTyped'
  <2>1. Targets(d, at[d] + 1) \subseteq Rows /\ Cascades(d) \subseteq Rows
    BY <1>3, <1>4, <1>5
  <2> QED
    BY <1>1, <1>5, <2>1 DEF AccountInv, RowsTyped
<1>7. HerRows'
  <2>1. \A r \in Cascades(d) : Genuine(call[d], Owner[r])
    BY <1>4, <1>5, Keys DEF AccountInv, HerRows
  <2>2. call[d].confirm
    BY <1>1 DEF AccountInv, HerRows
  <2>3. \A r \in aim'[d] : Genuine(call[d], Owner[r])
    BY <1>2, <1>3, <1>5, <2>2, SubjectIsGenuine DEF Genuine
  <2> QED
    BY <1>1, <1>2, <2>1, <2>2, <2>3 DEF AccountInv, HerRows, Deleting
<1>8. Taken'
  BY <1>1, <1>2, <1>3, <1>4 DEF AccountInv, Taken, HeldByDeletion
<1>9. Held4Insert' /\ Closed'
  <2>1. \A w \in Writers : Cascades(d) \cap Referred(w) = {}
    BY <1>4, Keys, BatchAssumption DEF Referred
  <2> QED
    BY <1>1, <1>2, <2>1 DEF AccountInv, Held4Insert, Closed, Referred
<1>10. Cascaded'
  <2> SUFFICES ASSUME NEW e \in Deleters, NEW i \in 1 .. 7, i < at'[e], NEW s \in gone'[e],
                      NEW r \in live, Table[s] = Statements[i], s \in Refs[r]
               PROVE  r \in gone'[e]
    BY <1>1 DEF Cascaded
  <2>1. s \in gone[e]
    BY <1>2, <1>4, <1>5, Keys
  <2>2. CASE i < at[e]
    BY <1>2, <2>1, <2>2 DEF AccountInv, Cascaded
  <2>3. CASE ~(i < at[e])
    <3>1. e = d /\ i = at[d]
      BY <1>2, <1>5, <2>3
    <3>2. CASE r \notin gone[d]
      <4>1. r \in Children(d, Table[r])
        BY <2>1, <3>1, <3>2 DEF Children
      <4>2. Table[r] = "outfit_items"
        BY <1>1, <1>5, <4>1, Keys DEF Refused
      <4> QED
        BY <1>2, <3>1, <4>1, <4>2 DEF Cascades
    <3> QED
      BY <1>2, <3>1, <3>2
  <2> QED
    BY <2>2, <2>3
<1>11. Swept'
  <2> SUFFICES ASSUME NEW e \in Deleters, Deleting(e), NEW r \in before[e] \cap live
               PROVE  \/ r \in gone'[e] \cup aim'[e] \cup later[e]
                      \/ \E i \in 1 .. 7 : i > at'[e] /\ Table[r] = Statements[i]
    BY <1>1 DEF Swept, Deleting
  <2>1. \/ r \in gone[e] \cup aim[e] \cup later[e]
        \/ \E i \in 1 .. 7 : i > at[e] /\ Table[r] = Statements[i]
    BY DEF AccountInv, Swept
  <2>2. CASE e # d
    BY <1>2, <2>1, <2>2
  <2>3. CASE e = d /\ r \in gone[e] \cup aim[e] \cup later[e]
    BY <1>1, <1>2, <2>3
  <2>4. CASE e = d /\ \E i \in 1 .. 7 : i > at[e] /\ Table[r] = Statements[i]
    <3>1. PICK i \in 1 .. 7 : i > at[d] /\ Table[r] = Statements[i]
      BY <2>4
    <3>2. Owner[r] = Subject(call[d].token)
      BY <1>5, <2>4, GenuineIsSubject DEF AccountInv, HerRows
    <3>3. CASE i = at[d] + 1
      BY <1>2, <1>3, <2>4, <3>1, <3>2, <3>3
    <3>4. CASE i > at[d] + 1
      BY <1>2, <2>4, <3>1, <3>4
    <3> QED
      BY <1>5, <3>1, <3>3, <3>4
  <2> QED
    BY <2>1, <2>2, <2>3, <2>4
<1> QED
  BY <1>6, <1>7, <1>8, <1>9, <1>10, <1>11 DEF AccountInv

\* A deletion that closes without having deleted leaves everything as it was.
LEMMA CloseInv ==
    ASSUME AccountInv, NEW d \in Deleters, NEW answer \in {"ok", "failed"}, Close(d, answer),
           aim' \in [Deleters -> SUBSET Rows], aim'[d] = {},
           \A e \in Deleters \ {d} : aim'[e] = aim[e],
           live' = IF answer = "ok" THEN live \ gone[d] ELSE live,
           answer = "ok" => \A r \in live, s \in gone[d] : s \in Refs[r] => r \in gone[d]
    PROVE  AccountInv'
<1> USE DEF Close
<1>1. /\ dpc'[d] = answer /\ at'[d] = 1 /\ gone'[d] = {} /\ before'[d] = {}
      /\ \A e \in Deleters \ {d} :
           /\ dpc'[e] = dpc[e] /\ at'[e] = at[e] /\ call'[e] = call[e]
           /\ gone'[e] = gone[e] /\ before'[e] = before[e] /\ later'[e] = later[e]
      /\ wpc' = wpc /\ taken' = taken
  BY DEF AccountInv, RowsTyped
<1>2. RowsTyped'
  <2>1. live' \subseteq Rows /\ wpc' = wpc /\ taken' = taken
    BY DEF AccountInv, RowsTyped
  <2>2. dpc' \in [Deleters -> {"idle", "deleting", "ok", "failed"}] /\ at' \in [Deleters -> 1 .. 7]
    BY DEF AccountInv, RowsTyped
  <2>3. call' \in [Deleters -> Calls \cup {NoCall}]
    BY DEF AccountInv, RowsTyped
  <2>4. /\ gone' \in [Deleters -> SUBSET Rows] /\ before' \in [Deleters -> SUBSET Rows]
        /\ later' \in [Deleters -> SUBSET Rows]
    BY DEF AccountInv, RowsTyped
  <2> QED
    BY <2>1, <2>2, <2>3, <2>4 DEF AccountInv, RowsTyped
<1>3. HerRows'
  BY <1>1 DEF AccountInv, HerRows, Deleting
<1>4. Taken' /\ Held4Insert' /\ Closed'
  BY <1>1 DEF AccountInv, Taken, Held4Insert, Closed, Referred
<1>5. Cascaded' /\ Swept'
  BY <1>1 DEF AccountInv, Cascaded, Swept, Deleting
<1> QED
  BY <1>2, <1>3, <1>4, <1>5 DEF AccountInv

LEMMA AbortInv ==
    ASSUME AccountInv, NEW d \in Deleters, Abort(d) \/ DeadlockDetected(d)
    PROVE  AccountInv'
<1>1. /\ Close(d, "failed") /\ live' = live /\ aim' \in [Deleters -> SUBSET Rows]
      /\ aim'[d] = {} /\ \A e \in Deleters \ {d} : aim'[e] = aim[e]
  BY DEF Abort, DeadlockDetected, AccountInv, RowsTyped
<1> QED
  BY <1>1, CloseInv

\* At the end of the last statement nothing is left that refers to what is gone.
LEMMA NothingLeftBehind ==
    ASSUME AccountInv, NEW d \in Deleters, at[d] = 7,
           NEW r \in live, NEW s \in gone[d], s \in Refs[r]
    PROVE  r \in gone[d]
<1>1. r \in Rows /\ s \in Rows
  BY DEF AccountInv, RowsTyped
<1>2. PICK i \in 1 .. 7 : Table[s] = Statements[i]
  BY <1>1, TableHasStatement
<1>3. i < 7
  BY <1>1, <1>2, Keys, SevenStatements
<1> QED
  BY <1>2, <1>3 DEF AccountInv, Cascaded

LEMMA CommitDeleteInv ==
    ASSUME AccountInv, NEW d \in Deleters, CommitDelete(d)
    PROVE  AccountInv'
<1>1. /\ Close(d, "ok") /\ live' = live \ gone[d] /\ aim' = aim /\ aim[d] = {} /\ at[d] = 7
  BY SevenStatements DEF CommitDelete
<1>2. \A r \in live, s \in gone[d] : s \in Refs[r] => r \in gone[d]
  BY <1>1, NothingLeftBehind
<1>3. aim \in [Deleters -> SUBSET Rows]
  BY DEF AccountInv, RowsTyped
<1> QED
  BY <1>1, <1>2, <1>3, CloseInv

\* A step of the listing touches nothing of this.
LEMMA FirstPageFrame ==
    ASSUME NEW user, NEW limit, FirstPage(user, limit)
    PROVE  UNCHANGED << live, wpc, taken, dpc, call, at, aim, gone, before, later >>
  BY Zenon DEF FirstPage

LEMMA QuietInv ==
    ASSUME AccountInv, UNCHANGED << live, wpc, taken, dpc, call, at, aim, gone, before, later >>
    PROVE  AccountInv'
<1>1. (RowsTyped /\ HerRows /\ Taken)'
  BY DEF AccountInv, RowsTyped, HerRows, Taken, Deleting
<1>2. (Held4Insert /\ Closed /\ Cascaded /\ Swept)'
  BY DEF AccountInv, Held4Insert, Closed, Cascaded, Swept, Deleting, Referred
<1> QED
  BY <1>1, <1>2 DEF AccountInv

LEMMA NextInv == AccountInv /\ [Next]_vars => AccountInv'
<1> SUFFICES ASSUME AccountInv, [Next]_vars PROVE AccountInv'
  OBVIOUS
<1>1. ASSUME NEW w \in Writers, Inserting(w) PROVE AccountInv'
  BY <1>1, CheckKeyInv, CommitInsertInv, InsertDeadlockedInv DEF Inserting
<1>2. CASE \E g \in Discards : MergeAway(g)
  BY <1>2, MergeAwayInv
<1>3. ASSUME NEW d \in Deleters, Deletion(d) PROVE AccountInv'
  BY <1>3, DeleteMyAccountInv, TakeRowInv, EndStatementInv, AbortInv, CommitDeleteInv DEF Deletion
<1>4. CASE \E user \in Readers, limit \in Limits : FirstPage(user, limit)
  BY <1>4, FirstPageFrame, QuietInv
<1>5. CASE NextPage \/ Settled \/ UNCHANGED vars
  BY <1>5, QuietInv DEF NextPage, Settled, vars
<1> QED
  BY <1>1, <1>2, <1>3, <1>4, <1>5 DEF Next

LEMMA AccountInvHolds == Spec => []AccountInv
  BY InitInv, NextInv, PTL DEF Spec

-----------------------------------------------------------------------------
(* The theorems.                                                           *)

\* Whatever is inserted, merged and deleted at the same time, a committed row
\* has the rows it refers to, in the export of its user as well: the locks of
\* the foreign keys and the order of the seven statements leave no orphan.
THEOREM NoOrphansTheorem == Spec => []NoOrphans
<1>1. AccountInv => NoOrphans
  <2> SUFFICES ASSUME AccountInv, NEW user \in Users, NEW r \in ExportDocument(user),
                      NEW s \in Refs[r]
               PROVE  s \in ExportDocument(user)
    BY DEF NoOrphans
  <2>1. r \in live /\ r \in Rows /\ Owner[r] = user
    BY DEF ExportDocument, AccountInv, RowsTyped
  <2> QED
    BY <2>1, Keys DEF ExportDocument, AccountInv, Closed
<1> QED
  BY <1>1, AccountInvHolds, PTL

\* A deletion that was answered 200 leaves nothing of what the account held when
\* it began, for any number of deletions and inserts at the same time.
THEOREM DeletionIsWholeTheorem == Spec => DeletionIsWhole
<1> DEFINE Whole(d) == Deleting(d) /\ dpc'[d] = "ok" => before[d] \cap live' \subseteq later[d]
<1>1. ASSUME AccountInv, [Next]_vars, NEW d \in Deleters, Deleting(d), dpc'[d] = "ok",
             NEW r \in before[d] \cap live'
      PROVE  r \in later[d]
  <2>1. CommitDelete(d)
    <3>1. \A e \in Deleters \ {d} : ~(Abort(e) \/ DeadlockDetected(e) \/ CommitDelete(e))
      BY <1>1 DEF Abort, DeadlockDetected, CommitDelete, Close, Deleting, AccountInv, RowsTyped
    <3>2. ~Abort(d) /\ ~DeadlockDetected(d)
      BY <1>1 DEF Abort, DeadlockDetected, Close, AccountInv, RowsTyped
    <3>3. dpc' # dpc
      BY <1>1 DEF Deleting
    <3>4. \A e \in Deleters, c \in Calls : ~DeleteMyAccount(e, c)
      BY <1>1 DEF DeleteMyAccount, Deleting, AccountInv, RowsTyped
    <3> QED
      BY <1>1, <3>1, <3>2, <3>3, <3>4, FirstPageFrame
         DEF Next, Deletion, Inserting, CheckKey, CommitInsert, InsertDeadlocked, MergeAway, TakeRow, EndStatement,
             NextPage, Settled, vars
  <2>2. live' = live \ gone[d] /\ aim[d] = {} /\ at[d] = 7
    BY <2>1, SevenStatements DEF CommitDelete
  <2> QED
    BY <1>1, <2>2 DEF AccountInv, Swept
<1>2. AccountInv /\ [Next]_vars => \A d \in Deleters : Whole(d)
  BY <1>1
<1>3. Spec => [][\A d \in Deleters : Whole(d)]_vars
  BY <1>2, AccountInvHolds, PTL DEF Spec
<1> QED
  BY <1>3 DEF DeletionIsWhole

\* A row goes only with its user's account, on a genuine token of hers and her
\* confirmation, or it is a garment merged away that nothing names.
THEOREM OnlyOnHerWordTheorem == Spec => OnlyOnHerWord
<1> DEFINE HerWord ==
      \A r \in live \ live' :
          \/ \E d \in Deleters :
               dpc[d] # "ok" /\ dpc'[d] = "ok" /\ Genuine(call[d], Owner[r])
          \/ Table[r] = "wardrobe_items" /\ \A s \in live : r \notin Refs[s]
<1>1. ASSUME AccountInv, [Next]_vars, NEW r \in live \ live'
      PROVE  \/ \E d \in Deleters :
                  dpc[d] # "ok" /\ dpc'[d] = "ok" /\ Genuine(call[d], Owner[r])
             \/ Table[r] = "wardrobe_items" /\ \A s \in live : r \notin Refs[s]
  <2>1. CASE \E g \in Discards : MergeAway(g)
    BY <1>1, <2>1, RowAssumption DEF MergeAway
  <2>2. CASE \E d \in Deleters : CommitDelete(d)
    <3>1. PICK d \in Deleters : CommitDelete(d)
      BY <2>2
    <3>2. r \in gone[d] /\ Deleting(d) /\ dpc'[d] = "ok"
      BY <1>1, <3>1 DEF CommitDelete, Close, AccountInv, RowsTyped
    <3> QED
      BY <1>1, <3>2 DEF AccountInv, HerRows, Deleting
  <2>3. CASE ~(\E g \in Discards : MergeAway(g)) /\ ~(\E d \in Deleters : CommitDelete(d))
    BY <1>1, <2>3, FirstPageFrame
       DEF Next, Deletion, Inserting, CheckKey, CommitInsert, InsertDeadlocked, DeleteMyAccount, TakeRow, EndStatement, Abort,
           DeadlockDetected, NextPage, Settled, vars
  <2> QED
    BY <2>1, <2>2, <2>3
<1>2. AccountInv /\ [Next]_vars => HerWord
  BY <1>1
<1>3. Spec => [][HerWord]_vars
  BY <1>2, AccountInvHolds, PTL DEF Spec
<1> QED
  BY <1>3 DEF OnlyOnHerWord

-----------------------------------------------------------------------------
(* A quiet deletion succeeds.                                              *)

\* What the account has now it had when the deletion began, or was committed since.
HersKnown == \A d \in Deleters : Deleting(d) => \A r \in live :
    Genuine(call[d], Owner[r]) => r \in before[d] \cup later[d]

\* A deletion has been through the tables before its statement's, and through the
\* places of that table before those it still has to take.
Scanned == \A d \in Deleters : \A r \in gone[d] :
    /\ \E i \in 1 .. 7 : i <= at[d] /\ Table[r] = Statements[i]
    /\ Table[r] = Statements[at[d]] => \A s \in aim[d] : Place[r] < Place[s]

QuietInvariant == HersKnown /\ Scanned

\* The statements are in an order the keys allow: who refers comes first.
LEMMA KeyOrder ==
    ASSUME NEW r \in Rows, NEW s \in Refs[r], NEW i \in 1 .. 7, NEW n \in 1 .. 7,
           Table[r] = Statements[i], Table[s] = Statements[n]
    PROVE  i < n
<1>1. << Table[r], Table[s] >> \in ForeignKeys
  BY RowAssumption
<1>2. << Statements[i], Statements[n] >> \in ForeignKeys
  BY <1>1
<1>3. /\ Statements[i] = "wear_log" => i = 1 
      /\ Statements[i] = "outfit_items" => i = 2
      /\ Statements[i] = "wardrobe_items" => i = 4
      /\ Statements[n] = "wardrobe_items" => n = 4
      /\ Statements[n] = "outfits" => n = 3
      /\ Statements[n] = "parse_jobs" => n = 5
  BY DEF Statements
<1> QED
  BY <1>2, <1>3 DEF ForeignKeys

LEMMA QuietInitial == Init => QuietInvariant
  BY DEF Init, QuietInvariant, HersKnown, Scanned, Deleting

LEMMA QuietBegins ==
    ASSUME AccountInv, QuietInvariant, NEW d \in Deleters, NEW c \in Calls, DeleteMyAccount(d, c)
    PROVE  QuietInvariant'
<1>1. /\ gone[d] = {} /\ gone' = gone /\ live' = live /\ at' = at /\ later' = later
      /\ dpc' = [dpc EXCEPT ![d] = "deleting"] /\ call' = [call EXCEPT ![d] = c]
      /\ aim' = [aim EXCEPT ![d] = Targets(d, 1)]
      /\ before' = [before EXCEPT ![d] = ExportDocument(Subject(c.token))]
  BY DEF DeleteMyAccount, AccountInv, HerRows, Deleting
<1>2. call'[d] = c /\ before'[d] = ExportDocument(Subject(c.token))
  BY <1>1 DEF AccountInv, RowsTyped
<1>3. ASSUME NEW e \in Deleters, e # d
      PROVE  /\ aim'[e] = aim[e] /\ before'[e] = before[e] /\ call'[e] = call[e]
             /\ Deleting(e)' = Deleting(e)
  BY <1>1, <1>3 DEF AccountInv, RowsTyped, Deleting
<1>4. HersKnown'
  <2>1. ASSUME NEW r \in live, Genuine(c, Owner[r]) PROVE r \in ExportDocument(Subject(c.token))
    BY <2>1, GenuineIsSubject DEF ExportDocument, AccountInv, RowsTyped
  <2> QED
    BY <1>1, <1>2, <1>3, <2>1 DEF QuietInvariant, HersKnown
<1>5. Scanned'
  BY <1>1, <1>3 DEF QuietInvariant, Scanned
<1> QED
  BY <1>4, <1>5 DEF QuietInvariant

LEMMA QuietTakes ==
    ASSUME AccountInv, QuietInvariant, NEW d \in Deleters, NEW r \in aim[d], TakeRow(d, r)
    PROVE  QuietInvariant'
<1>1. /\ \A s \in aim[d] : Place[r] <= Place[s]
      /\ UNCHANGED << live, dpc, call, at, before, later >>
      /\ aim'[d] = aim[d] \ {r} /\ gone'[d] \subseteq gone[d] \cup {r}
      /\ \A e \in Deleters \ {d} : aim'[e] = aim[e] /\ gone'[e] = gone[e]
  BY DEF TakeRow, AboutToTake, AccountInv, RowsTyped
<1>2. /\ at[d] \in 1 .. 7 /\ r \in Rows /\ aim[d] \subseteq Rows
      /\ \A s \in aim[d] : Table[s] = Statements[at[d]]
  BY DEF AccountInv, RowsTyped, Taken
<1>3. \A s \in aim[d] \ {r} : Place[r] < Place[s]
  <2> SUFFICES ASSUME NEW s \in aim[d], s # r PROVE Place[r] < Place[s]
    OBVIOUS
  <2>1. Place[r] \in Int /\ Place[s] \in Int /\ Place[r] # Place[s]
    BY <1>2, PlaceAssumption
  <2> QED
    BY <1>1, <2>1
<1>4. HersKnown'
  BY <1>1 DEF QuietInvariant, HersKnown, Deleting
<1>5. Scanned'
  <2> SUFFICES ASSUME NEW e \in Deleters, NEW q \in gone'[e]
               PROVE  /\ \E i \in 1 .. 7 : i <= at[e] /\ Table[q] = Statements[i]
                      /\ Table[q] = Statements[at[e]] => \A s \in aim'[e] : Place[q] < Place[s]
    BY <1>1 DEF Scanned
  <2>1. CASE q \in gone[e]
    BY <1>1, <2>1 DEF QuietInvariant, Scanned
  <2>2. CASE q \notin gone[e]
    <3>1. e = d /\ q = r
      BY <1>1, <2>2
    <3>2. at[d] <= at[d]
      BY <1>2
    <3> QED
      BY <1>1, <1>2, <1>3, <3>1, <3>2
  <2> QED
    BY <2>1, <2>2
<1> QED
  BY <1>4, <1>5 DEF QuietInvariant

LEMMA QuietEnds ==
    ASSUME AccountInv, QuietInvariant, NEW d \in Deleters, EndStatement(d)
    PROVE  QuietInvariant'
<1>1. /\ UNCHANGED << live, dpc, call, before, later >> /\ at[d] < 7
      /\ at'[d] = at[d] + 1 /\ gone'[d] = gone[d] \cup Cascades(d)
      /\ \A e \in Deleters \ {d} : aim'[e] = aim[e] /\ gone'[e] = gone[e] /\ at'[e] = at[e]
  BY SevenStatements DEF EndStatement, AccountInv, RowsTyped
<1>2. /\ at[d] \in 1 .. 7 /\ gone[d] \subseteq Rows /\ Cascades(d) \subseteq Rows
  BY DEF AccountInv, RowsTyped, Cascades, Children
<1>3. HersKnown'
  BY <1>1 DEF QuietInvariant, HersKnown, Deleting
<1>4. ASSUME NEW q \in gone'[d] PROVE \E i \in 1 .. 7 : i <= at[d] /\ Table[q] = Statements[i]
  <2>1. CASE q \in gone[d]
    BY <2>1 DEF QuietInvariant, Scanned
  <2>2. CASE q \in Cascades(d)
    <3>1. PICK s \in Refs[q] : Table[s] = Statements[at[d]]
      BY <2>2 DEF Cascades, Children
    <3>2. PICK i \in 1 .. 7 : Table[q] = Statements[i]
      BY <1>2, <2>2, TableHasStatement
    <3>3. i < at[d]
      BY <1>2, <2>2, <3>1, <3>2, KeyOrder
    <3> QED
      BY <1>2, <3>2, <3>3
  <2> QED
    BY <1>1, <1>4, <2>1, <2>2
<1>5. ASSUME NEW q \in gone'[d] PROVE Table[q] # Statements[at'[d]]
  <2>1. PICK i \in 1 .. 7 : i <= at[d] /\ Table[q] = Statements[i]
    BY <1>4, <1>5
  <2>2. at'[d] \in 1 .. 7 /\ i # at'[d]
    BY <1>1, <1>2, <2>1
  <2> QED
    BY <2>1, <2>2, SevenStatements
<1>6. Scanned'
  <2> SUFFICES ASSUME NEW e \in Deleters, NEW q \in gone'[e]
               PROVE  /\ \E i \in 1 .. 7 : i <= at'[e] /\ Table[q] = Statements[i]
                      /\ Table[q] = Statements[at'[e]] => \A s \in aim'[e] : Place[q] < Place[s]
    BY DEF Scanned
  <2>1. CASE e = d
    BY <1>1, <1>2, <1>4, <1>5, <2>1
  <2>2. CASE e # d
    BY <1>1, <2>2 DEF QuietInvariant, Scanned
  <2> QED
    BY <2>1, <2>2
<1> QED
  BY <1>3, <1>6 DEF QuietInvariant

LEMMA QuietCloses ==
    ASSUME AccountInv, QuietInvariant, NEW d \in Deleters,
           Abort(d) \/ DeadlockDetected(d) \/ CommitDelete(d)
    PROVE  QuietInvariant'
<1>1. PICK answer \in {"ok", "failed"} : Close(d, answer)
  BY DEF Abort, DeadlockDetected, CommitDelete
<1>2. /\ live' \subseteq live /\ \A e \in Deleters \ {d} : aim'[e] = aim[e]
  BY DEF Abort, DeadlockDetected, CommitDelete, AccountInv, RowsTyped
<1>3. /\ ~Deleting(d)' /\ gone'[d] = {}
      /\ \A e \in Deleters \ {d} :
           /\ gone'[e] = gone[e] /\ at'[e] = at[e] /\ call'[e] = call[e]
           /\ before'[e] = before[e] /\ later'[e] = later[e] /\ Deleting(e)' = Deleting(e)
  BY <1>1 DEF Close, AccountInv, RowsTyped, Deleting
<1>4. HersKnown'
  BY <1>2, <1>3 DEF QuietInvariant, HersKnown
<1>5. Scanned'
  BY <1>2, <1>3 DEF QuietInvariant, Scanned
<1> QED
  BY <1>4, <1>5 DEF QuietInvariant

LEMMA QuietNext == AccountInv /\ QuietInvariant /\ [Next]_vars => QuietInvariant'
<1> SUFFICES ASSUME AccountInv, QuietInvariant, [Next]_vars PROVE QuietInvariant'
  OBVIOUS
<1>1. CASE \E w \in Writers : CommitInsert(w)
  <2>1. PICK w \in Writers : CommitInsert(w)
    BY <1>1
  <2>2. /\ UNCHANGED << dpc, call, at, aim, gone, before >> /\ live' = live \cup Batch[w]
        /\ \A d \in Deleters : Deleting(d) => later'[d] = later[d] \cup Batch[w]
    BY <2>1 DEF CommitInsert
  <2>3. HersKnown'
    BY <2>2 DEF QuietInvariant, HersKnown, Deleting
  <2> QED
    BY <2>2, <2>3 DEF QuietInvariant, Scanned
<1>2. CASE \/ \E w \in Writers : (\E r \in Referred(w) : CheckKey(w, r)) \/ InsertDeadlocked(w)
           \/ \E g \in Discards : MergeAway(g)
           \/ \E user \in Readers, limit \in Limits : FirstPage(user, limit)
           \/ NextPage \/ Settled \/ UNCHANGED vars
  <2>1. UNCHANGED << dpc, call, at, aim, gone, before, later >> /\ live' \subseteq live
    <3>1. CASE \E w \in Writers : (\E r \in Referred(w) : CheckKey(w, r)) \/ InsertDeadlocked(w)
      BY <3>1 DEF CheckKey, InsertDeadlocked
    <3>2. CASE \E g \in Discards : MergeAway(g)
      BY <3>2 DEF MergeAway
    <3>3. CASE \E user \in Readers, limit \in Limits : FirstPage(user, limit)
      BY <3>3, FirstPageFrame
    <3>4. CASE NextPage \/ Settled \/ UNCHANGED vars
      BY <3>4 DEF NextPage, Settled, vars
    <3> QED
      BY <1>2, <3>1, <3>2, <3>3, <3>4
  <2> QED
    BY <2>1 DEF QuietInvariant, HersKnown, Scanned, Deleting
<1>3. ASSUME NEW d \in Deleters, Deletion(d) PROVE QuietInvariant'
  BY <1>3, QuietBegins, QuietTakes, QuietEnds, QuietCloses DEF Deletion
<1> QED
  BY <1>1, <1>2, <1>3 DEF Next, Inserting

\* At the end of a statement only rows that came meanwhile refer to what it deleted.
LEMMA NoChildren ==
    ASSUME AccountInv, QuietInvariant, NEW d \in Deleters, Deleting(d), aim[d] = {},
           NEW r \in live \ gone[d], NEW s \in Refs[r] \cap gone[d], Table[s] = Statements[at[d]]
    PROVE  r \in later[d]
<1>1. r \in Rows /\ at[d] \in 1 .. 7
  BY DEF AccountInv, RowsTyped
<1>2. r \in before[d] \cup later[d]
  <2>1. Genuine(call[d], Owner[s])
    BY DEF AccountInv, HerRows
  <2> QED
    BY <1>1, <2>1, Keys DEF QuietInvariant, HersKnown
<1>3. ASSUME NEW i \in 1 .. 7, Table[r] = Statements[i] PROVE i < at[d]
  BY <1>1, <1>3, KeyOrder
<1>4. ASSUME r \in before[d] PROVE r \in later[d]
  <2>1. \/ r \in gone[d] \cup aim[d] \cup later[d]
        \/ \E i \in 1 .. 7 : i > at[d] /\ Table[r] = Statements[i]
    BY <1>4 DEF AccountInv, Swept
  <2> QED
    BY <1>1, <1>3, <2>1
<1> QED
  BY <1>2, <1>4

-----------------------------------------------------------------------------
(* Deletions never wait in a ring.                                         *)

\* e is further than d: in a later statement, or in the same one with only places
\* to come that lie behind one d has still to take.
Further(d, e) ==
    \/ at[d] < at[e]
    \/ at[d] = at[e] /\ \E r \in aim[d] : \A s \in aim[e] : Place[r] < Place[s]

\* Being further orders the deletions strictly.
LEMMA FurtherOrders ==
    ASSUME AccountInv
    PROVE  /\ \A d \in Deleters : ~Further(d, d)
           /\ \A d, e, f \in Deleters : Further(d, e) /\ Further(e, f) => Further(d, f)
<1>1. ASSUME NEW d \in Deleters
      PROVE  at[d] \in Int /\ \A r \in aim[d] : Place[r] \in Int
  BY PlaceAssumption DEF AccountInv, RowsTyped
<1>2. ASSUME NEW d \in Deleters PROVE ~Further(d, d)
  BY <1>1 DEF Further
<1>3. ASSUME NEW d \in Deleters, NEW e \in Deleters, NEW f \in Deleters,
             Further(d, e), Further(e, f)
      PROVE  Further(d, f)
  <2>1. CASE at[d] < at[e] \/ at[e] < at[f]
    <3>1. at[d] <= at[e] /\ at[e] <= at[f]
      BY <1>1, <1>3 DEF Further
    <3>2. at[d] < at[f]
      BY <1>1, <2>1, <3>1
    <3> QED
      BY <3>2 DEF Further
  <2>2. CASE ~(at[d] < at[e] \/ at[e] < at[f])
    <3>1. PICK r \in aim[d] : \A s \in aim[e] : Place[r] < Place[s]
      BY <1>3, <2>2 DEF Further
    <3>2. PICK q \in aim[e] : \A s \in aim[f] : Place[q] < Place[s]
      BY <1>3, <2>2 DEF Further
    <3>3. \A s \in aim[f] : Place[r] < Place[s]
      BY <1>1, <3>1, <3>2
    <3>4. at[d] = at[f]
      BY <1>3, <2>2 DEF Further
    <3> QED
      BY <3>3, <3>4 DEF Further
  <2> QED
    BY <2>1, <2>2
<1> QED
  BY <1>2, <1>3

\* A deletion waits for one that is further, unless something came while it ran.
LEMMA WaitsForFurther ==
    ASSUME AccountInv, QuietInvariant, NEW d \in Deleters, NEW e \in Deleters,
           Waits(d, e), later[d] = {}
    PROVE  Further(d, e)
<1>0. /\ Deleting(d)
      /\ IF aim[d] = {} THEN Cascades(d) \cap gone[e] # {}
         ELSE \E r \in gone[e] : AboutToTake(d, r)
  BY TransactionAssumption DEF Waits
<1>1. aim[d] # {}
  BY <1>0, NoChildren DEF Cascades, Children
<1>2. PICK r \in aim[d] \cap gone[e] : \A s \in aim[d] : Place[r] <= Place[s]
  BY <1>0, <1>1 DEF AboutToTake
<1>3. at[d] \in 1 .. 7 /\ at[e] \in 1 .. 7 /\ Table[r] = Statements[at[d]]
  BY <1>2 DEF AccountInv, RowsTyped, Taken
<1>4. at[d] <= at[e]
  BY <1>2, <1>3, SevenStatements DEF QuietInvariant, Scanned
<1>5. at[d] = at[e] => \A s \in aim[e] : Place[r] < Place[s]
  BY <1>2, <1>3 DEF QuietInvariant, Scanned
<1> QED
  BY <1>2, <1>3, <1>4, <1>5 DEF Further

\* Of deletions that each wait for another of them something was committed while
\* one of them ran.
NoRing ==
    \A S \in SUBSET Deleters :
        IsFiniteSet(S) /\ S # {} /\ (\A d \in S : later[d] = {})
            => \E d \in S : \A e \in S : ~Waits(d, e)

LEMMA NoRingHolds ==
    ASSUME AccountInv, QuietInvariant
    PROVE  NoRing
<1> SUFFICES ASSUME NEW S \in SUBSET Deleters, IsFiniteSet(S), S # {},
                    \A d \in S : later[d] = {}
             PROVE  \E d \in S : \A e \in S : ~Waits(d, e)
  BY DEF NoRing
<1> DEFINE Ahead(d) == { e \in S : Further(d, e) }
           Sizes == { Cardinality(Ahead(d)) : d \in S }
           Less == { ss \in Nat \X Nat : ss[1] < ss[2] }
<1>1. \A d \in S : IsFiniteSet(Ahead(d)) /\ Cardinality(Ahead(d)) \in Nat
  BY FS_Subset, FS_CardinalityType
<1>2. ASSUME NEW d \in S, NEW e \in S, Further(d, e)
      PROVE  Cardinality(Ahead(e)) < Cardinality(Ahead(d))
  <2>1. Ahead(e) \subseteq Ahead(d) /\ e \in Ahead(d) /\ e \notin Ahead(e)
    BY <1>2, FurtherOrders
  <2>2. Ahead(e) # Ahead(d)
    BY <2>1
  <2> HIDE DEF Ahead
  <2>3. Cardinality(Ahead(e)) <= Cardinality(Ahead(d))
        /\ Cardinality(Ahead(e)) # Cardinality(Ahead(d))
    BY <1>1, <2>1, <2>2, FS_Subset
  <2> QED
    BY <1>1, <2>3
<1> HIDE DEF Ahead
<1>3. Sizes \subseteq Nat /\ Sizes # {}
  BY <1>1
<1> HIDE DEF Sizes
<1>4. \E n \in Sizes : \A m \in Sizes : << m, n >> \notin Less
  <2>1. IsWellFoundedOn(Less, Nat)
    BY NatLessThanWellFounded DEF OpToRel
  <2> HIDE DEF Less
  <2> QED
    BY <1>3, <2>1, WFMin
<1>5. PICK n \in Sizes : \A m \in Sizes : ~(m < n)
  BY <1>3, <1>4
<1>6. PICK d \in S : Cardinality(Ahead(d)) = n
  BY DEF Sizes
<1>7. ASSUME NEW e \in S PROVE ~Waits(d, e)
  <2>1. Cardinality(Ahead(e)) \in Sizes
    BY DEF Sizes
  <2>2. ~Further(d, e)
    BY <1>2, <1>5, <1>6, <2>1
  <2> QED
    BY <2>2, WaitsForFurther
<1> QED
  BY <1>7

\* However many copies of delete_my_account run, none form a ring of waits among
\* themselves, a pair or a longer one, while nothing else is committed.
THEOREM NoRingTheorem == Spec => []NoRing
<1>1. Spec => []QuietInvariant
  BY QuietInitial, QuietNext, AccountInvHolds, PTL DEF Spec
<1> QED
  BY <1>1, NoRingHolds, AccountInvHolds, PTL

\* A deletion in a ring of waits: something was committed, or an insert of the
\* ring waits while it holds something.
LEMMA QuietRings ==
    ASSUME AccountInv, QuietInvariant, NoRing, NEW d \in Deleters, Deadlocked(d)
    PROVE  \/ \E e \in Deleters : later[e] # {}
           \/ \E w \in Writers : taken[w] \notin { {}, Referred(w) }
<1>1. PICK S \in SUBSET (Deleters \cup Writers) :
          Ring(S) /\ \A T \in SUBSET S : T # S => ~Ring(T)
  BY DEF Deadlocked
<1>2. ASSUME NEW w \in Writers, w \in S PROVE taken[w] \notin { {}, Referred(w) }
  <2>1. PICK q \in S : q \in Deleters /\ Referred(w) \ taken[w] # {}
    BY <1>1, <1>2, TransactionAssumption DEF Ring, Waits
  <2>2. PICK p \in S \ {w} : Waits(p, w)
    <3>1. q \in S \ {w}
      BY <2>1, TransactionAssumption
    <3>2. ~Ring(S \ {w})
      BY <1>1, <1>2
    <3> QED
      BY <1>1, <3>1, <3>2 DEF Ring
  <2>3. taken[w] # {}
    BY <2>2, TransactionAssumption DEF Waits
  <2> QED
    BY <2>1, <2>3
<1>3. CASE S \subseteq Deleters
  <2>1. IsFiniteSet(S)
    BY <1>3, TransactionAssumption, FS_Subset
  <2> QED
    BY <1>1, <1>3, <2>1 DEF NoRing, Ring
<1> QED
  BY <1>2, <1>3

\* However many copies of a deletion and inserts run, it fails only when something
\* was committed while a copy ran or an insert waits while it holds something: the
\* statements are in the keys' order and every copy takes its rows in the same one.
THEOREM QuietDeletionTheorem == Spec => QuietDeletionSucceeds
<1> DEFINE Reason == \/ \E e \in Deleters : later[e] # {}
                     \/ \E w \in Writers : taken[w] \notin { {}, Referred(w) }
           Busy(d) == Deleting(d) /\ dpc'[d] = "failed" => Reason
<1>1. ASSUME AccountInv, QuietInvariant, [Next]_vars, NEW d \in Deleters, Deleting(d),
             dpc'[d] = "failed"
      PROVE  Reason
  <2>1. Abort(d) \/ DeadlockDetected(d)
    <3>1. ASSUME NEW e \in Deleters, Deletion(e) PROVE e = d
      <4>1. CASE \E c \in Calls : DeleteMyAccount(e, c)
        BY <1>1, <4>1 DEF DeleteMyAccount, Deleting, AccountInv, RowsTyped
      <4>2. CASE \/ \E r \in aim[e] : TakeRow(e, r)
                 \/ EndStatement(e)
        BY <1>1, <4>2 DEF TakeRow, EndStatement, Deleting
      <4>3. CASE Abort(e) \/ DeadlockDetected(e) \/ CommitDelete(e)
        BY <1>1, <4>3 DEF Abort, DeadlockDetected, CommitDelete, Close, Deleting, AccountInv, RowsTyped
      <4> QED
        BY <3>1, <4>1, <4>2, <4>3 DEF Deletion
    <3>2. \E e \in Deleters : Deletion(e)
      <4>1. dpc' # dpc
        BY <1>1 DEF Deleting
      <4>2. /\ ~\E w \in Writers : Inserting(w)
            /\ ~\E g \in Discards : MergeAway(g)
        BY <4>1 DEF Inserting, CheckKey, CommitInsert, InsertDeadlocked, MergeAway
      <4>3. ~\E user \in Readers, limit \in Limits : FirstPage(user, limit)
        BY <4>1, FirstPageFrame
      <4>4. ~(NextPage \/ Settled \/ UNCHANGED vars)
        BY <4>1 DEF NextPage, Settled, vars
      <4> QED
        BY <1>1, <4>2, <4>3, <4>4 DEF Next
    <3>3. Deletion(d)
      BY <3>1, <3>2
    <3>4. ~(\E c \in Calls : DeleteMyAccount(d, c)) /\ ~(\E r \in aim[d] : TakeRow(d, r)) /\ ~EndStatement(d)
      BY <1>1 DEF DeleteMyAccount, TakeRow, EndStatement, Deleting
    <3>5. ~CommitDelete(d)
      BY <1>1 DEF CommitDelete, Close, AccountInv, RowsTyped
    <3> QED
      BY <3>3, <3>4, <3>5 DEF Deletion
  <2>2. CASE Abort(d)
    <3>1. aim[d] = {} /\ \E r \in live \ gone[d] : \E s \in Refs[r] \cap gone[d] : Table[s] = Statements[at[d]]
      BY <2>2 DEF Abort, Refused, Children
    <3> QED
      BY <1>1, <3>1, NoChildren
  <2>3. CASE DeadlockDetected(d)
    BY <1>1, <2>3, NoRingHolds, QuietRings DEF DeadlockDetected
  <2> QED
    BY <2>1, <2>2, <2>3
<1>2. AccountInv /\ QuietInvariant /\ [Next]_vars => \A d \in Deleters : Busy(d)
  BY <1>1
<1>3. Spec => []QuietInvariant
  BY QuietInitial, QuietNext, AccountInvHolds, PTL DEF Spec
<1>4. Spec => [][\A d \in Deleters : Busy(d)]_vars
  BY <1>2, <1>3, AccountInvHolds, PTL DEF Spec
<1> QED
  BY <1>4 DEF QuietDeletionSucceeds

-----------------------------------------------------------------------------
(* The listing.                                                            *)

\* The keyset orders the garments.
LEMMA KeysetOrder ==
    ASSUME NEW g \in Wardrobe, NEW h \in Wardrobe
    PROVE  /\ ~Precedes(g, g)
           /\ g # h => Precedes(g, h) \/ Precedes(h, g)
           /\ \A k \in Wardrobe : Precedes(g, h) /\ Precedes(h, k) => Precedes(g, k)
  BY ListingAssumption DEF Precedes

LEMMA MinOfTwo ==
    ASSUME NEW a \in Int, NEW b \in Int
    PROVE  Min({ a, b }) = IF a <= b THEN a ELSE b
<1>1. \E x \in { a, b } : \A y \in { a, b } : x <= y
  OBVIOUS
<1>2. Min({ a, b }) \in { a, b } /\ \A y \in { a, b } : Min({ a, b }) <= y
  BY <1>1 DEF Min
<1> QED
  BY <1>2

LEMMA LimitClamped ==
    ASSUME NEW limit \in Limits
    PROVE  ClampLimit(limit) \in Nat \ {0}
<1>1. limit \in Int /\ MaxPageSize \in Int
  BY ListingAssumption
<1> QED
  BY <1>1, MinOfTwo, ListingAssumption DEF ClampLimit

Rank(garments, g) == Cardinality({ h \in garments : Precedes(g, h) })

LEMMA RankRange ==
    ASSUME NEW S \in SUBSET Wardrobe
    PROVE  /\ IsFiniteSet(S) /\ Cardinality(S) \in Nat
           /\ \A g \in S : Rank(S, g) \in 0 .. Cardinality(S) - 1
<1>1. IsFiniteSet(S) /\ Cardinality(S) \in Nat
  BY ListingAssumption, FS_Subset, FS_CardinalityType
<1>2. ASSUME NEW g \in S PROVE Rank(S, g) \in 0 .. Cardinality(S) - 1
  <2> DEFINE T == { h \in S : Precedes(g, h) }
  <2>1. T \in SUBSET S /\ g \notin T
    BY KeysetOrder
  <2>2. IsFiniteSet(T) /\ Cardinality(T) <= Cardinality(S) /\ Cardinality(T) # Cardinality(S)
    BY <1>1, <2>1, FS_Subset
  <2>3. Cardinality(T) \in Nat
    BY <2>2, FS_CardinalityType
  <2>4. Rank(S, g) = Cardinality(T)
    BY DEF Rank
  <2> HIDE DEF T
  <2> QED
    BY <1>1, <2>2, <2>3, <2>4
<1> QED
  BY <1>1, <1>2

LEMMA RankOrder ==
    ASSUME NEW S \in SUBSET Wardrobe, NEW g \in S, NEW h \in S
    PROVE  /\ Precedes(g, h) <=> Rank(S, h) < Rank(S, g)
           /\ Rank(S, g) = Rank(S, h) => g = h
<1>1. ASSUME NEW a \in S, NEW b \in S, Precedes(a, b) PROVE Rank(S, b) < Rank(S, a)
  <2> DEFINE A == { k \in S : Precedes(a, k) }
             B == { k \in S : Precedes(b, k) }
  <2>1. B \in SUBSET A /\ b \in A /\ b \notin B
    BY <1>1, KeysetOrder
  <2>2. A \in SUBSET S
    OBVIOUS
  <2> HIDE DEF A, B
  <2>3. IsFiniteSet(A)
    BY <2>2, RankRange, FS_Subset
  <2>4. Cardinality(B) <= Cardinality(A) /\ Cardinality(A) # Cardinality(B) /\ IsFiniteSet(B)
    BY <2>1, <2>3, FS_Subset
  <2>5. Cardinality(A) \in Nat /\ Cardinality(B) \in Nat
    BY <2>3, <2>4, FS_CardinalityType
  <2>6. Rank(S, a) = Cardinality(A) /\ Rank(S, b) = Cardinality(B)
    BY DEF Rank, A, B
  <2> QED
    BY <2>4, <2>5, <2>6
<1>2. Rank(S, g) \in Int /\ Rank(S, h) \in Int
  <2>1. Rank(S, g) \in 0 .. Cardinality(S) - 1 /\ Rank(S, h) \in 0 .. Cardinality(S) - 1
    BY RankRange, Zenon
  <2> QED
    BY <2>1
<1>3. Precedes(g, h) => Rank(S, h) < Rank(S, g)
  BY <1>1
<1>4. Precedes(h, g) => Rank(S, g) < Rank(S, h)
  BY <1>1
<1> QED
  BY <1>2, <1>3, <1>4, KeysetOrder

\* Every place of the order is taken.
LEMMA NthRank ==
    ASSUME NEW S \in SUBSET Wardrobe, NEW n \in 1 .. Cardinality(S)
    PROVE  Nth(S, n) \in S /\ Rank(S, Nth(S, n)) = n - 1
<1> DEFINE c == Cardinality(S)
           f == [g \in S |-> Rank(S, g)]
<1>1. IsFiniteSet(S) /\ c \in Nat /\ \A g \in S : Rank(S, g) \in 0 .. c - 1
  BY RankRange
<1>2. f \in [S -> 0 .. c - 1] /\ n - 1 \in 0 .. c - 1
  BY <1>1
<1>3. IsInjective(f)
  BY RankOrder DEF IsInjective
<1>4. \A g \in S : f[g] = Rank(S, g)
  OBVIOUS
<1> HIDE DEF c, f
<1>5. f \in Injection(S, 0 .. c - 1)
  BY <1>2, <1>3 DEF Injection
<1>6. IsFiniteSet(0 .. c - 1) /\ Cardinality(0 .. c - 1) = c
  <2>1. c - 1 \in Int
    BY <1>1
  <2> QED
    BY <1>1, <2>1, FS_Interval
<1>7. f \in Surjection(S, 0 .. c - 1)
  BY <1>5, <1>6, FS_Injection DEF c
<1>8. \E g \in S : f[g] = n - 1
  BY <1>2, <1>7 DEF Surjection
<1>9. \E g \in S : Rank(S, g) = n - 1
  BY <1>4, <1>8
<1> QED
  BY <1>9 DEF Nth, Rank

Descending(s) == \A i, j \in 1 .. Len(s) : i < j => Precedes(s[j], s[i])

\* The first n of a set of garments: in order, and what is left comes after them.
LEMMA FirstOf ==
    ASSUME NEW S \in SUBSET Wardrobe, NEW n \in Nat, n <= Cardinality(S), NEW page,
           page = [i \in 1 .. n |-> Nth(S, i)]
    PROVE  /\ page \in Seq(S) /\ Len(page) = n /\ Descending(page)
           /\ \A g \in S : \/ \E i \in 1 .. n : page[i] = g
                           \/ n < Cardinality(S) /\ \A i \in 1 .. n : Precedes(g, page[i])
<1>0. Cardinality(S) \in Nat
  BY RankRange
<1>1. \A i \in 1 .. n : page[i] \in S /\ Rank(S, page[i]) = i - 1
  BY <1>0, NthRank
<1>2. page \in [1 .. n -> S]
  BY <1>1
<1>3. page \in Seq(S) /\ Len(page) = n
  BY <1>2
<1>4. Descending(page)
  BY <1>1, <1>3, RankOrder DEF Descending
<1>5. ASSUME NEW g \in S
      PROVE  \/ \E i \in 1 .. n : page[i] = g
             \/ n < Cardinality(S) /\ \A i \in 1 .. n : Precedes(g, page[i])
  <2>1. Rank(S, g) \in 0 .. Cardinality(S) - 1
    BY RankRange
  <2>2. CASE Rank(S, g) < n
    <3>1. Rank(S, g) + 1 \in 1 .. n
      BY <2>1, <2>2
    <3>2. page[Rank(S, g) + 1] \in S /\ Rank(S, page[Rank(S, g) + 1]) = Rank(S, g)
      BY <1>1, <2>1, <3>1
    <3> QED
      BY <3>1, <3>2, RankOrder
  <2>3. CASE n <= Rank(S, g)
    <3>1. \A i \in 1 .. n : Rank(S, page[i]) < Rank(S, g)
      BY <1>1, <2>1, <2>3
    <3> QED
      BY <1>0, <1>1, <2>1, <2>3, <3>1, RankOrder
  <2> QED
    BY <2>1, <2>2, <2>3
<1> QED
  BY <1>3, <1>4, <1>5

Hers(user) == { g \in Wardrobe : Owner[g] = user }

\* A listing of one user, newest first, whose pages but the last were full.
Listings ==
    [ user : Readers \cup {Nobody}, limit : Limits \cup {0}, items : Seq(Wardrobe),
      pages : Nat, more : BOOLEAN ]

InOrder(l) == Descending(l.items) /\ ToSet(l.items) \subseteq Hers(l.user)

FullSoFar(l) ==
    /\ l.user \in Readers /\ l.limit \in Limits /\ l.pages < MaxPages
    /\ Len(l.items) = l.pages * ClampLimit(l.limit)

\* What was there from the first page on is listed or behind the cursor.
Reached(l, garments) ==
    \A g \in garments : g \in ToSet(l.items) \/ (l.more /\ Precedes(g, Last(l.items)))

ListingInv ==
    /\ listing \in Listings /\ InOrder(listing)
    /\ listing.more => FullSoFar(listing) /\ listing.items # << >>
    /\ listing.pages > 0 => kept \subseteq Hers(listing.user) \cap live /\ Reached(listing, kept)
    /\ listing.pages = 0 => ~listing.more

LEMMA ListingInitial == Init => ListingInv
<1> SUFFICES ASSUME Init PROVE ListingInv
  OBVIOUS
<1>1. NoListing \in Listings
  BY DEF NoListing, Listings
<1>2. InOrder(NoListing) /\ ~NoListing.more /\ NoListing.pages = 0
  BY DEF NoListing, InOrder, Descending, ToSet
<1> QED
  BY <1>1, <1>2 DEF Init, ListingInv

\* A page continues the listing.
LEMMA FollowKeeps ==
    ASSUME RowsTyped, NEW l \in Listings, InOrder(l), FullSoFar(l), Follow(l),
           l.items = << >> <=> l.pages = 0,
           NEW garments \in SUBSET Garments(l.user),
           \A g \in garments : \/ l.items = << >> \/ g \in ToSet(l.items)
                               \/ Precedes(g, Last(l.items))
    PROVE  /\ listing' \in Listings /\ InOrder(listing') /\ listing'.pages > 0
           /\ listing'.more => FullSoFar(listing') /\ listing'.items # << >>
           /\ listing'.user = l.user /\ Reached(listing', garments)
<1> DEFINE S == Behind(l.user, l.items)
           n == ClampLimit(l.limit)
           c == Cardinality(S)
           m == Min({ n, c })
           page == Page(l.user, l.limit, l.items)
           items == l.items \o page
<1>1. /\ l.user \in Readers /\ l.limit \in Limits /\ l.items \in Seq(Wardrobe) /\ l.pages \in Nat
      /\ l.pages < MaxPages /\ MaxPages \in Nat /\ Len(l.items) = l.pages * n
      /\ ToSet(l.items) \subseteq Hers(l.user) /\ Descending(l.items)
  BY ListingAssumption DEF Listings, FullSoFar, InOrder
<1>2. n \in Nat \ {0}
  BY <1>1, LimitClamped
<1>3. S \in SUBSET Wardrobe /\ S \subseteq Hers(l.user)
  BY DEF Behind, Garments, Hers
<1>4. c \in Nat
  BY <1>3, RankRange
<1>5. m \in Nat /\ m <= c /\ m <= n /\ (m # n => m = c)
  BY <1>2, <1>4, MinOfTwo
<1>6. page = [i \in 1 .. m |-> Nth(S, i)]
  BY DEF Page
<1>7. /\ listing' = [l EXCEPT !.items = items, !.pages = l.pages + 1,
                              !.more = Len(page) = n /\ l.pages + 1 < MaxPages]
  BY DEF Follow
<1> HIDE DEF S, n, c, m, page
<1>8. /\ page \in Seq(S) /\ Len(page) = m /\ Descending(page)
      /\ \A g \in S : \/ \E i \in 1 .. m : page[i] = g
                      \/ m < c /\ \A i \in 1 .. m : Precedes(g, page[i])
  BY <1>3, <1>5, <1>6, FirstOf DEF c
<1>9. page \in Seq(Wardrobe)
  BY <1>3, <1>8
<1>10. /\ items \in Seq(Wardrobe) /\ Len(items) = Len(l.items) + m
       /\ \A i \in 1 .. Len(l.items) : items[i] = l.items[i]
       /\ \A i \in 1 .. m : items[Len(l.items) + i] = page[i]
       /\ \A i \in 1 .. Len(items) : i > Len(l.items) =>
            i - Len(l.items) \in 1 .. m /\ items[i] = page[i - Len(l.items)]
  <2> DEFINE old == l.items
  <2>1. old \in Seq(Wardrobe) /\ Len(page) = m
    BY <1>1, <1>8
  <2> HIDE DEF old
  <2>2. /\ old \o page \in Seq(Wardrobe) /\ Len(old \o page) = Len(old) + m
        /\ \A i \in 1 .. Len(old) + m :
             (old \o page)[i] = IF i <= Len(old) THEN old[i] ELSE page[i - Len(old)]
    BY <1>9, <2>1
  <2>3. Len(old) \in Nat
    BY <2>1
  <2>4. items = old \o page
    BY DEF old
  <2> HIDE DEF items
  <2>5. /\ items \in Seq(Wardrobe) /\ Len(items) = Len(old) + m
        /\ \A i \in 1 .. Len(old) : items[i] = old[i]
        /\ \A i \in 1 .. m : items[Len(old) + i] = page[i]
        /\ \A i \in 1 .. Len(items) : i > Len(old) =>
             i - Len(old) \in 1 .. m /\ items[i] = page[i - Len(old)]
    BY <1>5, <2>2, <2>3, <2>4
  <2> QED
    BY <2>5 DEF old
<1> HIDE DEF items
<1>11. /\ listing'.user = l.user /\ listing'.limit = l.limit /\ listing'.items = items
       /\ listing'.pages = l.pages + 1
       /\ listing'.more = (Len(page) = n /\ l.pages + 1 < MaxPages)
       /\ listing' \in Listings
  <2> DEFINE more == Len(page) = n /\ l.pages + 1 < MaxPages
  <2>1. more \in BOOLEAN /\ l.pages + 1 \in Nat /\ items \in Seq(Wardrobe)
    BY <1>1, <1>10
  <2>2. listing' = [l EXCEPT !.items = items, !.pages = l.pages + 1, !.more = more]
    BY <1>7
  <2> HIDE DEF more
  <2>3. /\ listing'.user = l.user /\ listing'.limit = l.limit /\ listing'.items = items
        /\ listing'.pages = l.pages + 1 /\ listing'.more = more
        /\ listing' \in Listings
    BY <2>1, <2>2 DEF Listings
  <2> QED
    BY <2>3 DEF more
<1>12. ToSet(items) \subseteq Hers(l.user)
  <2> SUFFICES ASSUME NEW i \in 1 .. Len(items) PROVE items[i] \in Hers(l.user)
    BY <1>10 DEF ToSet
  <2>1. CASE i <= Len(l.items)
    BY <1>1, <1>10, <2>1 DEF ToSet
  <2>2. CASE i > Len(l.items)
    BY <1>3, <1>8, <1>10, <2>2
  <2> QED
    BY <1>1, <1>10, <2>1, <2>2
<1>13. Descending(items)
  <2> SUFFICES ASSUME NEW i \in 1 .. Len(items), NEW k \in 1 .. Len(items), i < k
               PROVE  Precedes(items[k], items[i])
    BY DEF Descending
  <2>0. Len(l.items) \in Nat
    BY <1>1
  <2>1. CASE k <= Len(l.items)
    BY <1>1, <1>10, <2>0, <2>1 DEF Descending
  <2>2. CASE i > Len(l.items)
    BY <1>8, <1>10, <2>0, <2>2 DEF Descending
  <2>3. CASE i <= Len(l.items) /\ k > Len(l.items)
    <3>1. items[k] \in S /\ items[k] \in Wardrobe
      BY <1>3, <1>8, <1>10, <2>3
    <3>2. l.items # << >> /\ Precedes(items[k], Last(l.items))
      BY <1>1, <2>0, <2>3, <3>1 DEF S, Behind
    <3>3. /\ l.items[i] \in Wardrobe /\ Last(l.items) \in Wardrobe
          /\ Last(l.items) = l.items[i] \/ Precedes(Last(l.items), l.items[i])
      BY <1>1, <2>0, <2>3 DEF Last, Descending
    <3>4. items[i] = l.items[i]
      BY <1>10, <2>0, <2>3
    <3> QED
      BY <3>1, <3>2, <3>3, <3>4, KeysetOrder
  <2> QED
    BY <2>0, <2>1, <2>2, <2>3
<1>14. InOrder(listing')
  BY <1>11, <1>12, <1>13 DEF InOrder
<1>15. m = n => Len(items) = (l.pages + 1) * n /\ Last(items) = page[n] /\ n \in 1 .. m
  <2>1. (l.pages + 1) * n = l.pages * n + n
    BY <1>1, <1>2
  <2>2. Len(l.items) \in Nat
    BY <1>1
  <2> QED
    BY <1>1, <1>2, <1>10, <2>1, <2>2 DEF Last
<1>16. listing'.more => FullSoFar(listing') /\ listing'.items # << >>
  <2> SUFFICES ASSUME listing'.more PROVE FullSoFar(listing') /\ listing'.items # << >>
    OBVIOUS
  <2>1. m = n /\ l.pages + 1 < MaxPages
    BY <1>8, <1>11
  <2>2. Len(items) # 0
    BY <1>1, <1>2, <1>10, <2>1
  <2> QED
    BY <1>1, <1>11, <1>15, <2>1, <2>2 DEF FullSoFar, n
<1>17. \A g \in garments : g \in ToSet(l.items) \/ g \in S
  BY DEF S, Behind
<1>18. ToSet(l.items) \subseteq ToSet(items) /\ \A i \in 1 .. m : page[i] \in ToSet(items)
  <2>1. ToSet(items) = { items[i] : i \in 1 .. Len(items) }
    BY <1>10 DEF ToSet
  <2>2. ToSet(l.items) = { l.items[i] : i \in 1 .. Len(l.items) } /\ Len(l.items) \in Nat
    BY <1>1 DEF ToSet
  <2>3. \A i \in 1 .. Len(l.items) : i \in 1 .. Len(items) /\ items[i] = l.items[i]
    BY <1>5, <1>10, <2>2
  <2>4. \A i \in 1 .. m : Len(l.items) + i \in 1 .. Len(items) /\ items[Len(l.items) + i] = page[i]
    BY <1>5, <1>10, <2>2
  <2>5. ToSet(l.items) \subseteq ToSet(items)
    BY <2>1, <2>2, <2>3
  <2>6. ASSUME NEW i \in 1 .. m PROVE page[i] \in ToSet(items)
    BY <2>1, <2>4
  <2> QED
    BY <2>5, <2>6
<1>19. Reached(listing', garments)
  <2> SUFFICES ASSUME NEW g \in garments
               PROVE  g \in ToSet(items) \/ (listing'.more /\ Precedes(g, Last(items)))
    BY <1>11 DEF Reached
  <2>1. CASE m # n
    <3>1. m = c
      BY <1>5, <2>1
    <3>2. CASE g \in S
      <4>1. ~(c < c)
        BY <1>4
      <4>2. \E i \in 1 .. m : page[i] = g
        BY <1>8, <3>1, <3>2, <4>1
      <4> QED
        BY <1>18, <4>2
    <3> QED
      BY <1>17, <1>18, <3>2
  <2>2. CASE m = n /\ l.pages + 1 < MaxPages
    <3>1. listing'.more /\ Last(items) = page[n] /\ n \in 1 .. m
      BY <1>8, <1>11, <1>15, <2>2
    <3>2. CASE g \in S
      <4>1. (\E i \in 1 .. m : page[i] = g) \/ Precedes(g, page[n])
        BY <1>8, <3>1, <3>2
      <4> QED
        BY <1>18, <3>1, <4>1
    <3> QED
      BY <1>17, <1>18, <3>2
  <2>3. CASE m = n /\ ~(l.pages + 1 < MaxPages)
    <3>1. Len(items) = MaxPages * n
      <4>1. l.pages + 1 = MaxPages
        BY <1>1, <2>3
      <4> QED
        BY <1>15, <2>3, <4>1
    <3>2. IsFiniteSet(Hers(l.user)) /\ Cardinality(Hers(l.user)) <= Len(items)
      <4>1. Hers(l.user) \in SUBSET Wardrobe
        BY DEF Hers
      <4> QED
        BY <1>1, <3>1, <4>1, ListingAssumption, FS_Subset DEF Hers, n
    <3>3. items \in [1 .. Len(items) -> Hers(l.user)]
      BY <1>10, <1>12 DEF ToSet
    <3>4. IsInjective(items)
      <4> SUFFICES ASSUME NEW i \in 1 .. Len(items), NEW k \in 1 .. Len(items), items[i] = items[k],
                          i # k
                   PROVE  FALSE
        BY <1>10 DEF IsInjective
      <4>1. items[i] \in Wardrobe
        BY <1>10
      <4>2. i < k \/ k < i
        BY <1>10
      <4> QED
        BY <1>13, <4>1, <4>2, KeysetOrder DEF Descending
    <3>5. items \in Injection(1 .. Len(items), Hers(l.user))
      BY <3>3, <3>4 DEF Injection
    <3>6. Len(items) \in Nat /\ Cardinality(1 .. Len(items)) = Len(items)
      BY <1>10, FS_Interval
    <3>7. items \in Surjection(1 .. Len(items), Hers(l.user))
      <4>1. Cardinality(Hers(l.user)) \in Nat
        BY <3>2, FS_CardinalityType
      <4>2. Cardinality(1 .. Len(items)) <= Cardinality(Hers(l.user))
        BY <3>2, <3>5, FS_Injection
      <4>3. Cardinality(1 .. Len(items)) = Cardinality(Hers(l.user))
        BY <3>2, <3>6, <4>1, <4>2
      <4> QED
        BY <3>2, <3>5, <4>3, FS_Injection
    <3>8. g \in Hers(l.user)
      BY DEF Garments, Hers
    <3> QED
      <4>1. \E i \in 1 .. Len(items) : items[i] = g
        BY <3>7, <3>8 DEF Surjection
      <4>2. DOMAIN items = 1 .. Len(items)
        BY <1>10
      <4> QED
        BY <4>1, <4>2 DEF ToSet
  <2> QED
    BY <2>1, <2>2, <2>3
<1> QED
  BY <1>1, <1>11, <1>14, <1>16, <1>19

LEMMA ListingNext == AccountInv /\ ListingInv /\ [Next]_vars => ListingInv'
<1> SUFFICES ASSUME AccountInv, ListingInv, [Next]_vars PROVE ListingInv'
  OBVIOUS
<1>1. ASSUME NEW user \in Readers, NEW limit \in Limits, FirstPage(user, limit)
      PROVE  ListingInv'
  <2> DEFINE l == [NoListing EXCEPT !.user = user, !.limit = limit]
  <2>1. Follow(l) /\ kept' = Garments(user) /\ live' = live
    BY <1>1 DEF FirstPage
  <2>2. /\ l \in Listings /\ l.items = << >> /\ l.pages = 0 /\ l.user = user
        /\ InOrder(l) /\ FullSoFar(l)
    <3>1. NoListing \in Listings /\ NoListing.items = << >> /\ NoListing.pages = 0
      BY DEF NoListing, Listings
    <3>2. /\ l \in Listings /\ l.items = << >> /\ l.pages = 0 /\ l.user = user /\ l.limit = limit
      BY <3>1 DEF Listings
    <3>3. ClampLimit(limit) \in Nat
      BY LimitClamped
    <3> HIDE DEF l
    <3> QED
      BY <3>2, <3>3, ListingAssumption DEF InOrder, FullSoFar, Descending, ToSet
  <2>3. Garments(user) \subseteq Hers(user) \cap live
    BY DEF Garments, Hers
  <2> HIDE DEF l
  <2>4. /\ listing' \in Listings /\ InOrder(listing') /\ listing'.pages > 0
        /\ listing'.more => FullSoFar(listing') /\ listing'.items # << >>
        /\ listing'.user = l.user /\ Reached(listing', Garments(user))
    BY <2>1, <2>2, FollowKeeps DEF AccountInv
  <2> QED
    BY <2>1, <2>2, <2>3, <2>4 DEF ListingInv, Listings, Hers, InOrder, Descending, Reached,
       FullSoFar, ToSet, Last
<1>2. ASSUME NextPage PROVE ListingInv'
  <2>1. /\ Follow(listing) /\ kept' = kept /\ live' = live
        /\ listing.more /\ listing \in Listings /\ InOrder(listing) /\ FullSoFar(listing)
        /\ listing.items # << >> /\ listing.pages # 0 /\ listing.pages > 0
        /\ kept \subseteq Hers(listing.user) \cap live
        /\ Reached(listing, kept)
    BY <1>2 DEF NextPage, ListingInv, Listings
  <2>2. kept \in SUBSET Garments(listing.user)
    BY <2>1 DEF Garments, Hers, AccountInv, RowsTyped
  <2>3. /\ listing' \in Listings /\ InOrder(listing') /\ listing'.pages > 0
        /\ listing'.more => FullSoFar(listing') /\ listing'.items # << >>
        /\ listing'.user = listing.user /\ Reached(listing', kept)
    BY <2>1, <2>2, FollowKeeps DEF AccountInv, Reached
  <2> QED
    BY <2>1, <2>3 DEF ListingInv, Listings, Hers, InOrder, Descending, Reached,
       FullSoFar, ToSet, Last
<1>3. \/ \E user \in Readers, limit \in Limits : FirstPage(user, limit)
      \/ NextPage
      \/ listing' = listing /\ kept' \subseteq kept /\ \A g \in kept \cap live : g \in kept' => g \in live'
  <2>1. CASE \E w \in Writers : Inserting(w)
    BY <2>1 DEF Inserting, CheckKey, CommitInsert, InsertDeadlocked
  <2>2. CASE \E g \in Discards : MergeAway(g)
    BY <2>2 DEF MergeAway
  <2>3. ASSUME NEW d \in Deleters, Deletion(d)
        PROVE  listing' = listing /\ kept' \subseteq kept /\ \A g \in kept \cap live : g \in kept' => g \in live'
    BY <2>3 DEF Deletion, DeleteMyAccount, TakeRow, EndStatement, Abort, DeadlockDetected,
       CommitDelete, Close
  <2>4. CASE Settled \/ UNCHANGED vars
    BY <2>4 DEF Settled, vars
  <2> QED
    BY <2>1, <2>2, <2>3, <2>4 DEF Next
<1>4. CASE listing' = listing /\ kept' \subseteq kept /\ \A g \in kept \cap live : g \in kept' => g \in live'
  <2>1. ASSUME listing.pages > 0 PROVE kept' \subseteq live'
    BY <1>4, <2>1 DEF ListingInv
  <2> QED
    BY <1>4, <2>1 DEF ListingInv, Reached
<1> QED
  BY <1>1, <1>2, <1>3, <1>4

\* A listing that has ended has every garment that was there from its first page
\* on, and none twice, whatever is inserted, merged and deleted between the pages.
THEOREM ListingTheorem == Spec => []ListingIsExact
<1>1. ListingInv => ListingIsExact
  <2> SUFFICES ASSUME ListingInv PROVE ListingIsExact
    OBVIOUS
  <2>1. listing.pages > 0 /\ ~listing.more => kept \subseteq Listed
    BY DEF ListingInv, Reached, Listed
  <2>2. /\ DOMAIN listing.items = 1 .. Len(listing.items) /\ Descending(listing.items)
        /\ \A i \in 1 .. Len(listing.items) : listing.items[i] \in Wardrobe
    BY DEF ListingInv, Listings, InOrder
  <2>3. ASSUME NEW i \in 1 .. Len(listing.items), NEW k \in 1 .. Len(listing.items),
               listing.items[i] = listing.items[k], i # k
        PROVE  FALSE
    <3>1. i < k \/ k < i
      BY <2>3
    <3> QED
      BY <2>2, <2>3, <3>1, KeysetOrder DEF Descending
  <2>4. IsInjective(listing.items)
    BY <2>2, <2>3 DEF IsInjective
  <2> QED
    BY <2>1, <2>4 DEF ListingIsExact
<1>2. Spec => []ListingInv
  BY ListingInitial, ListingNext, AccountInvHolds, PTL DEF Spec
<1> QED
  BY <1>1, <1>2, PTL

\* Every reachable state is well typed, and a deletion holds rows of its caller only.
THEOREM TypeTheorem == Spec => []TypeOK
<1>1. AccountInv /\ ListingInv => TypeOK
  <2> SUFFICES ASSUME AccountInv, ListingInv PROVE TypeOK
    OBVIOUS
  <2>1. ASSUME NEW d \in Deleters
        PROVE  /\ gone[d] \subseteq live
               /\ \A r \in aim[d] \cup gone[d] : Owner[r] = Subject(call[d].token)
               /\ Deleting(d) \/ aim[d] \cup gone[d] = {}
    <3>1. aim[d] \cup gone[d] \subseteq Rows
      BY DEF AccountInv, RowsTyped
    <3>2. \A r \in aim[d] \cup gone[d] : Deleting(d) /\ Genuine(call[d], Owner[r])
      BY DEF AccountInv, HerRows
    <3> QED
      BY <3>1, <3>2, GenuineIsSubject DEF AccountInv, Taken
  <2>2. ToSet(listing.items) \subseteq Rows
    BY DEF ListingInv, InOrder, Hers, Wardrobe
  <2>3. at \in [Deleters -> 1 .. Len(Statements)]
    BY SevenStatements DEF AccountInv, RowsTyped
  <2>4. taken \in [Writers -> SUBSET live]
    BY DEF AccountInv, RowsTyped, Held4Insert
  <2> QED
    BY <2>1, <2>2, <2>3, <2>4 DEF TypeOK, AccountInv, RowsTyped
<1>2. Spec => []ListingInv
  BY ListingInitial, ListingNext, AccountInvHolds, PTL DEF Spec
<1> QED
  BY <1>1, <1>2, AccountInvHolds, PTL
=============================================================================
