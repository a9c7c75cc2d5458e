----------------------------- MODULE AccountData -----------------------------
(***************************************************************************)
(* The rows of an account and the requests that concern all of them: the   *)
(* deletion, a plpgsql function of seven DELETE statements in one READ     *)
(* COMMITTED transaction (0014), the export, and the paged listing of the  *)
(* wardrobe.  Meanwhile inserts that are one statement each (a wear, an    *)
(* outfit, the garments of a parse) check the keys of their rows one after *)
(* the other, and hold the rows they refer to until they commit.           *)
(*                                                                         *)
(* A statement sees what was committed when it began; it takes its rows    *)
(* one by one and waits for a row that another transaction holds; the      *)
(* foreign keys act when its last row is gone.                             *)
(***************************************************************************)
EXTENDS Integers, Sequences, FiniteSets, SequencesExt, FiniteSetsExt

CONSTANTS
    Rows, Table, Owner, Refs,   \* rows, the table, user and references of each
    Stored,                     \* the rows there are when the behaviour begins
    Place,                      \* where a row lies: a scan of a table goes by it
    CreatedAt, Id,              \* the keyset of a garment, numbers
    Discards,                   \* garments a merge may discard
    Writers, Batch,             \* inserts and the rows each would add
    Deleters,                   \* requests for the deletion of an account
    Tokens,                     \* what may come as a bearer token
    Readers,                    \* users whose wardrobe is listed
    Limits,                     \* limits a listing may ask for
    MaxPageSize,                \* MAX_PAGE_SIZE of pagination.ts
    MaxPages,                   \* MAX_WARDROBE_PAGES of the phone's client
    Nobody                      \* no subject

\* Garments before the wears that RESTRICT them.
Bug_Statements == << "outfit_items", "outfits", "wardrobe_items", "wear_log",
                     "parse_jobs", "palette_profile", "subscriptions" >>

\* The seven DELETEs, in the order of the function.
Statements == << "wear_log", "outfit_items", "outfits", "wardrobe_items",
                 "parse_jobs", "palette_profile", "subscriptions" >>

Users == { Owner[r] : r \in Rows }

\* The composite keys of the schema that act on a deletion: 0003, 0005, 0006.
ForeignKeys ==
    { << "wardrobe_items", "parse_jobs" >>, << "wear_log", "wardrobe_items" >>,
      << "outfit_items", "outfits" >>, << "outfit_items", "wardrobe_items" >> }

\* All garments there may be.
Wardrobe == { r \in Rows : Table[r] = "wardrobe_items" }

\* Total: a limit below one asks for one garment, one above the cap for the cap.
ClampLimit(limit) == IF limit < 1 THEN 1 ELSE Min({ limit, MaxPageSize })

\* A row refers to rows of its user, by a key, that are there before it.
ASSUME RowAssumption ==
    /\ Table \in [Rows -> ToSet(Statements)]
    /\ Refs \in [Rows -> SUBSET Rows]
    /\ \A r \in Rows : \A s \in Refs[r] :
         Owner[s] = Owner[r] /\ << Table[r], Table[s] >> \in ForeignKeys
    /\ \A r \in Rows : Owner[r] # Nobody
    /\ Stored \subseteq Rows
    /\ \A r \in Stored : Refs[r] \subseteq Stored
    /\ \A g \in Discards : g \in Rows /\ Table[g] = "wardrobe_items"

\* An insert makes rows of its own, with fresh ids.
ASSUME BatchAssumption ==
    /\ Batch \in [Writers -> SUBSET Rows]
    /\ \A w \in Writers : Batch[w] \cap Stored = {}
    /\ \A v, w \in Writers : v # w => Batch[v] \cap Batch[w] = {}

\* The transactions.
ASSUME TransactionAssumption == IsFiniteSet(Deleters) /\ Deleters \cap Writers = {}

\* No two rows of a table lie at one place.
ASSUME PlaceAssumption ==
    /\ Place \in [Rows -> Int]
    /\ \A r, s \in Rows : Table[r] = Table[s] /\ Place[r] = Place[s] => r = s

\* The ids of garments differ, and the pages the client asks for hold a wardrobe:
\* its bound is "far past any real closet".
ASSUME ListingAssumption ==
    /\ Limits \subseteq Int /\ MaxPageSize \in Nat \ {0} /\ MaxPages \in Nat \ {0}
    /\ \A g \in Wardrobe : CreatedAt[g] \in Int /\ Id[g] \in Int
    /\ \A g, h \in Wardrobe : Id[g] = Id[h] => g = h
    /\ IsFiniteSet(Wardrobe)
    /\ \A user \in Readers, limit \in Limits :
         Cardinality({ g \in Wardrobe : Owner[g] = user }) <= MaxPages * ClampLimit(limit)

VARIABLES
    live,     \* the committed rows
    wpc,      \* the state of each insert
    taken,    \* the rows it refers to that it holds already
    dpc,      \* the state of each deletion
    call,     \* what each deletion was called with
    at,       \* the statement it is at
    aim,      \* rows its current statement still has to take
    gone,     \* rows it has deleted, not committed
    listing,  \* the paged listing of the phone
    before, later, \* ghost: the rows committed before, and during, a deletion
    kept      \* ghost: the garments there from the first page on

vars == << live, wpc, taken, dpc, call, at, aim, gone, listing, before, later, kept >>

-----------------------------------------------------------------------------
(* withAuth: whose request it is. *)

\* A token without an expiry never goes stale: jose checks a claim that is there.
Bug_Subject(token) ==
    IF token.signed /\ token.ours /\ token.expiry # "past" /\ token.sub \in Users
    THEN token.sub
    ELSE Nobody

\* The verifier asks for a signature of the project, our issuer and audience,
\* an expiry in the future, and a subject that is a user's id.
Subject(token) ==
    IF /\ token.signed
       /\ token.ours
       /\ token.expiry = "ahead"
       /\ token.sub \in Users
    THEN token.sub
    ELSE Nobody

\* The account deletion a token and a body ask for; the body must confirm it.
Wants(c, user) == c.confirm /\ Subject(c.token) = user

-----------------------------------------------------------------------------
(* Row locks and foreign keys. *)

Deleting(d) == dpc[d] = "deleting"

\* The garment of a membership or a wear has no foreign key.
Bug_Referred(w) ==
    { r \in UNION { Refs[s] : s \in Batch[w] } : Table[r] # "wardrobe_items" } \ Batch[w]

\* What the rows an insert adds refer to; it holds those it has checked.
Referred(w) == (UNION { Refs[r] : r \in Batch[w] }) \ Batch[w]
Held(r) == \E w \in Writers : r \in taken[w]

\* Another deletion has deleted the row and has not committed.
HeldByDeletion(d, r) == \E e \in Deleters \ {d} : r \in gone[e]

\* Committed rows that refer to a row the statement has deleted.
Children(d, table) ==
    { r \in live \ gone[d] :
        Table[r] = table /\ \E s \in Refs[r] \cap gone[d] : Table[s] = Statements[at[d]] }

\* ON DELETE CASCADE of the two keys of outfit_items.
Cascades(d) == Children(d, "outfit_items")

\* ON DELETE RESTRICT of the garment a wear names, and the SET NULL of a
\* garment's parse job, which nulls user_id too and so is refused.
Refused(d) == Children(d, "wear_log") \cup Children(d, "wardrobe_items") # {}

-----------------------------------------------------------------------------
NoCall == [token |-> Nobody, confirm |-> FALSE]
NoListing == [user |-> Nobody, limit |-> 0, items |-> << >>, pages |-> 0, more |-> FALSE]

Init ==
    /\ live = Stored
    /\ wpc = [w \in Writers |-> "inserting"]
    /\ taken = [w \in Writers |-> {}]
    /\ dpc = [d \in Deleters |-> "idle"]
    /\ call = [d \in Deleters |-> NoCall]
    /\ at = [d \in Deleters |-> 1]
    /\ aim = [d \in Deleters |-> {}]
    /\ gone = [d \in Deleters |-> {}]
    /\ listing = NoListing
    /\ before = [d \in Deleters |-> {}]
    /\ later = [d \in Deleters |-> {}]
    /\ kept = {}

-----------------------------------------------------------------------------
(* Waiting. *)

\* The row a deletion takes next.
AboutToTake(d, r) == r \in aim[d] /\ \A s \in aim[d] : Place[r] <= Place[s]

\* A deletion waits for whoever holds its next row, or one to cascade to; an
\* insert waits for a deletion that has taken a row it has still to check.
Waits(p, q) ==
    \/ /\ p \in Deleters /\ q \in Deleters \ {p} /\ Deleting(p)
       /\ IF aim[p] = {} THEN Cascades(p) \cap gone[q] # {}
          ELSE \E r \in gone[q] : AboutToTake(p, r)
    \/ p \in Deleters /\ q \in Writers /\ \E r \in taken[q] : AboutToTake(p, r)
    \/ /\ p \in Writers /\ q \in Deleters /\ wpc[p] = "inserting"
       /\ (Referred(p) \ taken[p]) \cap gone[q] # {}

\* Each of them waits for one of them.
Ring(S) == S # {} /\ \A p \in S : \E q \in S : Waits(p, q)

\* Postgres finds the ring, no smaller one in it, and takes one of it back.
Deadlocked(p) ==
    \E S \in SUBSET (Deleters \cup Writers) :
        p \in S /\ Ring(S) /\ \A T \in SUBSET S : T # S => ~Ring(T)

-----------------------------------------------------------------------------
(* The inserts. *)

\* The statement raises and what it holds is free.
FailInsert(w) ==
    /\ wpc' = [wpc EXCEPT ![w] = "failed"]
    /\ taken' = [taken EXCEPT ![w] = {}]

\* An insert checks the key of one more row, in any order: it holds the row if
\* it is there, fails if it is not, and waits for a deletion that has taken it.
CheckKey(w, r) ==
    /\ wpc[w] = "inserting"
    /\ r \in Referred(w) \ taken[w]
    /\ \A d \in Deleters : r \notin gone[d]
    /\ IF r \in live
       THEN taken' = [taken EXCEPT ![w] = @ \cup {r}] /\ UNCHANGED wpc
       ELSE FailInsert(w)
    /\ UNCHANGED << live, dpc, call, at, aim, gone, listing, before, later, kept >>

CommitInsert(w) ==
    /\ wpc[w] = "inserting"
    /\ taken[w] = Referred(w)
    /\ wpc' = [wpc EXCEPT ![w] = "committed"]
    /\ taken' = [taken EXCEPT ![w] = {}]
    /\ live' = live \cup Batch[w]
    /\ later' = [d \in Deleters |-> IF Deleting(d) THEN later[d] \cup Batch[w] ELSE later[d]]
    /\ UNCHANGED << dpc, call, at, aim, gone, listing, before, kept >>

InsertDeadlocked(w) ==
    /\ Deadlocked(w)
    /\ FailInsert(w)
    /\ UNCHANGED << live, dpc, call, at, aim, gone, listing, before, later, kept >>

\* A merge of duplicates deletes a garment that nothing names (any more).  All
\* its steps are in WardrobeStore.
MergeAway(g) ==
    /\ g \in live
    /\ \A r \in live : g \notin Refs[r]
    /\ ~Held(g)
    /\ \A d \in Deleters : g \notin gone[d]
    /\ live' = live \ {g}
    /\ kept' = kept \ {g}
    /\ UNCHANGED << wpc, taken, dpc, call, at, aim, gone, listing, before, later >>

-----------------------------------------------------------------------------
(* The export: one SELECT, so one snapshot of all seven tables. *)

ExportDocument(user) == { r \in live : Owner[r] = user }

-----------------------------------------------------------------------------
(* The deletion: POST account-delete. *)

\* The function does not run as its definer: a table without a DELETE policy
\* matches no rows.
Bug_Targets(d, n) ==
    { r \in live \ gone'[d] : /\ Table[r] = Statements[n]
                              /\ Statements[n] \in { "outfits", "wardrobe_items" }
                              /\ Owner[r] = Subject(call'[d].token) }

\* The rows a statement sees when it begins.
Targets(d, n) ==
    { r \in live \ gone'[d] : /\ Table[r] = Statements[n]
                              /\ Owner[r] = Subject(call'[d].token) }

\* No subject: 401. No confirmation: 400. Either changes nothing and is no step;
\* otherwise the function begins.
DeleteMyAccount(d, c) ==
    /\ dpc[d] = "idle"
    /\ \E user \in Users : Wants(c, user)
    /\ dpc' = [dpc EXCEPT ![d] = "deleting"]
    /\ call' = [call EXCEPT ![d] = c]
    /\ UNCHANGED << live, wpc, taken, at, gone, listing, later, kept >>
    /\ aim' = [aim EXCEPT ![d] = Targets(d, 1)]
    /\ before' = [before EXCEPT ![d] = ExportDocument(Subject(c.token))]

\* A row another deletion has taken is taken again.
Bug_TakeRow(d, r) ==
    /\ Deleting(d)
    /\ AboutToTake(d, r)
    /\ ~Held(r)
    /\ aim' = [aim EXCEPT ![d] = @ \ {r}]
    /\ gone' = [gone EXCEPT ![d] = @ \cup {r}]
    /\ UNCHANGED << live, wpc, taken, dpc, call, at, listing, before, later, kept >>

\* A statement takes the next row of its scan once no other transaction holds it,
\* if it is still there.
TakeRow(d, r) ==
    /\ Deleting(d)
    /\ AboutToTake(d, r)
    /\ ~Held(r)
    /\ ~HeldByDeletion(d, r)
    /\ aim' = [aim EXCEPT ![d] = @ \ {r}]
    /\ gone' = [gone EXCEPT ![d] = IF r \in live THEN @ \cup {r} ELSE @]
    /\ UNCHANGED << live, wpc, taken, dpc, call, at, listing, before, later, kept >>

\* The end of a statement: its foreign keys act and the next one begins.
EndStatement(d) ==
    /\ Deleting(d)
    /\ aim[d] = {}
    /\ at[d] < Len(Statements)
    /\ ~Refused(d)
    /\ \A r \in Cascades(d) : ~HeldByDeletion(d, r)
    /\ gone' = [gone EXCEPT ![d] = @ \cup Cascades(d)]
    /\ at' = [at EXCEPT ![d] = @ + 1]
    /\ UNCHANGED << live, wpc, taken, dpc, call, listing, before, later, kept >>
    /\ aim' = [aim EXCEPT ![d] = Targets(d, at[d] + 1)]

\* The request is over: what it held and was called with matters no more.
Close(d, answer) ==
    /\ dpc' = [dpc EXCEPT ![d] = answer]
    /\ at' = [at EXCEPT ![d] = 1]
    /\ call' = [call EXCEPT ![d] = NoCall]
    /\ gone' = [gone EXCEPT ![d] = {}]
    /\ before' = [before EXCEPT ![d] = {}]
    /\ later' = [later EXCEPT ![d] = {}]
    /\ UNCHANGED << wpc, taken, listing >>

\* A key refuses: the exception takes the whole transaction back, and a 500.
Abort(d) ==
    /\ Deleting(d)
    /\ aim[d] = {}
    /\ Refused(d)
    /\ Close(d, "failed")
    /\ UNCHANGED << live, aim, kept >>

DeadlockDetected(d) ==
    /\ Deadlocked(d)
    /\ aim' = [aim EXCEPT ![d] = {}]
    /\ Close(d, "failed")
    /\ UNCHANGED << live, kept >>

\* After the last statement: COMMIT, and the counts go out with a 200.
CommitDelete(d) ==
    /\ Deleting(d)
    /\ aim[d] = {}
    /\ at[d] = Len(Statements)
    /\ Close(d, "ok")
    /\ UNCHANGED aim
    /\ live' = live \ gone[d]
    /\ kept' = kept \ gone[d]

-----------------------------------------------------------------------------
(* The listing of the wardrobe: page after page, newest first. *)

Garments(user) == { r \in live \cap Wardrobe : Owner[r] = user }

\* (created_at, id) < (created_at, id) of another garment.
Precedes(g, h) ==
    \/ CreatedAt[g] < CreatedAt[h]
    \/ CreatedAt[g] = CreatedAt[h] /\ Id[g] < Id[h]

Listed == ToSet(listing.items)

\* The cursor compares the stamps only.
Bug_Behind(user, items) ==
    { g \in Garments(user) : items = << >> \/ CreatedAt[g] < CreatedAt[Last(items)] }

\* The garments behind the cursor, the last garment of the page before.
Behind(user, items) ==
    { g \in Garments(user) : items = << >> \/ Precedes(g, Last(items)) }

\* ORDER BY created_at DESC, id DESC: the n-th has n - 1 before it.
Nth(garments, n) ==
    CHOOSE g \in garments : Cardinality({ h \in garments : Precedes(g, h) }) = n - 1

Page(user, limit, items) ==
    LET behind == Behind(user, items)
    IN [ n \in 1 .. Min({ ClampLimit(limit), Cardinality(behind) }) |-> Nth(behind, n) ]

\* There is a next cursor iff the page was full; the client follows it.
Follow(l) ==
    LET page == Page(l.user, l.limit, l.items)
    IN listing' = [ l EXCEPT !.items = @ \o page,
                             !.pages = @ + 1,
                             !.more = /\ Len(page) = ClampLimit(l.limit)
                                      /\ l.pages + 1 < MaxPages ]

FirstPage(user, limit) ==
    /\ listing.pages = 0
    /\ Follow([NoListing EXCEPT !.user = user, !.limit = limit])
    /\ kept' = Garments(user)
    /\ UNCHANGED << live, wpc, taken, dpc, call, at, aim, gone, before, later >>

NextPage ==
    /\ listing.more
    /\ Follow(listing)
    /\ UNCHANGED << live, wpc, taken, dpc, call, at, aim, gone, before, later, kept >>

-----------------------------------------------------------------------------
Calls == [token : Tokens, confirm : BOOLEAN]

Inserting(w) ==
    \/ \E r \in Referred(w) : CheckKey(w, r)
    \/ CommitInsert(w)
    \/ InsertDeadlocked(w)

Deletion(d) ==
    \/ \E c \in Calls : DeleteMyAccount(d, c)
    \/ \E r \in aim[d] : TakeRow(d, r)
    \/ EndStatement(d)
    \/ Abort(d)
    \/ DeadlockDetected(d)
    \/ CommitDelete(d)

\* Everyone is done: what is left are reads and merges that need not come.
Settled ==
    /\ \A w \in Writers : wpc[w] \in {"committed", "failed"}
    /\ \A d \in Deleters : dpc[d] \in {"ok", "failed"}
    /\ UNCHANGED vars

Next ==
    \/ \E w \in Writers : Inserting(w)
    \/ \E g \in Discards : MergeAway(g)
    \/ \E d \in Deleters : Deletion(d)
    \/ \E user \in Readers, limit \in Limits : FirstPage(user, limit)
    \/ NextPage
    \/ Settled

Spec == Init /\ [][Next]_vars

-----------------------------------------------------------------------------
\* Every variable has its type, and a deletion holds rows of its caller only.
TypeOK ==
    /\ live \subseteq Rows
    /\ wpc \in [Writers -> {"inserting", "committed", "failed"}]
    /\ taken \in [Writers -> SUBSET live]
    /\ dpc \in [Deleters -> {"idle", "deleting", "ok", "failed"}]
    /\ at \in [Deleters -> 1 .. Len(Statements)]
    /\ \A d \in Deleters :
         /\ gone[d] \subseteq live
         /\ \A r \in aim[d] \cup gone[d] : Owner[r] = Subject(call[d].token)
         /\ Deleting(d) \/ aim[d] \cup gone[d] = {}
    /\ ToSet(listing.items) \subseteq Rows

\* A row that is committed, and so in the export, has the rows it refers to
\* beside it: no deletion overtakes an insert that is about to commit.
NoOrphans ==
    \A user \in Users : \A r \in ExportDocument(user) :
        Refs[r] \subseteq ExportDocument(user)

\* A deletion that was answered 200 has left nothing of what the account held
\* when it began, whatever ran beside it: what is there now came later.
DeletionIsWhole ==
    [][ \A d \in Deleters :
          Deleting(d) /\ dpc'[d] = "ok" => before[d] \cap live' \subseteq later[d] ]_vars

\* The order of the statements is right for the foreign keys and for two copies
\* of the request at once: beside inserts, a deletion fails only when something
\* of the user was committed while one of the copies ran, or when an insert held
\* one of its rows and waited for another.
QuietDeletionSucceeds ==
    [][ \A d \in Deleters :
          Deleting(d) /\ dpc'[d] = "failed" =>
              \/ \E e \in Deleters : later[e] # {}
              \/ \E w \in Writers : taken[w] \notin { {}, Referred(w) } ]_vars

\* A row goes all at once with its user's account, on a genuine token of hers
\* that has not expired and her confirmation; or it is a garment merged away.
Genuine(c, user) ==
    c.confirm /\ c.token.signed /\ c.token.ours /\ c.token.expiry = "ahead" /\ c.token.sub = user

OnlyOnHerWord ==
    [][ \A r \in live \ live' :
          \/ \E d \in Deleters :
               dpc[d] # "ok" /\ dpc'[d] = "ok" /\ Genuine(call[d], Owner[r])
          \/ Table[r] = "wardrobe_items" /\ \A s \in live : r \notin Refs[s] ]_vars

\* A listing that has ended has every garment that was there from its first
\* page on, whatever came and went between the pages, and none of them twice.
ListingIsExact ==
    /\ listing.pages > 0 /\ ~listing.more => kept \subseteq Listed
    /\ IsInjective(listing.items)
=============================================================================
