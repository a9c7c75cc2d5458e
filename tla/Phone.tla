-------------------------------- MODULE Phone --------------------------------
(***************************************************************************)
(* The app of packages/mobile as one signed-in person drives it: the       *)
(* session gate, the tabs, the query cache each mounted screen observes,   *)
(* the writes in flight and the server they reach.  A write is sent, takes *)
(* effect, and is answered in three steps, and between them she may do     *)
(* anything: change tab, tap again, sign out, delete her account.  A       *)
(* request or its answer may be lost.                                      *)
(***************************************************************************)
EXTENDS PhoneDraft, SequencesExt

CONSTANTS Lanes,      \* writes that may be in flight at once
          Alike,      \* pairs findDuplicatePairs surfaces, the closest first
          Plans       \* what a behaviour starts from and which tabs it visits

Tabs == {"wardrobe", "add", "suggestions", "outfits", "laundry", "account"}
ASSUME PairsAlike == Alike \in Seq(SUBSET Garments)
ASSUME PlansAreScenes ==
  \A p \in Plans : p.tabs \subseteq Tabs /\ p.users \subseteq Users
                   /\ p.store \in Stores /\ Consistent(p.store) /\ p.booted \in BOOLEAN

VARIABLES
  store,      \* the rows behind the edge functions
  auth,       \* whose session the auth provider holds
  gate,       \* the SessionProvider: session, loading, and its first read
  tab,        \* the active tab of the NavShell
  ui,         \* what the mounted screen holds in useState
  cache,      \* the query client
  calls,      \* the mutations in flight, one per lane
  owed,       \* keys whose rows the code leaves behind until the next fetch
  purged,     \* garments that went with a deletion the phone saw confirmed
  left,       \* bounds: writes, tab changes, losses and long waits left
  plan

phone == <<auth, gate, tab, ui>>
vars == <<store, phone, cache, calls, owed, purged, left, plan>>

NoCall == [op |-> "none", todo |-> <<>>, token |-> None, phase |-> "sent", watched |-> FALSE]
Hooks == {"parse", "status", "wear", "merge", "create", "drop", "name", "quiz", "erase"}
FreshUi == [filter |-> FALSE, apart |-> {}, basket |-> {}, building |-> FALSE, draft |-> EmptyDraft]

\* RootGate: loading dominates, then the session.
ChooseRootView(g) ==
  IF g.loading THEN "loading" ELSE IF g.session = None THEN "signIn" ELSE "app"
Shown == IF ChooseRootView(gate) = "app" THEN tab ELSE ChooseRootView(gate)

\* The list the closet asks for: everything, or what is in the wash.
ListParams(u) == IF u.filter THEN "hamper" ELSE "closet"

\* The queries a screen observes.
Observes(screen, u) ==
  CASE screen = "wardrobe" -> {ListParams(u)}
    [] screen = "suggestions" -> {"closet", "palette", "wears"}
    [] screen = "outfits" -> {"looks"} \cup (IF u.building THEN {"closet"} ELSE {})
    [] screen = "laundry" -> {"hamper"}
    [] OTHER -> {}
Observed == Observes(Shown, ui)

\* A screen shows its rows unless its query is pending or failed.
Ready(k) == cache[k].has /\ ~cache[k].error
RowsOf(k) == {row[1] : row \in cache[k].rows}
Visible == IF cache["hamper"].has THEN RowsOf("hamper") ELSE {}

Init ==
  /\ plan \in Plans
  /\ store = plan.store
  /\ auth \in plan.users
  /\ gate = IF plan.booted THEN [session |-> auth, loading |-> FALSE, first |-> "done"]
            ELSE [session |-> None, loading |-> TRUE, first |-> "unread"]
  /\ tab = "wardrobe"
  /\ ui = FreshUi
  /\ cache = [k \in Keys |-> IF k \in Observed THEN Fetch(Empty, auth) ELSE Empty]
  /\ calls = [c \in Lanes |-> NoCall]
  /\ owed = {} /\ purged = {}
  /\ left = plan.left

-----------------------------------------------------------------------------
(* Screens come and go.  Leaving one unmounts it: its state is lost and    *)
(* the callbacks of its writes are dropped, the writes themselves are not. *)

Unwatched(cs) == [c \in Lanes |-> [cs[c] EXCEPT !.watched = FALSE]]

\* What the screen observes from now on is fetched where missing or stale.
Remount(g, t, u, keys) ==
  /\ gate' = g /\ tab' = t /\ ui' = u
  /\ cache' = [k \in Keys |-> IF k \in keys THEN OnMount(cache[k], auth') ELSE cache[k]]

Comes(g, t) ==
  /\ Remount(g, t, FreshUi, IF ChooseRootView(g) = "app" THEN Observes(t, FreshUi) ELSE {})
  /\ calls' = Unwatched(calls)

Redraw(u) ==
  /\ auth' = auth
  /\ Remount(gate, tab, u, Observes(Shown, u) \ Observed)

Idle == UNCHANGED <<store, owed, purged, plan>>

\* The auth provider reports the session it keeps.
InitialEvent ==
  /\ gate.loading /\ left' = left /\ auth' = auth
  /\ Comes([gate EXCEPT !.session = auth, !.loading = FALSE], tab)
  /\ Idle

ReadSession ==
  /\ gate.first = "unread"
  /\ gate' = [gate EXCEPT !.first = auth]
  /\ UNCHANGED <<auth, tab, ui, cache, calls, left>> /\ Idle

\* The first read settles, perhaps after a change was reported: it wins.
InitialRead ==
  LET g == [session |-> gate.first, loading |-> FALSE, first |-> "done"]
  IN  /\ gate.first \notin {"unread", "done"}
      /\ UNCHANGED <<auth, left>> /\ Idle
      /\ IF ChooseRootView(g) = ChooseRootView(gate)
         THEN Remount(g, tab, ui, {}) /\ calls' = calls
         ELSE Comes(g, "wardrobe")

\* The provider tells its listener of the session it now holds.
Reports(session) ==
  /\ auth' = session
  /\ Comes([gate EXCEPT !.session = session], "wardrobe")

\* An attempt that is cancelled or rejected leaves everything as it was.
SignIn(u) ==
  /\ Shown = "signIn" /\ u \in plan.users
  /\ Reports(u)
  /\ left' = left /\ Idle

\* Nothing of the query cache goes with the session.
Leave == Reports(None)

Move == left.moves > 0 /\ left' = [left EXCEPT !.moves = @ - 1]

\* The bar holds four tabs and the add button; laundry is a link of what is in
\* the wash.
LaundryLink == Shown = "wardrobe" /\ ui.filter /\ Ready("hamper") /\ Visible # {}

GoTab(t) ==
  /\ ChooseRootView(gate) = "app" /\ t # tab /\ t \in plan.tabs
  /\ t = "laundry" => LaundryLink
  /\ Move /\ auth' = auth
  /\ Comes(gate, t) /\ Idle

ToggleFilter ==
  /\ Shown = "wardrobe" /\ Ready(ListParams(ui))
  /\ ui.filter \/ RowsOf("closet") # {}
  /\ Move /\ calls' = calls
  /\ Redraw([ui EXCEPT !.filter = ~@]) /\ Idle

-----------------------------------------------------------------------------
(* The query cache.                                                        *)

\* A screen of laundry drops what left the list whenever the list changes.
Pruned(entries) ==
  IF Shown = "laundry"
  THEN [ui EXCEPT !.basket = Prune(@,
          IF entries["hamper"].has THEN {row[1] : row \in entries["hamper"].rows} ELSE {})]
  ELSE ui

Becomes(k, entry) ==
  /\ cache' = [cache EXCEPT ![k] = entry]
  /\ ui' = Pruned(cache')
  /\ UNCHANGED <<store, auth, gate, tab, calls, purged, plan>>

Bug_FetchReadsWithoutBearer(k) ==
  /\ cache[k].fetch = "sent"
  /\ cache' = [cache EXCEPT ![k].fetch = "read", ![k].got = View(store, k, cache[k].token)]
  /\ owed' = owed \ {k}
  /\ UNCHANGED <<store, phone, calls, purged, left, plan>>

FetchReads(k) ==
  /\ cache[k].fetch = "sent" /\ cache[k].token # None
  /\ cache' = [cache EXCEPT ![k].fetch = "read", ![k].got = View(store, k, cache[k].token)]
  /\ owed' = owed \ {k}
  /\ UNCHANGED <<store, phone, calls, purged, left, plan>>

FetchLands(k) ==
  /\ cache[k].fetch = "read"
  /\ Becomes(k, OnRows(cache[k])) /\ UNCHANGED <<owed, left>>

\* Both tries failed, or the request had no bearer.
FetchFails(k) ==
  /\ cache[k].fetch = "sent"
  /\ IF cache[k].token = None THEN left' = left
     ELSE left.faults > 0 /\ left' = [left EXCEPT !.faults = @ - 1]
  /\ Becomes(k, OnError(cache[k])) /\ owed' = owed

\* The error screen's retry, and a screen whose query was cleared under it.
Refetch(k) ==
  /\ k \in Observed /\ cache[k].fetch = "idle" /\ (cache[k].error \/ ~cache[k].has)
  /\ Becomes(k, Fetch(cache[k], auth)) /\ UNCHANGED <<owed, left>>

Ages(k) ==
  /\ left.ages > 0 /\ cache[k].has /\ ~cache[k].stale
  /\ left' = [left EXCEPT !.ages = @ - 1]
  /\ Becomes(k, [cache[k] EXCEPT !.stale = TRUE]) /\ owed' = owed
-----------------------------------------------------------------------------
(* Gestures that send a write.                                             *)

Busy(op) == \E c \in Lanes : calls[c].op = op /\ calls[c].watched
BusyWith(op, id) == \E c \in Lanes : calls[c].op = op /\ calls[c].watched
                                     /\ Head(calls[c].todo).id = id

\* A hook follows its newest write only.
Send(op, todo) ==
  LET free == {c \in Lanes : calls[c] = NoCall}
  IN  /\ free # {} /\ left.acts > 0 /\ todo # <<>>
      /\ left' = [left EXCEPT !.acts = @ - 1]
      /\ calls' = [c \in Lanes |->
           IF c = CHOOSE d \in free : TRUE
           THEN [op |-> op, todo |-> todo, token |-> auth, phase |-> "sent", watched |-> TRUE]
           ELSE [calls[c] EXCEPT !.watched = @ /\ calls[c].op # op]]
      /\ UNCHANGED <<store, phone, cache, owed, purged, plan>>

Rows == LET k == ListParams(ui)
        IN  IF Shown = "wardrobe" /\ Ready(k) THEN cache[k].rows ELSE {}

\* A tile shows the garment's state; a tap on it opens the sheet.
TileOf(g) == {row \in Rows : row[1] = g}

\* A request of the one status hook; the batch is the laundry's loop.
Status(g, to, batch) == [op |-> "status", item |-> g, to |-> to, batch |-> batch]

\* StatusSheet offers the two other states of the row it was opened on.
Offers(row) == IF Busy("status") THEN {} ELSE Availability \ {row[2]}
SetStatus(g, to) ==
  /\ \E row \in TileOf(g) : to \in Offers(row)
  /\ Send("status", <<Status(g, to, FALSE)>>)

\* Likely duplicates among the rows, by rank, less the pairs she keeps both of.
PendingPairs ==
  {i \in DOMAIN Alike : Alike[i] \notin ui.apart /\ Alike[i] \subseteq {row[1] : row \in Rows}}

\* The review is offered while there is a pair and goes through them one at a
\* time; both garments of the pair are on the list.
ReviewOffered == PendingPairs # {}
ActivePair == Alike[Min(PendingPairs)]
KeepOne(keep, discard) ==
  /\ ReviewOffered /\ ActivePair = {keep, discard} /\ ~Busy("merge")
  /\ Send("merge", <<[op |-> "merge", keep |-> keep, discard |-> discard]>>)

\* Keeping both is only remembered while the screen is up.
KeepBoth ==
  /\ ReviewOffered /\ ~Busy("merge") /\ UNCHANGED <<calls, left>>
  /\ Redraw([ui EXCEPT !.apart = @ \cup {ActivePair}]) /\ Idle

InLaundry == Shown = "laundry" /\ Ready("hamper") /\ Visible # {}

MarkOne(g) ==
  /\ InLaundry /\ g \in Visible \ ui.basket /\ ~Busy("status")
  /\ Send("status", <<Status(g, "clean", FALSE)>>)

\* The batch: one write after another, in id order.
BatchOffered == InLaundry /\ ui.basket # {} /\ ~Busy("status")
MarkSelectedClean ==
  /\ BatchOffered
  /\ LET ids == SetToSeq(Pending(ui.basket, Visible))
     IN  Send("status", [i \in DOMAIN ids |-> Status(ids[i], "clean", TRUE)])

Select(basket) ==
  /\ InLaundry /\ UNCHANGED <<calls, left>>
  /\ Redraw([ui EXCEPT !.basket = basket]) /\ Idle
Tick(g) == g \in Visible /\ Select(Toggle(ui.basket, g))
TickAll == Select(SelectAll(ui.basket, Visible))

\* Today's look: some clean garments she is shown; every piece is logged.
TodaysLooks ==
  LET clean == {row[1] : row \in {r \in cache["closet"].rows : r[2] = "clean"}}
  IN  IF Ready("closet") THEN (SUBSET clean) \ {{}} ELSE {}
WearOffered(look) == Shown = "suggestions" /\ look \in TodaysLooks /\ ~Busy("wear")
WoreThis ==
  \E look \in TodaysLooks :
    /\ WearOffered(look)
    /\ Send("wear", LET ids == SetToSeq(look)
                    IN  [i \in DOMAIN ids |-> [op |-> "wear", item |-> ids[i]]])

\* She confirms photos of hers, new ones or ones sent before; each is uploaded
\* and parsed before the next.  Left out are photos whose garment is gone: after
\* a merge they make nothing, after a deletion a garment that counts as new.
Photos == {g \in Garments : Owner[g] = gate.session /\ store.status[g] # "gone"}
ConfirmApproved ==
  /\ Shown = "add" /\ ~Busy("parse")
  /\ \E approved \in SUBSET Photos :
       Send("parse", LET ids == SetToSeq(approved)
                     IN  [i \in DOMAIN ids |-> [op |-> "parse", item |-> ids[i]]])

Build(u) == Shown = "outfits" /\ left' = left /\ Redraw(u) /\ Idle
OpenBuilder == ~ui.building /\ Ready("looks") /\ calls' = calls /\ Build([ui EXCEPT !.building = TRUE])

\* The builder is unmounted: a save on its way loses its callback.
CancelBuilder ==
  /\ ui.building /\ Ready("closet")
  /\ calls' = [c \in Lanes |-> [calls[c] EXCEPT !.watched = @ /\ calls[c].op # "create"]]
  /\ Build([ui EXCEPT !.building = FALSE, !.draft = EmptyDraft])

\* Every garment of the closet, worn, washed or not, under its slot.
Candidates(slot) == {g \in RowsOf("closet") : Ready("closet") /\ SlotOf[g] = slot}
Pick(g) ==
  /\ ui.building /\ g \in Candidates(SlotOf[g])
  /\ calls' = calls
  /\ Build([ui EXCEPT !.draft = Tap(@, g)])

\* The look's id is minted at the tap: nothing knows it yet.
Unused(l) ==
  /\ store.looks[l] = NoLook /\ l \notin RowsOf("looks")
  /\ ~\E c \in Lanes : calls[c].op \in {"create", "drop", "name"} /\ Head(calls[c].todo).id = l
SaveOffered == IsComplete(ui.draft) /\ ~Busy("create")
SaveLook(l) ==
  /\ Shown = "outfits" /\ ui.building /\ Ready("closet") /\ RowsOf("closet") # {}
  /\ SaveOffered /\ Unused(l)
  /\ Send("create", <<[op |-> "create", id |-> l, items |-> Items(ui.draft), name |-> "untitled"]>>)

\* A card taps through to the look's own page, where it is managed.
Cards == IF Ready("looks") THEN RowsOf("looks") ELSE {}
Listed(l) == Shown = "outfits" /\ ~ui.building /\ l \in Cards
DeleteLook(l) ==
  Listed(l) /\ ~BusyWith("drop", l) /\ Send("drop", <<[op |-> "drop", id |-> l]>>)
RenameLook(l, name) ==
  Listed(l) /\ ~BusyWith("name", l) /\ Send("name", <<[op |-> "name", id |-> l, name |-> name]>>)

\* While a deletion is pending the account screen shows nothing else.
OnAccount == Shown = "account" /\ ~Busy("erase")
SaveQuiz == OnAccount /\ ~Busy("quiz") /\ Send("quiz", <<[op |-> "quiz"]>>)
Erase == OnAccount /\ Send("erase", <<[op |-> "erase"]>>)
SignOut == OnAccount /\ Leave /\ left' = left /\ Idle

-----------------------------------------------------------------------------
(* A write on its way.                                                     *)

\* What a write changes, and what of it no invalidation refreshes.
Affected(op) ==
  CASE op \in {"status", "parse"} -> Wardrobe
    [] op = "wear" -> Wardrobe \cup {"wears"}
    [] op = "merge" -> Wardrobe \cup {"looks", "wears"}
    [] op \in {"create", "drop", "name"} -> {"looks"}
    [] op = "quiz" -> {"palette"}
    [] OTHER -> Keys
Unrefreshed(op) == IF op = "merge" THEN {"looks", "wears"} ELSE {}

ServeCall(c) ==
  /\ calls[c] # NoCall /\ calls[c].phase = "sent"
  /\ LET answer == Serve(store, Head(calls[c].todo), calls[c].token)
     IN  /\ store' = answer.store
         /\ calls' = [calls EXCEPT ![c].phase = IF answer.ok THEN "ok" ELSE "refused"]
  /\ UNCHANGED <<phone, cache, owed, purged, left, plan>>

\* Lost on its way, or turned down by a limit: a cap, a throttle, a job that
\* is under way.
LoseRequest(c) ==
  /\ calls[c] # NoCall /\ calls[c].phase = "sent" /\ left.faults > 0
  /\ calls' = [calls EXCEPT ![c].phase = "refused"]
  /\ left' = [left EXCEPT !.faults = @ - 1]
  /\ UNCHANGED <<store, phone, cache, owed, purged, plan>>

LoseAnswer(c) ==
  /\ calls[c].phase = "ok" /\ left.faults > 0
  /\ calls' = [calls EXCEPT ![c].phase = "refused"]
  /\ left' = [left EXCEPT !.faults = @ - 1]
  /\ owed' = owed \cup Affected(calls[c].op)
  /\ UNCHANGED <<store, phone, cache, purged, plan>>

\* The loops of the laundry, of today's look and of the photos send their next
\* request.
Next1(c) == [calls EXCEPT ![c].todo = Tail(@), ![c].phase = "sent", ![c].token = auth']
Over(c) == [calls EXCEPT ![c] = NoCall]
More(c) == Len(calls[c].todo) > 1

\* The laundry's loop clears the basket at its end, whatever came of it.
EmptiesBasket(c) == calls[c].watched /\ calls[c].op = "status" /\ Head(calls[c].todo).batch

\* An error ends the loops of the look and of the photos; the laundry loop
\* catches it and goes on to its next garment.
LandError(c) ==
  /\ calls[c].phase = "refused"
  /\ auth' = auth
  /\ LET on == More(c) /\ calls[c].op = "status"
     IN  /\ calls' = IF on THEN Next1(c) ELSE Over(c)
         /\ ui' = IF ~on /\ EmptiesBasket(c) THEN [ui EXCEPT !.basket = {}] ELSE ui
  /\ UNCHANGED <<store, gate, tab, cache, owed, purged, left, plan>>

\* An entry whose fetch has read already and is not replaced lands old rows.
Overtaken(k) ==
  cache[k].fetch = "read" /\ ~Replaceable(cache[k], k \in Observed)
  /\ cache[k].got # View(store, k, cache[k].token)

Refresh(op) ==
  /\ cache' = [k \in Keys |-> IF k \in Invalidated(op)
                              THEN OnInvalidate(cache[k], k \in Observed, auth) ELSE cache[k]]
  /\ owed' = owed \cup Unrefreshed(op) \cup {k \in Invalidated(op) : Overtaken(k)}

\* The screen's own callback, where the screen is still up.
Finish(c) ==
  CASE ~calls[c].watched -> ui
    [] calls[c].watched /\ calls[c].op = "create" ->
         [ui EXCEPT !.building = FALSE, !.draft = EmptyDraft]
    [] EmptiesBasket(c) -> [ui EXCEPT !.basket = {}]
    [] OTHER -> ui

LandOk(c) ==
  /\ calls[c].phase = "ok" /\ calls[c].op # "erase"
  /\ auth' = auth
  /\ Refresh(calls[c].op)
  /\ calls' = IF More(c) THEN Next1(c) ELSE Over(c)
  /\ ui' = IF More(c) THEN ui ELSE Finish(c)
  /\ UNCHANGED <<store, gate, tab, purged, left, plan>>

\* The cache is cleared wherever she is; she is signed out only if the
\* account screen is still up.
Bug_ClearMarksStale == [k \in Keys |-> [cache[k] EXCEPT !.stale = cache[k].has]]
Clear == [k \in Keys |-> Empty]
LandErase(c) ==
  /\ calls[c].phase = "ok" /\ calls[c].op = "erase"
  /\ cache' = Clear /\ owed' = {}
  /\ purged' = purged \cup {g \in Garments : Owner[g] = calls[c].token /\ store.status[g] = "gone"}
  /\ IF calls[c].watched
     THEN /\ auth' = None /\ gate' = [gate EXCEPT !.session = None]
          /\ tab' = "wardrobe" /\ ui' = FreshUi
          /\ calls' = Unwatched(Over(c))
     ELSE calls' = Over(c) /\ UNCHANGED phone
  /\ UNCHANGED <<store, left, plan>>
-----------------------------------------------------------------------------
Session == InitialEvent \/ ReadSession \/ InitialRead \/ (\E u \in Users : SignIn(u))
Browse == (\E t \in Tabs : GoTab(t)) \/ ToggleFilter
Fetches == \E k \in Keys : FetchReads(k) \/ FetchLands(k) \/ FetchFails(k) \/ Refetch(k) \/ Ages(k)
Closet ==
  \/ \E g \in Garments, to \in Availability : SetStatus(g, to)
  \/ \E keep, discard \in Garments : KeepOne(keep, discard)
  \/ KeepBoth
Laundry == (\E g \in Garments : MarkOne(g) \/ Tick(g)) \/ MarkSelectedClean \/ TickAll
Outfits ==
  \/ OpenBuilder \/ CancelBuilder \/ (\E g \in Garments : Pick(g))
  \/ \E l \in Looks : SaveLook(l) \/ DeleteLook(l) \/ (\E n \in Names : RenameLook(l, n))
Account == SaveQuiz \/ Erase \/ SignOut
Network ==
  \E c \in Lanes : \/ ServeCall(c) \/ LoseRequest(c) \/ LoseAnswer(c)
                   \/ LandError(c) \/ LandOk(c) \/ LandErase(c)

Next == Session \/ Browse \/ Fetches \/ Closet \/ Laundry \/ WoreThis \/ ConfirmApproved
        \/ Outfits \/ Account \/ Network
Spec == Init /\ [][Next]_vars

-----------------------------------------------------------------------------
\* A look that can be worn: two garments or a dress at least, one garment a
\* slot, and no dress over a top or a bottom.
Wearable(items) ==
  /\ Cardinality(items) >= 2 \/ \E g \in items : SlotOf[g] = "dress"
  /\ \A g, h \in items : SlotOf[g] = SlotOf[h] => g = h
  /\ (\E g \in items : SlotOf[g] = "dress") => \A g \in items : SlotOf[g] \notin {"top", "bottom"}

\* Everything keeps its shape: rows name garments and looks that exist in
\* the schema, a call in flight has a request, a fetch in flight a caller.
TypeOK ==
  /\ store \in Stores
  /\ auth \in Users \cup {None} /\ tab \in Tabs
  /\ gate.session \in Users \cup {None} /\ gate.loading \in BOOLEAN
  /\ gate.first \in Users \cup {None, "unread", "done"}
  /\ ui.basket \subseteq Garments /\ ui.draft \in Drafts
  /\ \A pair \in ui.apart : \E i \in DOMAIN Alike : Alike[i] = pair
  /\ \A k \in Keys : /\ cache[k].fetch \in {"idle", "sent", "read"}
                     /\ cache[k].has => cache[k].of \in Users
                     /\ cache[k].stale => cache[k].has \/ cache[k].fetch # "idle" \/ cache[k].error
  /\ \A c \in Lanes : calls[c].op \in Hooks <=> calls[c].todo # <<>>
  /\ owed \subseteq Keys /\ purged \subseteq Garments

\* Rows the phone calls fresh are what the server holds, once the writes that
\* change them have landed: what a hook of useMutation invalidates covers what
\* its write changes, whatever tab is up.  Left out is what the code leaves
\* behind (owed): the looks and wears after a merge, a write whose answer was
\* lost, and an invalidation that met a fetch it does not replace.
SeenIsTrue ==
  \A k \in Keys :
    LET e == cache[k]
    IN  /\ e.has /\ ~e.stale /\ e.fetch = "idle" /\ k \notin owed
        /\ \A c \in Lanes : calls[c].phase = "ok" => k \notin Affected(calls[c].op)
        => e.rows = View(store, k, e.of)

\* The garments that rows of a key name.
Named(k, rows) ==
  CASE k = "palette" -> {}
    [] k = "looks" -> UNION {row[2].items : row \in rows}
    [] OTHER -> {row[1] : row \in rows}

\* useDeleteAccount: once a deletion was confirmed, no list of the phone names
\* a garment that went with it, whatever was being fetched, written or parsed
\* then and however long she stays signed in: what she adds afterwards may
\* show, what she had never comes back.  (The palette names no garment.)
DeletedLeavesNoTrace == \A k \in Keys : Named(k, cache[k].rows) \cap purged = {}

\* While the laundry is shown, its selection counts no garment that is not on
\* the list, whatever fetches land and other writes wash meanwhile.
BasketIsInTheHamper == InLaundry => ui.basket \subseteq Visible

\* Every look the builder saves is one that can be worn, however long the save
\* was on its way and whatever she went on building meanwhile.
SavedLooksAreWearable ==
  [][\A l \in Looks :
       store.looks[l] = NoLook /\ store'.looks[l] # NoLook => Wearable(store'.looks[l].items)]_vars
=============================================================================
