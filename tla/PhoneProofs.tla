----------------------------- MODULE PhoneProofs -----------------------------
(* What holds of Phone for every set of users, garments, looks and lanes. *)
EXTENDS Phone, FiniteSetTheorems, SequenceTheorems, WellFoundedInduction, TLAPS

-----------------------------------------------------------------------------
(* The types, exactly.                                                      *)

\* The requests a hook sends; a look on its way is one that can be worn.
Requests(op) ==
  CASE op = "status" -> [op : {"status"}, item : Garments, to : Availability, batch : BOOLEAN]
    [] op = "parse"  -> [op : {"parse"}, item : Garments]
    [] op = "wear"   -> [op : {"wear"}, item : Garments]
    [] op = "merge"  -> [op : {"merge"}, keep : Garments, discard : Garments]
    [] op = "create" -> [op : {"create"}, id : Looks, name : Names,
                         items : {items \in SUBSET Garments : Wearable(items)}]
    [] op = "drop"   -> [op : {"drop"}, id : Looks]
    [] op = "name"   -> [op : {"name"}, id : Looks, name : Names]
    [] op = "quiz"   -> [op : {"quiz"}]
    [] op = "erase"  -> [op : {"erase"}]
    [] OTHER         -> {}

Calls == [op : Hooks \cup {"none"}, todo : Seq(UNION {Requests(op) : op \in Hooks}),
          token : Users \cup {None}, phase : {"sent", "ok", "refused"}, watched : BOOLEAN]

\* A lane is free or has the requests of one hook left; who is not signed in
\* gets nothing done.
CallTyped(x) ==
  /\ x \in Calls
  /\ x.todo \in Seq(Requests(x.op))
  /\ x.op \in Hooks => x.todo # <<>>
  /\ x.op = "none" => x = NoCall
  /\ x.phase = "ok" => x.token \in Users

\* The rows of each query.
RowsFor(k) ==
  CASE k \in Wardrobe -> Garments \X Availability
    [] k = "looks"    -> Looks \X [of : Users, items : SUBSET Garments, name : Names]
    [] k = "wears"    -> Garments \X Nat
    [] OTHER          -> {"hues"}

Entries(k) ==
  [has : BOOLEAN, rows : SUBSET RowsFor(k), of : Users \cup {None}, stale : BOOLEAN, error : BOOLEAN,
   fetch : {"idle", "sent", "read"}, token : Users \cup {None}, got : SUBSET RowsFor(k)]

\* An entry without rows belongs to nobody, a fetch that has read had a caller.
EntryTyped(k, e) ==
  /\ e \in Entries(k)
  /\ e.has => e.of \in Users
  /\ ~e.has => e.rows = {} /\ e.of = None
  /\ e.fetch = "idle" => e.got = {} /\ e.token = None
  /\ e.fetch = "read" => e.token \in Users
  /\ e.stale => e.has \/ e.fetch # "idle" \/ e.error

CallsTyped == calls = [c \in Lanes |-> calls[c]] /\ \A c \in Lanes : CallTyped(calls[c])
CacheTyped == cache = [k \in Keys |-> cache[k]] /\ \A k \in Keys : EntryTyped(k, cache[k])

Gates == [session : Users \cup {None}, loading : BOOLEAN,
          first : Users \cup {None, "unread", "done"}]

\* A draft has each garment in its own slot, and no dress over a top or a bottom.
DraftTyped(d) ==
  /\ d \in Drafts
  /\ \A s \in OutfitSlots : d[s] # None => SlotOf[d[s]] = s
  /\ d["dress"] # None => d["top"] = None /\ d["bottom"] = None

Uis == {u \in [filter : BOOLEAN, apart : SUBSET (SUBSET Garments), basket : SUBSET Garments,
               building : BOOLEAN, draft : Drafts] :
          /\ DraftTyped(u.draft)
          /\ \A pair \in u.apart : \E i \in DOMAIN Alike : Alike[i] = pair}

ScreenTyped == auth \in Users \cup {None} /\ gate \in Gates /\ tab \in Tabs /\ ui \in Uis

TypeInv ==
  /\ store \in Stores /\ Consistent(store) /\ plan \in Plans
  /\ ScreenTyped /\ CacheTyped /\ CallsTyped
  /\ owed \subseteq Keys /\ purged \subseteq Garments

-----------------------------------------------------------------------------
(* The screen shows what the server has.                                    *)

\* Nothing that changes the rows of k has taken effect without having landed.
Quiet(k) == k \notin owed /\ \A c \in Lanes : calls[c].phase = "ok" => k \notin Affected(calls[c].op)

\* Rows called fresh, and rows on their way, are those of the server.
Faithful(k, e) ==
  /\ e.has /\ ~e.stale /\ e.fetch # "read" => e.rows = View(store, k, e.of)
  /\ e.fetch = "read" => e.got = View(store, k, e.token)

Truth == \A k \in Keys : Quiet(k) => Faithful(k, cache[k])

-----------------------------------------------------------------------------
(* A deletion leaves no trace.                                              *)

\* No garment that went with a deletion is in the entry, or on its way to it.
Bare(k, e) ==
  /\ Named(k, e.rows) \cap purged = {}
  /\ e.fetch = "read" => Named(k, e.got) \cap purged = {}

NoTrace ==
  /\ \A g \in purged : store.status[g] = "gone"
  /\ \A k \in Keys : Bare(k, cache[k])

-----------------------------------------------------------------------------
(* The basket.                                                              *)

BasketInv == Shown = "laundry" /\ cache["hamper"].has => ui.basket \subseteq RowsOf("hamper")

-----------------------------------------------------------------------------
(* Sequences and the least element.                                         *)

\* A garment set written as a sequence.
LEMMA SetToSeqType ==
  ASSUME NEW S, S \subseteq Garments
  PROVE  /\ SetToSeq(S) \in Seq(S)
         /\ DOMAIN SetToSeq(S) = 1 .. Len(SetToSeq(S))
<1>1. IsFiniteSet(S)
  BY FS_Subset, Owners
<1>2. Cardinality(S) \in Nat /\ ExistsBijection(1 .. Cardinality(S), S)
  BY <1>1, FS_CardinalityType
<1>3. \E f \in [1 .. Cardinality(S) -> S] : IsInjective(f)
  BY <1>2 DEF ExistsBijection, Bijection, Injection, IsInjective
<1>4. SetToSeq(S) \in [1 .. Cardinality(S) -> S]
  BY <1>3 DEF SetToSeq
<1>. QED  BY <1>2, <1>4

\* A non-empty set of naturals has a least element.
LEMMA MinIn ==
  ASSUME NEW S, S \subseteq Nat, S # {}
  PROVE  Min(S) \in S
<1>. DEFINE Less == {ss \in Nat \X Nat : ss[1] < ss[2]}
<1>1. IsWellFoundedOn(Less, Nat)
  BY NatLessThanWellFounded DEF OpToRel
<1>2. \E x \in S : \A y \in S : <<y, x>> \notin Less
  <2>. HIDE DEF Less
  <2>. QED  BY <1>1, WFMin
<1>3. \A x, y \in Nat : <<y, x>> \notin Less => x <= y
  OBVIOUS
<1>4. \E x \in S : \A y \in S : x <= y
  BY <1>2, <1>3
<1>. QED  BY <1>4 DEF Min

-----------------------------------------------------------------------------
(* The server, one request at a time.                                       *)

\* Which handler serves which request.
LEMMA ServeCases ==
  ASSUME NEW s, NEW op \in Hooks, NEW r \in Requests(op), NEW u \in Users \cup {None}
  PROVE  /\ r.op = op
         /\ u = None => Serve(s, r, u) = Refused(s)
         /\ u # None /\ op = "status" => Serve(s, r, u) = ToggleAvailability(s, r, u)
         /\ u # None /\ op = "parse"  => Serve(s, r, u) = ParsePhoto(s, r, u)
         /\ u # None /\ op = "wear"   => Serve(s, r, u) = LogWear(s, r, u)
         /\ u # None /\ op = "merge"  => Serve(s, r, u) = ResolveDedupe(s, r, u)
         /\ u # None /\ op = "create" => Serve(s, r, u) = CreateOutfit(s, r, u)
         /\ u # None /\ op = "drop"   => Serve(s, r, u) = DeleteOutfit(s, r, u)
         /\ u # None /\ op = "name"   => Serve(s, r, u) = RenameOutfit(s, r, u)
         /\ u # None /\ op = "quiz"   => Serve(s, r, u) = UpsertPalette(s, u)
         /\ u # None /\ op = "erase"  => Serve(s, r, u) = DeleteAccount(s, u)
<1>1. r.op = op
  BY DEF Requests, Hooks
<1>. QED  BY <1>1 DEF Serve, Hooks

LEMMA Answers ==
  ASSUME NEW s
  PROVE  Done(s).ok = TRUE /\ Done(s).store = s /\ Refused(s).ok = FALSE /\ Refused(s).store = s
BY DEF Done, Refused

\* A merge moves the wears and takes the discard's place in every look.
LEMMA MergeRows ==
  ASSUME NEW s \in Stores, NEW r \in Requests("merge"), NEW u \in Users,
         r.discard \in Mine(s, u), r.keep \in Mine(s, u),
         r.keep # r.discard, Consistent(s)
  PROVE  /\ ResolveDedupe(s, r, u) = Done(ResolveDedupe(s, r, u).store)
         /\ Consistent(ResolveDedupe(s, r, u).store)
         /\ ResolveDedupe(s, r, u).store \in Stores
         /\ ResolveDedupe(s, r, u).store.palette = s.palette
         /\ ResolveDedupe(s, r, u).store.status = [s.status EXCEPT ![r.discard] = "gone"]
         /\ \A l \in Looks :
              /\ ResolveDedupe(s, r, u).store.looks[l].of = s.looks[l].of
              /\ s.looks[l] = NoLook => ResolveDedupe(s, r, u).store.looks[l] = NoLook
<1>. DEFINE looks == [l \in Looks |->
                        IF r.discard \in s.looks[l].items
                        THEN [s.looks[l] EXCEPT !.items = (@ \ {r.discard}) \cup {r.keep}]
                        ELSE s.looks[l]]
            worn == [s.worn EXCEPT ![r.keep] = @ + s.worn[r.discard], ![r.discard] = 0]
            after == [s EXCEPT !.status[r.discard] = "gone", !.worn = worn, !.looks = looks]
<1>1. r.keep \in Garments /\ r.discard \in Garments
  BY DEF Requests
<1>2. worn \in [Garments -> Nat]
  BY <1>1 DEF Stores
<1>3. \A l \in Looks :
        /\ looks[l] \in {NoLook} \cup [of : Users, items : SUBSET Garments, name : Names]
        /\ looks[l].of = s.looks[l].of
        /\ s.looks[l] = NoLook => looks[l] = NoLook
  <2>. SUFFICES ASSUME NEW l \in Looks
       PROVE  /\ looks[l] \in {NoLook} \cup [of : Users, items : SUBSET Garments, name : Names]
              /\ looks[l].of = s.looks[l].of
              /\ s.looks[l] = NoLook => looks[l] = NoLook
    OBVIOUS
  <2>1. CASE s.looks[l] = NoLook
    BY <2>1 DEF NoLook
  <2>2. CASE s.looks[l] \in [of : Users, items : SUBSET Garments, name : Names]
    BY <1>1, <2>2, Owners DEF NoLook
  <2>. QED  BY <2>1, <2>2 DEF Stores
<1>4. looks \in [Looks -> {NoLook} \cup [of : Users, items : SUBSET Garments, name : Names]]
  BY <1>3
<1>5. ResolveDedupe(s, r, u) = Done(after)
  BY DEF ResolveDedupe
<1>. HIDE DEF looks, worn
<1>6. after \in Stores /\ after.palette = s.palette /\ after.looks = looks
      /\ after.status = [s.status EXCEPT ![r.discard] = "gone"] /\ after.worn = worn
  BY <1>1, <1>2, <1>4 DEF Stores
<1>. HIDE DEF after
<1>8. Consistent(after)
  <2>1. \A v : Mine(after, v) = Mine(s, v) \ {r.discard}
    BY <1>1, <1>6 DEF Mine, Stores, Availability
  <2>2. \A g \in Garments : worn[g] > 0 => g = r.keep \/ (g # r.discard /\ s.worn[g] > 0)
    BY <1>1 DEF worn, Stores
  <2>3. \A g \in Garments : worn[g] > 0 => after.status[g] \in Availability
    BY <1>1, <1>6, <2>2 DEF Consistent, Mine, Stores
  <2>4. ASSUME NEW l \in Looks
        PROVE  looks[l].items \subseteq Mine(after, looks[l].of)
    <3>1. s.looks[l].items \subseteq Mine(s, s.looks[l].of) /\ looks[l].of = s.looks[l].of
      BY <1>3 DEF Consistent, looks
    <3>2. CASE r.discard \in s.looks[l].items
      <4>1. looks[l].items = (s.looks[l].items \ {r.discard}) \cup {r.keep}
        BY <3>2 DEF looks, Stores, NoLook
      <4>2. s.looks[l].of = u
        BY <3>1, <3>2 DEF Mine
      <4>. QED  BY <2>1, <3>1, <4>1, <4>2
    <3>3. CASE r.discard \notin s.looks[l].items
      <4>1. looks[l].items = s.looks[l].items
        BY <3>3 DEF looks
      <4>. QED  BY <2>1, <3>1, <3>3, <4>1
    <3>. QED  BY <3>2, <3>3
  <2>. QED  BY <1>6, <2>3, <2>4 DEF Consistent
<1>7. Done(after).ok = TRUE /\ Done(after).store = after
  BY Answers
<1>9. \A l \in Looks : looks[l].of = s.looks[l].of /\ (s.looks[l] = NoLook => looks[l] = NoLook)
  BY <1>3 DEF looks
<1>. QED  BY <1>5, <1>6, <1>7, <1>8, <1>9

\* What a request of u leaves of the rows s: those no query of it reads, the
\* looks that were not there, and the garments that are gone.
Effect(op, r, u, s, t) ==
  /\ Consistent(t)
  /\ op \in {"parse", "status", "wear", "quiz"} => t.looks = s.looks
  /\ op \in Hooks \ {"quiz", "erase"} => t.palette = s.palette
  /\ op \in {"create", "drop", "name", "quiz"} => t.status = s.status /\ t.worn = s.worn
  /\ op \in {"parse", "status"} => t.worn = s.worn
  /\ \A l \in Looks : s.looks[l] = NoLook /\ t.looks[l] # NoLook
                     => op = "create" /\ t.looks[l].items = r.items
  /\ \A g \in Garments : s.status[g] = "gone" => t.status[g] = "gone"

\* Rows that lose no garment, and whose looks gain no member and keep their
\* owner, stay consistent.
LEMMA StaysConsistent ==
  ASSUME NEW s \in Stores, NEW t \in Stores, Consistent(s),
         \A g \in Garments : /\ s.status[g] \in Availability => t.status[g] \in Availability
                             /\ t.worn[g] > 0 => s.worn[g] > 0 \/ t.status[g] \in Availability,
         \A l \in Looks : /\ t.looks[l].items \subseteq s.looks[l].items
                          /\ t.looks[l].of = s.looks[l].of \/ t.looks[l].items = {}
  PROVE  Consistent(t)
<1>1. \A v : Mine(s, v) \subseteq Mine(t, v)
  BY DEF Mine
<1>. QED  BY <1>1 DEF Consistent

\* Whatever is asked, it is done for a caller, or refused.
LEMMA ServeShape ==
  ASSUME NEW s \in Stores, Consistent(s),
         NEW op \in Hooks, NEW r \in Requests(op), NEW u \in Users \cup {None}
  PROVE  \/ u \in Users /\ \E t \in Stores : Serve(s, r, u) = Done(t) /\ Effect(op, r, u, s, t)
         \/ Serve(s, r, u) = Refused(s)
<1>1. CASE u = None
  BY <1>1, ServeCases
<1>2. CASE u \in Users /\ op = "status"
  <2>. DEFINE after == [s EXCEPT !.status[r.item] = r.to]
  <2>1. r.item \in Garments /\ r.to \in Availability
    BY <1>2 DEF Requests
  <2>2. after \in Stores
    BY <1>2, <2>1 DEF Stores
  <2>3. ASSUME r.item \in Mine(s, u)
        PROVE  Effect(op, r, u, s, after)
    <3>1. after.looks = s.looks /\ after.palette = s.palette /\ after.worn = s.worn
      BY DEF Stores
    <3>2. \A g \in Garments : /\ s.status[g] = "gone" => after.status[g] = "gone"
                              /\ s.status[g] \in Availability => after.status[g] \in Availability
      BY <2>1, <2>3 DEF Stores, Mine, Availability
    <3>. HIDE DEF after
    <3>3. Consistent(after)
      BY <2>2, <3>1, <3>2, StaysConsistent
    <3>. QED  BY <1>2, <3>1, <3>2, <3>3 DEF Effect
  <2>4. \/ r.item \in Mine(s, u) /\ ToggleAvailability(s, r, u) = Done(after)
        \/ ToggleAvailability(s, r, u) = Refused(s)
    BY DEF ToggleAvailability
  <2>5. Serve(s, r, u) = ToggleAvailability(s, r, u)
    BY <1>2, Owners, ServeCases
  <2>. HIDE DEF after
  <2>. QED  BY <1>2, <2>2, <2>3, <2>4, <2>5
<1>3. CASE u \in Users /\ op = "wear"
  <2>. DEFINE after == [s EXCEPT !.worn[r.item] = @ + 1, !.status[r.item] = "dirty"]
  <2>1. r.item \in Garments
    BY <1>3 DEF Requests
  <2>2. after \in Stores
    <3>1. [s.worn EXCEPT ![r.item] = @ + 1] \in [Garments -> Nat]
      BY <2>1 DEF Stores
    <3>2. [s.status EXCEPT ![r.item] = "dirty"] \in [Garments -> Availability \cup {"gone", "unmade"}]
      BY <2>1 DEF Stores, Availability
    <3>. QED  BY <3>1, <3>2 DEF Stores
  <2>3. ASSUME r.item \in Mine(s, u)
        PROVE  Effect(op, r, u, s, after)
    <3>1. after.looks = s.looks /\ after.palette = s.palette
      BY DEF Stores
    <3>2. after.status = [s.status EXCEPT ![r.item] = "dirty"]
          /\ after.worn = [s.worn EXCEPT ![r.item] = @ + 1]
      BY DEF Stores
    <3>. HIDE DEF after
    <3>3. \A g \in Garments : /\ s.status[g] = "gone" => after.status[g] = "gone"
                              /\ s.status[g] \in Availability => after.status[g] \in Availability
                              /\ after.worn[g] > 0 => s.worn[g] > 0 \/ after.status[g] \in Availability
      BY <2>1, <2>3, <3>2 DEF Stores, Mine, Availability
    <3>4. Consistent(after)
      BY <2>2, <3>1, <3>3, StaysConsistent
    <3>. QED  BY <1>3, <3>1, <3>3, <3>4 DEF Effect
  <2>4. \/ r.item \in Mine(s, u) /\ LogWear(s, r, u) = Done(after)
        \/ LogWear(s, r, u) = Refused(s)
    BY DEF LogWear
  <2>5. Serve(s, r, u) = LogWear(s, r, u)
    BY <1>3, Owners, ServeCases
  <2>. HIDE DEF after
  <2>. QED  BY <1>3, <2>2, <2>3, <2>4, <2>5
<1>4. CASE u \in Users /\ op = "merge"
  <2>. DEFINE m == ResolveDedupe(s, r, u)
  <2>1. r \in Requests("merge") /\ Serve(s, r, u) = m
    BY <1>4, Owners, ServeCases
  <2>2. CASE r.discard \in Mine(s, u) /\ r.keep \in Mine(s, u) /\ r.keep # r.discard
    <3>1. m.store \in Stores /\ Consistent(m.store) /\ m = Done(m.store) /\ m.store.palette = s.palette
          /\ m.store.status = [s.status EXCEPT ![r.discard] = "gone"]
      BY <1>4, <2>1, <2>2, MergeRows
    <3>2. \A l \in Looks : /\ m.store.looks[l].of = s.looks[l].of
                           /\ s.looks[l] = NoLook => m.store.looks[l] = NoLook
      BY <1>4, <2>1, <2>2, MergeRows
    <3>. HIDE DEF m
    <3>3. \A g \in Garments : s.status[g] = "gone" => m.store.status[g] = "gone"
      BY <3>1 DEF Stores
    <3>4. Effect(op, r, u, s, m.store)
      BY <1>4, <3>1, <3>2, <3>3 DEF Effect
    <3>. QED  BY <1>4, <2>1, <3>1, <3>4
  <2>3. CASE ~(r.discard \in Mine(s, u) /\ r.keep \in Mine(s, u) /\ r.keep # r.discard)
    <3>1. ResolveDedupe(s, r, u) = Done(s) \/ ResolveDedupe(s, r, u) = Refused(s)
      BY <2>3 DEF ResolveDedupe
    <3>2. Effect(op, r, u, s, s)
      BY <1>4 DEF Effect
    <3>. QED  BY <1>4, <2>1, <3>1, <3>2
  <2>. QED  BY <2>2, <2>3
<1>5. CASE u \in Users /\ op = "create"
  <2>. DEFINE after == [s EXCEPT !.looks[r.id] = [of |-> u, items |-> r.items, name |-> r.name]]
  <2>1. r.id \in Looks /\ r.items \subseteq Garments /\ r.items # {} /\ r.name \in Names
    <3>1. r.id \in Looks /\ r.items \subseteq Garments /\ r.name \in Names /\ Wearable(r.items)
      BY <1>5 DEF Requests
    <3>2. Cardinality({}) = 0
      BY FS_EmptySet
    <3>. QED  BY <3>1, <3>2 DEF Wearable
  <2>2. after \in Stores
    BY <1>5, <2>1 DEF Stores
  <2>3. ASSUME r.items \subseteq Mine(s, u)
        PROVE  Effect(op, r, u, s, after)
    <3>1. after.status = s.status /\ after.palette = s.palette /\ after.worn = s.worn
      BY DEF Stores
    <3>2. after.looks = [s.looks EXCEPT ![r.id] = [of |-> u, items |-> r.items, name |-> r.name]]
      BY DEF Stores
    <3>. HIDE DEF after
    <3>3. \A l \in Looks : /\ l # r.id => after.looks[l] = s.looks[l]
                           /\ l = r.id => after.looks[l].of = u /\ after.looks[l].items = r.items
      BY <2>1, <3>2 DEF Stores
    <3>4. \A v : Mine(after, v) = Mine(s, v)
      BY <3>1 DEF Mine
    <3>5. Consistent(after)
      BY <2>3, <3>1, <3>3, <3>4 DEF Consistent
    <3>6. \A l \in Looks : s.looks[l] = NoLook /\ after.looks[l] # NoLook
                           => after.looks[l].items = r.items
      BY <3>3
    <3>. QED  BY <1>5, <3>1, <3>5, <3>6 DEF Effect
  <2>4. \/ r.items \subseteq Mine(s, u) /\ CreateOutfit(s, r, u) = Done(after)
        \/ CreateOutfit(s, r, u) = Refused(s)
    BY DEF CreateOutfit
  <2>5. Serve(s, r, u) = CreateOutfit(s, r, u)
    BY <1>5, Owners, ServeCases
  <2>. HIDE DEF after
  <2>. QED  BY <1>5, <2>2, <2>3, <2>4, <2>5
<1>6. CASE u \in Users /\ op = "drop"
  <2>. DEFINE after == [s EXCEPT !.looks[r.id] = NoLook]
  <2>1. r.id \in Looks
    BY <1>6 DEF Requests
  <2>2. after \in Stores
    BY <1>6, <2>1 DEF Stores
  <2>3. Effect(op, r, u, s, after)
    <3>1. after.status = s.status /\ after.palette = s.palette /\ after.worn = s.worn
      BY DEF Stores
    <3>2. \A l \in Looks : after.looks[l] = s.looks[l] \/ after.looks[l] = NoLook
      BY <2>1 DEF Stores
    <3>3. NoLook.items = {}
      BY DEF NoLook
    <3>. HIDE DEF after
    <3>4. Consistent(after)
      BY <2>2, <3>1, <3>2, <3>3, StaysConsistent
    <3>. QED  BY <1>6, <3>1, <3>2, <3>4 DEF Effect
  <2>4. Effect(op, r, u, s, s)
    BY <1>6 DEF Effect
  <2>5. DeleteOutfit(s, r, u) = Done(after) \/ DeleteOutfit(s, r, u) = Done(s)
    BY DEF DeleteOutfit
  <2>6. Serve(s, r, u) = DeleteOutfit(s, r, u)
    BY <1>6, Owners, ServeCases
  <2>. HIDE DEF after
  <2>. QED  BY <1>6, <2>2, <2>3, <2>4, <2>5, <2>6
<1>7. CASE u \in Users /\ op = "name"
  <2>. DEFINE after == [s EXCEPT !.looks[r.id].name = r.name]
  <2>1. r.id \in Looks /\ r.name \in Names
    BY <1>7 DEF Requests
  <2>2. ASSUME s.looks[r.id].of = u
        PROVE  after \in Stores /\ Effect(op, r, u, s, after)
    <3>1. s.looks[r.id] \in [of : Users, items : SUBSET Garments, name : Names]
      BY <1>7, <2>1, <2>2, Owners DEF Stores, NoLook
    <3>. DEFINE look == [s.looks[r.id] EXCEPT !.name = r.name]
    <3>2. look \in [of : Users, items : SUBSET Garments, name : Names] /\ look.of = u
          /\ look.items = s.looks[r.id].items
      BY <2>1, <2>2, <3>1
    <3>3. after.status = s.status /\ after.palette = s.palette /\ after.worn = s.worn
          /\ after.looks = [s.looks EXCEPT ![r.id] = look]
      BY DEF Stores
    <3>4. after \in Stores
      BY <2>1, <3>2 DEF Stores
    <3>. HIDE DEF after, look
    <3>5. \A l \in Looks : /\ after.looks[l].of = s.looks[l].of
                           /\ after.looks[l].items = s.looks[l].items
                           /\ l # r.id => after.looks[l] = s.looks[l]
      BY <2>1, <2>2, <3>2, <3>3 DEF Stores
    <3>6. s.looks[r.id] # NoLook
      BY <1>7, <2>2, Owners DEF NoLook
    <3>7. Consistent(after)
      BY <3>3, <3>4, <3>5, StaysConsistent
    <3>. QED  BY <1>7, <3>3, <3>4, <3>5, <3>6, <3>7 DEF Effect
  <2>3. \/ s.looks[r.id].of = u /\ RenameOutfit(s, r, u) = Done(after)
        \/ RenameOutfit(s, r, u) = Refused(s)
    BY DEF RenameOutfit
  <2>4. Serve(s, r, u) = RenameOutfit(s, r, u)
    BY <1>7, Owners, ServeCases
  <2>. HIDE DEF after
  <2>. QED  BY <1>7, <2>2, <2>3, <2>4
<1>8. CASE u \in Users /\ op = "quiz"
  <2>. DEFINE after == [s EXCEPT !.palette = @ \cup {u}]
  <2>1. after \in Stores
    BY <1>8 DEF Stores
  <2>2. Effect(op, r, u, s, after)
    <3>1. after.status = s.status /\ after.looks = s.looks /\ after.worn = s.worn
      BY DEF Stores
    <3>. HIDE DEF after
    <3>2. Consistent(after)
      BY <2>1, <3>1, StaysConsistent
    <3>. QED  BY <1>8, <3>1, <3>2 DEF Effect
  <2>3. UpsertPalette(s, u) = Done(after)
    BY DEF UpsertPalette
  <2>4. Serve(s, r, u) = UpsertPalette(s, u)
    BY <1>8, Owners, ServeCases
  <2>. HIDE DEF after
  <2>. QED  BY <1>8, <2>1, <2>2, <2>3, <2>4
<1>9. CASE u \in Users /\ op = "erase"
  <2>. DEFINE after ==
         [status |-> [g \in Garments |-> IF g \in Mine(s, u) THEN "gone" ELSE s.status[g]],
          worn |-> [g \in Garments |-> IF Owner[g] = u THEN 0 ELSE s.worn[g]],
          looks |-> [l \in Looks |-> IF s.looks[l].of = u THEN NoLook ELSE s.looks[l]],
          palette |-> s.palette \ {u}]
  <2>1. after \in Stores
    BY DEF Stores
  <2>2. Effect(op, r, u, s, after)
    <3>1. \A g \in Garments : /\ after.status[g] = IF g \in Mine(s, u) THEN "gone" ELSE s.status[g]
                              /\ after.worn[g] = IF Owner[g] = u THEN 0 ELSE s.worn[g]
      OBVIOUS
    <3>2. \A l \in Looks : after.looks[l] = IF s.looks[l].of = u THEN NoLook ELSE s.looks[l]
      OBVIOUS
    <3>. HIDE DEF after
    <3>3. \A g \in Garments : after.worn[g] > 0 => after.status[g] \in Availability
      BY <3>1 DEF Consistent, Mine
    <3>4. ASSUME NEW l \in Looks
          PROVE  after.looks[l].items \subseteq Mine(after, after.looks[l].of)
      <4>1. CASE s.looks[l].of = u
        BY <3>2, <4>1 DEF NoLook
      <4>2. CASE s.looks[l].of # u
        <5>1. s.looks[l].items \subseteq Mine(s, s.looks[l].of) /\ after.looks[l] = s.looks[l]
          BY <3>2, <4>2 DEF Consistent
        <5>. QED  BY <3>1, <4>2, <5>1 DEF Mine
      <4>. QED  BY <4>1, <4>2
    <3>5. Consistent(after)
      BY <3>3, <3>4 DEF Consistent
    <3>. QED  BY <1>9, <3>1, <3>2, <3>5 DEF Effect, Hooks
  <2>3. DeleteAccount(s, u) = Done(after)
    BY DEF DeleteAccount
  <2>4. Serve(s, r, u) = DeleteAccount(s, u)
    BY <1>9, Owners, ServeCases
  <2>. HIDE DEF after
  <2>. QED  BY <1>9, <2>1, <2>2, <2>3, <2>4
<1>10. CASE u \in Users /\ op = "parse"
  <2>. DEFINE after == [s EXCEPT !.status[r.item] = "clean"]
  <2>1. r.item \in Garments
    BY <1>10 DEF Requests
  <2>2. after \in Stores
    BY <2>1 DEF Stores, Availability
  <2>3. ASSUME s.status[r.item] = "unmade"
        PROVE  Effect(op, r, u, s, after)
    <3>1. after.looks = s.looks /\ after.palette = s.palette /\ after.worn = s.worn
      BY DEF Stores
    <3>2. \A g \in Garments : /\ s.status[g] = "gone" => after.status[g] = "gone"
                              /\ s.status[g] \in Availability => after.status[g] \in Availability
      BY <2>1, <2>3 DEF Stores, Availability
    <3>. HIDE DEF after
    <3>3. Consistent(after)
      BY <2>2, <3>1, <3>2, StaysConsistent
    <3>. QED  BY <1>10, <3>1, <3>2, <3>3 DEF Effect
  <2>4. Effect(op, r, u, s, s)
    BY <1>10 DEF Effect
  <2>5. \/ s.status[r.item] = "unmade" /\ ParsePhoto(s, r, u) = Done(after)
        \/ ParsePhoto(s, r, u) = Done(s)
        \/ ParsePhoto(s, r, u) = Refused(s)
    BY DEF ParsePhoto
  <2>6. Serve(s, r, u) = ParsePhoto(s, r, u)
    BY <1>10, Owners, ServeCases
  <2>. HIDE DEF after
  <2>. QED  BY <1>10, <2>2, <2>3, <2>4, <2>5, <2>6
<1>. QED  BY <1>1, <1>2, <1>3, <1>4, <1>5, <1>6, <1>7, <1>8, <1>9, <1>10 DEF Hooks

\* The rows after an answer are typed, and a refusal changes none.
LEMMA ServeTyped ==
  ASSUME NEW s \in Stores, Consistent(s),
         NEW op \in Hooks, NEW r \in Requests(op), NEW u \in Users \cup {None}
  PROVE  /\ Serve(s, r, u).store \in Stores
         /\ Serve(s, r, u).ok \in BOOLEAN
         /\ Serve(s, r, u).ok => u \in Users /\ Effect(op, r, u, s, Serve(s, r, u).store)
         /\ ~Serve(s, r, u).ok => Serve(s, r, u).store = s
<1>1. \A t : Done(t).ok = TRUE /\ Done(t).store = t
  BY Answers
<1>2. Refused(s).ok = FALSE /\ Refused(s).store = s
  BY Answers
<1>3. CASE Serve(s, r, u) = Refused(s)
  BY <1>2, <1>3
<1>4. CASE u \in Users /\ \E t \in Stores : Serve(s, r, u) = Done(t) /\ Effect(op, r, u, s, t)
  BY <1>1, <1>4
<1>. QED  BY <1>3, <1>4, ServeShape

\* What a key shows depends on these rows only.
LEMMA ViewRows ==
  ASSUME NEW s \in Stores, NEW t \in Stores, Consistent(s), Consistent(t), NEW v
  PROVE  /\ t.palette = s.palette => View(t, "palette", v) = View(s, "palette", v)
         /\ t.looks = s.looks => View(t, "looks", v) = View(s, "looks", v)
         /\ t.worn = s.worn => View(t, "wears", v) = View(s, "wears", v)
         /\ t.status = s.status
            => View(t, "closet", v) = View(s, "closet", v) /\ View(t, "hamper", v) = View(s, "hamper", v)
<1>1. t.palette = s.palette => View(t, "palette", v) = View(s, "palette", v)
  BY DEF View, ReadPalette
<1>2. t.looks = s.looks => View(t, "looks", v) = View(s, "looks", v)
  BY DEF View, ListOutfits
<1>3. /\ {h \in Mine(t, v) : t.worn[h] > 0} = {h \in Garments : Owner[h] = v /\ t.worn[h] > 0}
      /\ {h \in Mine(s, v) : s.worn[h] > 0} = {h \in Garments : Owner[h] = v /\ s.worn[h] > 0}
  BY DEF Mine, Consistent
<1>4. t.worn = s.worn => View(t, "wears", v) = View(s, "wears", v)
  BY <1>3 DEF View, ListWear
<1>5. t.status = s.status => Mine(t, v) = Mine(s, v)
  BY DEF Mine
<1>6. t.status = s.status /\ Mine(t, v) = Mine(s, v)
      => View(t, "closet", v) = View(s, "closet", v) /\ View(t, "hamper", v) = View(s, "hamper", v)
  BY DEF View, ListWardrobe
<1>. QED  BY <1>1, <1>2, <1>4, <1>5, <1>6

\* A request changes what Affected says of it and nothing else: no list that
\* useMutation leaves alone shows it.
LEMMA ServeFrame ==
  ASSUME NEW s \in Stores, NEW t \in Stores, Consistent(s),
         NEW op \in Hooks, NEW r, NEW u, Effect(op, r, u, s, t),
         NEW k \in Keys \ Affected(op), NEW v
  PROVE  View(t, k, v) = View(s, k, v)
<1>1. CASE op \in {"status", "parse"}
  BY <1>1, ViewRows DEF Effect, Affected, Wardrobe, Keys, Hooks
<1>2. CASE op = "wear"
  BY <1>2, ViewRows DEF Effect, Affected, Wardrobe, Keys, Hooks
<1>3. CASE op = "merge"
  BY <1>3, ViewRows DEF Effect, Affected, Wardrobe, Keys, Hooks
<1>4. CASE op \in {"create", "drop", "name"}
  BY <1>4, ViewRows DEF Effect, Affected, Wardrobe, Keys, Hooks
<1>5. CASE op = "quiz"
  BY <1>5, ViewRows DEF Effect, Affected, Wardrobe, Keys, Hooks
<1>6. CASE op = "erase"
  BY <1>6 DEF Affected, Keys
<1>. QED  BY <1>1, <1>2, <1>3, <1>4, <1>5, <1>6 DEF Hooks

\* What is gone is in no list.
LEMMA GoneViews ==
  ASSUME NEW s \in Stores, Consistent(s), NEW v \in Users, NEW k \in Keys,
         NEW g \in Garments, s.status[g] = "gone"
  PROVE  g \notin Named(k, View(s, k, v))
<1>1. \A u : g \notin Mine(s, u)
  BY DEF Mine, Availability
<1>2. CASE k \in Wardrobe
  <2>1. \E available : View(s, k, v) = ListWardrobe(s, v, available)
    BY <1>2 DEF View, Wardrobe
  <2>. QED  BY <1>1, <1>2, <2>1 DEF ListWardrobe, Named, Wardrobe
<1>3. CASE k = "wears"
  BY <1>1, <1>3 DEF View, ListWear, Named
<1>4. CASE k = "looks"
  <2>1. \A l \in Looks : g \notin s.looks[l].items
    BY <1>1 DEF Consistent
  <2>2. \A row \in ListOutfits(s, v) : g \notin row[2].items
    BY <2>1 DEF ListOutfits
  <2>3. Named(k, View(s, k, v)) = UNION {row[2].items : row \in ListOutfits(s, v)}
    BY <1>4 DEF View, Named
  <2>. QED  BY <2>2, <2>3
<1>5. CASE k = "palette"
  BY <1>5 DEF Named
<1>. QED  BY <1>2, <1>3, <1>4, <1>5 DEF Keys, Wardrobe

\* Each key shows its own rows.
LEMMA ViewTyped ==
  ASSUME NEW s \in Stores, NEW v \in Users, NEW k \in Keys
  PROVE  View(s, k, v) \subseteq RowsFor(k)
<1>1. CASE k \in Wardrobe
  <2>1. View(s, k, v) \in {ListWardrobe(s, v, Availability), ListWardrobe(s, v, {"dirty"})}
    BY <1>1 DEF View, Wardrobe
  <2>2. ListWardrobe(s, v, Availability) \subseteq Garments \X Availability
    BY DEF ListWardrobe, Mine
  <2>3. ListWardrobe(s, v, {"dirty"}) \subseteq Garments \X Availability
    BY DEF ListWardrobe, Mine, Availability
  <2>4. RowsFor(k) = Garments \X Availability
    BY <1>1 DEF RowsFor, Wardrobe
  <2>. QED  BY <2>1, <2>2, <2>3, <2>4
<1>2. CASE k = "looks"
  <2>1. \A l \in Looks : s.looks[l].of = v => s.looks[l] \in [of : Users, items : SUBSET Garments, name : Names]
    BY Owners DEF Stores, NoLook
  <2>2. ListOutfits(s, v) \subseteq Looks \X [of : Users, items : SUBSET Garments, name : Names]
    BY <2>1 DEF ListOutfits
  <2>. QED  BY <1>2, <2>2 DEF View, RowsFor, Wardrobe
<1>3. CASE k = "wears"
  <2>1. ListWear(s, v) \subseteq Garments \X Nat
    BY DEF ListWear, Mine, Stores
  <2>. QED  BY <1>3, <2>1 DEF View, RowsFor, Wardrobe
<1>4. CASE k = "palette"
  BY <1>4 DEF View, RowsFor, Wardrobe, ReadPalette
<1>. QED  BY <1>1, <1>2, <1>3, <1>4 DEF Keys, Wardrobe

-----------------------------------------------------------------------------
(* The query cache, one entry at a time.                                    *)

\* What becomes of an entry that only waits, is asked for again or is marked
\* stale: its rows stay, and it looks no fresher than it did.
Kept(e, e2) ==
  /\ e2.has = e.has /\ e2.rows = e.rows /\ e2.of = e.of
  /\ e2.fetch = "read" => e.fetch = "read" /\ e2.got = e.got /\ e2.token = e.token
  /\ e2.fetch # "read" /\ ~e2.stale => e.fetch # "read" /\ ~e.stale

LEMMA KeptSame == ASSUME NEW e PROVE Kept(e, e)
BY DEF Kept

LEMMA EmptyTyped == ASSUME NEW k PROVE EntryTyped(k, Empty)
BY DEF EntryTyped, Entries, Empty

\* A fetch is sent, with the token of the moment.
LEMMA FetchKeeps ==
  ASSUME NEW k, NEW e, EntryTyped(k, e), NEW token \in Users \cup {None}
  PROVE  /\ EntryTyped(k, Fetch(e, token))
         /\ Fetch(e, token).fetch = "sent" /\ Fetch(e, token).stale = e.stale
         /\ Fetch(e, token).has = e.has /\ Fetch(e, token).rows = e.rows /\ Fetch(e, token).of = e.of
         /\ e.fetch = "idle" => Kept(e, Fetch(e, token))
<1>. DEFINE f == Fetch(e, token)
<1>1. /\ f \in Entries(k)
      /\ f.fetch = "sent" /\ f.stale = e.stale /\ f.has = e.has /\ f.rows = e.rows /\ f.of = e.of
  BY DEF EntryTyped, Entries, Fetch
<1>. HIDE DEF f
<1>2. EntryTyped(k, f)
  BY <1>1 DEF EntryTyped
<1>3. e.fetch = "idle" => Kept(e, f)
  BY <1>1 DEF Kept
<1>. QED  BY <1>1, <1>2, <1>3 DEF f

LEMMA StaleKeeps ==
  ASSUME NEW k, NEW e, EntryTyped(k, e), e # Empty
  PROVE  /\ EntryTyped(k, [e EXCEPT !.stale = TRUE])
         /\ Kept(e, [e EXCEPT !.stale = TRUE])
         /\ [e EXCEPT !.stale = TRUE].stale
<1>. DEFINE f == [e EXCEPT !.stale = TRUE]
<1>1. /\ f \in Entries(k) /\ f.stale
      /\ f.has = e.has /\ f.rows = e.rows /\ f.of = e.of /\ f.error = e.error
      /\ f.fetch = e.fetch /\ f.token = e.token /\ f.got = e.got
  BY DEF EntryTyped, Entries
<1>2. e.has \/ e.fetch # "idle" \/ e.error
  BY DEF EntryTyped, Entries, Empty
<1>. HIDE DEF f
<1>3. EntryTyped(k, f)
  BY <1>1, <1>2 DEF EntryTyped
<1>4. Kept(e, f)
  BY <1>1 DEF Kept
<1>. QED  BY <1>1, <1>3, <1>4 DEF f

LEMMA ErrorKeeps ==
  ASSUME NEW k, NEW e, EntryTyped(k, e), e.fetch = "sent"
  PROVE  EntryTyped(k, OnError(e)) /\ Kept(e, OnError(e))
<1>. DEFINE f == OnError(e)
<1>1. /\ f \in Entries(k) /\ f.error /\ f.fetch = "idle" /\ f.token = None /\ f.got = {}
      /\ f.has = e.has /\ f.rows = e.rows /\ f.of = e.of /\ f.stale = e.stale
  BY DEF EntryTyped, Entries, OnError
<1>. HIDE DEF f
<1>2. EntryTyped(k, f)
  BY <1>1 DEF EntryTyped
<1>3. Kept(e, f)
  BY <1>1 DEF Kept
<1>. QED  BY <1>2, <1>3 DEF f

LEMMA MountKeeps ==
  ASSUME NEW k, NEW e, EntryTyped(k, e), NEW token \in Users \cup {None}
  PROVE  EntryTyped(k, OnMount(e, token)) /\ Kept(e, OnMount(e, token))
BY FetchKeeps, KeptSame DEF OnMount

\* An invalidated entry is empty or marked; what had read and is not replaced
\* still holds what it read.
LEMMA InvalidateKeeps ==
  ASSUME NEW k, NEW e, EntryTyped(k, e), NEW observed \in BOOLEAN, NEW token \in Users \cup {None}
  PROVE  LET f == OnInvalidate(e, observed, token)
         IN  /\ EntryTyped(k, f) /\ Kept(e, f)
             /\ f.has => f.stale
             /\ f.fetch = "read" => ~Replaceable(e, observed)
<1>. DEFINE marked == [e EXCEPT !.stale = TRUE]
            f == OnInvalidate(e, observed, token)
<1>1. CASE e = Empty
  <2>1. f = Empty
    BY <1>1 DEF OnInvalidate
  <2>. QED  BY <1>1, <2>1, KeptSame, EmptyTyped DEF Empty
<1>2. CASE e # Empty /\ Replaceable(e, observed)
  <2>1. f = Fetch(marked, token)
    BY <1>2 DEF OnInvalidate
  <2>2. EntryTyped(k, marked) /\ Kept(e, marked) /\ marked.stale
    BY <1>2, StaleKeeps
  <2>. HIDE DEF marked, f
  <2>3. EntryTyped(k, f) /\ f.stale /\ f.fetch = "sent"
        /\ f.has = marked.has /\ f.rows = marked.rows /\ f.of = marked.of
    BY <2>1, <2>2, FetchKeeps
  <2>4. Kept(e, f)
    BY <2>2, <2>3 DEF Kept
  <2>. QED  BY <2>3, <2>4 DEF f
<1>3. CASE e # Empty /\ ~Replaceable(e, observed)
  <2>1. f = marked
    BY <1>3 DEF OnInvalidate
  <2>. QED  BY <1>3, <2>1, StaleKeeps
<1>. QED  BY <1>1, <1>2, <1>3

\* Rows that arrive are what the fetch has read, of its caller.
LEMMA RowsTyped ==
  ASSUME NEW k, NEW e, EntryTyped(k, e), e.fetch = "read"
  PROVE  EntryTyped(k, OnRows(e))
BY DEF EntryTyped, Entries, OnRows

-----------------------------------------------------------------------------
(* What the builder holds.                                                  *)

LEMMA EmptyDraftTyped == DraftTyped(EmptyDraft)
BY DEF DraftTyped, Drafts, EmptyDraft, OutfitSlots

\* Emptying slots spoils no draft.
LEMMA EmptiesTyped ==
  ASSUME NEW d, DraftTyped(d), NEW slots
  PROVE  DraftTyped(Empties(d, slots))
<1>1. Empties(d, slots) \in Drafts
  BY DEF DraftTyped, Drafts, Empties
<1>2. \A s \in OutfitSlots : Empties(d, slots)[s] = None \/ Empties(d, slots)[s] = d[s]
  BY DEF Empties
<1>3. {"dress", "top", "bottom"} \subseteq OutfitSlots
  BY DEF OutfitSlots
<1>. QED  BY <1>1, <1>2, <1>3 DEF DraftTyped

\* A tap keeps the draft one that can be worn: dress and top exclude each other.
LEMMA TapTyped ==
  ASSUME NEW d, DraftTyped(d), NEW g \in Garments
  PROVE  DraftTyped(Tap(d, g))
<1>. DEFINE slot == SlotOf[g]
            placed == [d EXCEPT ![slot] = g]
            p == Empties(placed, Clashing(slot))
<1>1. slot \in OutfitSlots /\ d \in Drafts
  BY Slotted DEF DraftTyped
<1>2. placed \in Drafts
  BY <1>1 DEF Drafts
<1>3. \A s \in OutfitSlots : placed[s] = IF s = slot THEN g ELSE d[s]
  BY <1>1 DEF Drafts
<1>4. p \in Drafts /\ \A s \in OutfitSlots : p[s] = IF s \in Clashing(slot) THEN None ELSE placed[s]
  BY <1>2 DEF Empties, Drafts
<1>5. ASSUME NEW s \in OutfitSlots, p[s] # None
      PROVE  SlotOf[p[s]] = s
  <2>. HIDE DEF p
  <2>1. CASE s = slot
    BY <1>3, <1>4, <1>5, <2>1
  <2>2. CASE s # slot
    BY <1>3, <1>4, <1>5, <2>2 DEF DraftTyped
  <2>. QED  BY <2>1, <2>2
<1>6. p["dress"] # None => p["top"] = None /\ p["bottom"] = None
  <2>1. {"dress", "top", "bottom"} \subseteq OutfitSlots
    BY DEF OutfitSlots
  <2>2. CASE slot = "dress"
    BY <1>3, <1>4, <2>1, <2>2 DEF Clashing
  <2>3. CASE slot \in {"top", "bottom"}
    BY <1>3, <1>4, <2>1, <2>3 DEF Clashing
  <2>4. CASE slot \notin {"dress", "top", "bottom"}
    BY <1>3, <1>4, <2>1, <2>4 DEF Clashing, DraftTyped
  <2>. QED  BY <2>2, <2>3, <2>4
<1>7. DraftTyped(p)
  BY <1>4, <1>5, <1>6 DEF DraftTyped
<1>8. Tap(d, g) = p \/ Tap(d, g) = Empties(d, {slot})
  BY DEF Tap, TakeOff, Place
<1>. QED  BY <1>7, <1>8, EmptiesTyped

\* A complete draft is a look that can be worn.
LEMMA DraftWearable ==
  ASSUME NEW d, DraftTyped(d), IsComplete(d)
  PROVE  Items(d) \subseteq Garments /\ Wearable(Items(d))
<1>1. {"dress", "top", "bottom"} \subseteq OutfitSlots
  BY DEF OutfitSlots
<1>2. \A g \in Items(d) : g \in Garments /\ SlotOf[g] \in OutfitSlots /\ d[SlotOf[g]] = g
  BY Slotted DEF Items, DraftTyped, Drafts
<1>3. d["dress"] # None => d["dress"] \in Items(d) /\ SlotOf[d["dress"]] = "dress"
  BY <1>1 DEF Items, DraftTyped
<1>4. \A g \in Items(d) : g # None
  BY DEF Items
<1>5. Cardinality(Items(d)) >= 2 \/ \E g \in Items(d) : SlotOf[g] = "dress"
  BY <1>3 DEF IsComplete
<1>6. \A g, h \in Items(d) : SlotOf[g] = SlotOf[h] => g = h
  BY <1>2
<1>7. (\E g \in Items(d) : SlotOf[g] = "dress") => \A g \in Items(d) : SlotOf[g] \notin {"top", "bottom"}
  BY <1>2, <1>4 DEF DraftTyped
<1>. QED  BY <1>2, <1>5, <1>6, <1>7 DEF Wearable

-----------------------------------------------------------------------------
(* The calls in flight, one lane at a time.                                 *)

LEMMA NoCallTyped == CallTyped(NoCall)
BY DEF CallTyped, Calls, NoCall, Hooks

\* What remains to be asked of a call on its way.
LEMMA CallAsks ==
  ASSUME NEW x, CallTyped(x), x # NoCall
  PROVE  /\ x.op \in Hooks
         /\ Head(x.todo) \in Requests(x.op)
<1>1. x.op \in Hooks /\ x.todo # <<>> /\ x.todo \in Seq(Requests(x.op))
  BY DEF CallTyped, Calls
<1>. QED  BY <1>1, HeadTailProperties

\* A callback is dropped.
LEMMA CallUnwatched ==
  ASSUME NEW x, CallTyped(x), NEW b \in BOOLEAN, b => x.watched
  PROVE  LET y == [x EXCEPT !.watched = b]
         IN  CallTyped(y) /\ y.op = x.op /\ y.token = x.token /\ y.phase = x.phase
<1>. DEFINE y == [x EXCEPT !.watched = b]
<1>1. /\ y \in Calls /\ y.op = x.op /\ y.todo = x.todo /\ y.token = x.token /\ y.phase = x.phase
      /\ y.watched = b
  BY DEF CallTyped, Calls
<1>. HIDE DEF y
<1>2. ASSUME x.op = "none"
      PROVE  y = NoCall
  <2>1. x = NoCall
    BY <1>2 DEF CallTyped
  <2>2. y.op = "none" /\ y.todo = <<>> /\ y.token = None /\ y.phase = "sent" /\ y.watched = FALSE
    BY <1>1, <2>1 DEF NoCall
  <2>. QED  BY <1>1, <2>2 DEF Calls, NoCall
<1>3. CallTyped(y)
  BY <1>1, <1>2 DEF CallTyped
<1>. QED  BY <1>1, <1>3 DEF y

\* A request is answered, or its answer is lost.
LEMMA CallAnswered ==
  ASSUME NEW x, CallTyped(x), x # NoCall, NEW p \in {"sent", "ok", "refused"},
         p = "ok" => x.token \in Users
  PROVE  LET y == [x EXCEPT !.phase = p]
         IN  CallTyped(y) /\ y.op = x.op /\ y.token = x.token /\ y.phase = p
<1>. DEFINE y == [x EXCEPT !.phase = p]
<1>1. /\ y \in Calls /\ y.op = x.op /\ y.todo = x.todo /\ y.token = x.token /\ y.phase = p
  BY DEF CallTyped, Calls
<1>. HIDE DEF y
<1>2. CallTyped(y)
  BY <1>1 DEF CallTyped
<1>. QED  BY <1>1, <1>2 DEF y

LEMMA TailTyped ==
  ASSUME NEW S, NEW q \in Seq(S), Len(q) > 1
  PROVE  Tail(q) \in Seq(S) /\ Tail(q) # <<>>
<1>1. q # <<>>
  BY EmptySeq
<1>2. Tail(q) \in Seq(S) /\ Len(Tail(q)) = Len(q) - 1
  BY <1>1, HeadTailProperties
<1>3. Len(q) \in Nat
  BY LenProperties
<1>4. Tail(q) = <<>> => Len(Tail(q)) = 0
  BY EmptySeq
<1>. QED  BY <1>2, <1>3, <1>4

\* A loop goes on to its next request.
LEMMA CallNext ==
  ASSUME NEW x, CallTyped(x), Len(x.todo) > 1, NEW token \in Users \cup {None}
  PROVE  LET y == [x EXCEPT !.todo = Tail(@), !.phase = "sent", !.token = token]
         IN  CallTyped(y) /\ y.phase = "sent"
<1>. DEFINE y == [x EXCEPT !.todo = Tail(@), !.phase = "sent", !.token = token]
<1>1. x.op \in Hooks /\ x \in Calls /\ x.todo \in Seq(Requests(x.op))
  BY DEF CallTyped, Calls, NoCall
<1>2. Tail(x.todo) \in Seq(Requests(x.op)) /\ Tail(x.todo) # <<>>
  BY <1>1, TailTyped
<1>3. Tail(x.todo) \in Seq(UNION {Requests(op) : op \in Hooks})
  BY <1>1, TailTyped DEF Calls
<1>4. /\ y \in Calls /\ y.op = x.op /\ y.todo = Tail(x.todo) /\ y.phase = "sent"
  BY <1>1, <1>3 DEF Calls
<1>. HIDE DEF y
<1>5. CallTyped(y)
  BY <1>1, <1>2, <1>3, <1>4 DEF CallTyped, Hooks
<1>. QED  BY <1>4, <1>5 DEF y

-----------------------------------------------------------------------------
(* The steps that leave the server and what is known of it alone.           *)

\* No write takes effect or lands, and the rows stay where they are.
SameOk == \A c \in Lanes : calls[c].phase = "ok" \/ calls'[c].phase = "ok"
            => /\ calls[c].phase = "ok" /\ calls'[c].phase = "ok"
               /\ calls'[c].op = calls[c].op /\ calls'[c].token = calls[c].token
Quietly ==
  /\ UNCHANGED <<store, owed, purged>>
  /\ \A k \in Keys : Kept(cache[k], cache'[k])
  /\ SameOk

\* What a step keeps.
Sound == TypeInv' /\ (BasketInv => BasketInv')

LEMMA FreshUiTyped == FreshUi \in Uis
BY EmptyDraftTyped DEF FreshUi, Uis, DraftTyped

LEMMA BasketKept ==
  ASSUME Kept(cache["hamper"], cache'["hamper"]), BasketInv,
         Shown' = "laundry" => \/ ui'.basket = {}
                               \/ Shown = "laundry" /\ ui'.basket \subseteq ui.basket
  PROVE  BasketInv'
BY DEF BasketInv, Kept, RowsOf

LEMMA RemountKeeps ==
  ASSUME TypeInv, NEW g \in Gates, NEW t \in Tabs, NEW u \in Uis, NEW keys,
         auth' \in Users \cup {None}, Remount(g, t, u, keys)
  PROVE  /\ ScreenTyped' /\ CacheTyped'
         /\ \A k \in Keys : Kept(cache[k], cache'[k])
<1>1. \A k \in Keys : EntryTyped(k, cache'[k]) /\ Kept(cache[k], cache'[k])
  BY MountKeeps, KeptSame DEF TypeInv, CacheTyped, Remount
<1>. QED  BY <1>1 DEF ScreenTyped, CacheTyped, Remount

LEMMA UnwatchedKeeps ==
  ASSUME TypeInv, calls' = Unwatched(calls)
  PROVE  CallsTyped' /\ SameOk
<1>1. \A c \in Lanes : calls'[c] = [calls[c] EXCEPT !.watched = FALSE] /\ CallTyped(calls[c])
  BY DEF Unwatched, TypeInv, CallsTyped
<1>2. \A c \in Lanes : CallTyped(calls'[c]) /\ calls'[c].op = calls[c].op
                       /\ calls'[c].token = calls[c].token /\ calls'[c].phase = calls[c].phase
  <2>. SUFFICES ASSUME NEW c \in Lanes
       PROVE  CallTyped(calls'[c]) /\ calls'[c].op = calls[c].op
              /\ calls'[c].token = calls[c].token /\ calls'[c].phase = calls[c].phase
    OBVIOUS
  <2>. DEFINE b == FALSE
  <2>1. b \in BOOLEAN /\ (b => calls[c].watched) /\ calls'[c] = [calls[c] EXCEPT !.watched = b]
        /\ CallTyped(calls[c])
    BY <1>1
  <2>. HIDE DEF b
  <2>. QED  BY <2>1, CallUnwatched
<1>. QED  BY <1>2 DEF CallsTyped, SameOk, Unwatched

\* A screen that comes up is a fresh one.
LEMMA ComesKeeps ==
  ASSUME TypeInv, NEW g \in Gates, NEW t \in Tabs, auth' \in Users \cup {None}, Comes(g, t), Idle
  PROVE  Sound /\ Quietly
<1>1. PICK keys : Remount(g, t, FreshUi, keys)
  BY DEF Comes
<1>2. ScreenTyped' /\ CacheTyped' /\ \A k \in Keys : Kept(cache[k], cache'[k])
  BY <1>1, FreshUiTyped, RemountKeeps
<1>3. CallsTyped' /\ SameOk
  BY UnwatchedKeeps DEF Comes
<1>4. TypeInv' /\ Quietly
  BY <1>2, <1>3 DEF TypeInv, Quietly, Idle
<1>5. ui'.basket = {}
  BY <1>1 DEF Remount, FreshUi
<1>. QED  BY <1>2, <1>4, <1>5, BasketKept DEF Sound, Keys

\* A screen that is drawn anew.
LEMMA RedrawKeeps ==
  ASSUME TypeInv, NEW u \in Uis, Redraw(u), Idle, CallsTyped', SameOk,
         Shown = "laundry" => u.basket \subseteq ui.basket
  PROVE  Sound /\ Quietly
<1>1. PICK keys : Remount(gate, tab, u, keys)
  BY DEF Redraw
<1>2. auth' \in Users \cup {None} /\ gate \in Gates /\ tab \in Tabs
  BY DEF Redraw, TypeInv, ScreenTyped
<1>3. ScreenTyped' /\ CacheTyped' /\ \A k \in Keys : Kept(cache[k], cache'[k])
  BY <1>1, <1>2, RemountKeeps
<1>4. TypeInv' /\ Quietly
  BY <1>3 DEF TypeInv, Quietly, Idle
<1>5. Shown' = Shown /\ ui' = u
  BY <1>1 DEF Remount, Shown
<1>. QED  BY <1>3, <1>4, <1>5, BasketKept DEF Sound, Keys

LEMMA CallsSame ==
  ASSUME TypeInv, calls' = calls
  PROVE  CallsTyped' /\ SameOk
BY DEF TypeInv, CallsTyped, SameOk

\* A write is sent.
LEMMA SendKeeps ==
  ASSUME TypeInv, NEW op \in Hooks, NEW todo \in Seq(Requests(op)), Send(op, todo)
  PROVE  Sound /\ Quietly
<1>. DEFINE free == {c \in Lanes : calls[c] = NoCall}
            lane == CHOOSE d \in free : TRUE
            new == [op |-> op, todo |-> todo, token |-> auth, phase |-> "sent", watched |-> TRUE]
<1>1. /\ todo # <<>> /\ free # {}
      /\ calls' = [c \in Lanes |-> IF c = lane THEN new
                                   ELSE [calls[c] EXCEPT !.watched = @ /\ calls[c].op # op]]
      /\ UNCHANGED <<store, phone, cache, owed, purged, plan>>
  BY DEF Send
<1>2. lane \in Lanes /\ calls[lane].phase = "sent"
  <2>1. lane \in free
    BY <1>1, Zenon
  <2>. QED  BY <2>1 DEF NoCall
<1>3. CallTyped(new) /\ new.phase = "sent"
  <2>1. todo \in Seq(UNION {Requests(o) : o \in Hooks})
    BY ElementOfSeq, SeqDef
  <2>. QED  BY <1>1, <2>1 DEF CallTyped, Calls, TypeInv, ScreenTyped, Hooks
<1>. HIDE DEF new, lane
<1>4. ASSUME NEW c \in Lanes
      PROVE  /\ CallTyped(calls'[c])
             /\ calls'[c].phase = calls[c].phase
             /\ calls'[c].phase # "sent" => calls'[c].op = calls[c].op /\ calls'[c].token = calls[c].token
  <2>1. CASE c = lane
    BY <1>1, <1>2, <1>3, <2>1
  <2>2. CASE c # lane
    <3>. DEFINE b == calls[c].watched /\ calls[c].op # op
    <3>1. calls'[c] = [calls[c] EXCEPT !.watched = b] /\ CallTyped(calls[c])
      BY <1>1, <2>2 DEF TypeInv, CallsTyped
    <3>2. b \in BOOLEAN /\ (b => calls[c].watched)
      OBVIOUS
    <3>. HIDE DEF b
    <3>. QED  BY <3>1, <3>2, CallUnwatched
  <2>. QED  BY <2>1, <2>2
<1>5. CallsTyped' /\ SameOk
  <2>1. calls' = [c \in Lanes |-> calls'[c]]
    BY <1>1
  <2>. QED  BY <1>4, <2>1 DEF CallsTyped, SameOk
<1>6. ScreenTyped' /\ CacheTyped' /\ \A k \in Keys : Kept(cache[k], cache'[k])
  BY <1>1, KeptSame DEF TypeInv, ScreenTyped, CacheTyped, phone
<1>7. TypeInv' /\ Quietly
  BY <1>1, <1>5, <1>6 DEF TypeInv, Quietly
<1>8. BasketInv => BasketInv'
  BY <1>1 DEF BasketInv, RowsOf, Shown, phone
<1>. QED  BY <1>7, <1>8 DEF Sound

-----------------------------------------------------------------------------
(* The gestures, action by action.                                          *)

LEMMA SessionKeeps == TypeInv /\ Session => Sound /\ Quietly
<1>. SUFFICES ASSUME TypeInv, Session PROVE Sound /\ Quietly
  OBVIOUS
<1>1. gate \in Gates /\ tab \in Tabs /\ auth \in Users \cup {None} /\ "wardrobe" \in Tabs
  BY DEF TypeInv, ScreenTyped, Tabs
<1>2. CASE InitialEvent
  <2>. DEFINE g == [gate EXCEPT !.session = auth, !.loading = FALSE]
  <2>1. g \in Gates
    BY <1>1 DEF Gates
  <2>2. Comes(g, tab) /\ auth' \in Users \cup {None} /\ Idle
    BY <1>1, <1>2 DEF InitialEvent
  <2>. HIDE DEF g
  <2>. QED  BY <1>1, <2>1, <2>2, ComesKeeps
<1>3. CASE ReadSession
  <2>1. /\ gate' = [gate EXCEPT !.first = auth]
        /\ UNCHANGED <<auth, tab, ui, cache, calls>> /\ Idle
    BY <1>3 DEF ReadSession
  <2>2. gate' \in Gates /\ Shown' = Shown
    BY <1>1, <2>1 DEF Gates, Shown, ChooseRootView
  <2>3. TypeInv' /\ Quietly
    BY <2>1, <2>2, KeptSame, CallsSame DEF TypeInv, ScreenTyped, CacheTyped, Quietly, Idle
  <2>. QED  BY <2>1, <2>2, <2>3 DEF Sound, BasketInv, RowsOf
<1>4. CASE InitialRead
  <2>. DEFINE g == [session |-> gate.first, loading |-> FALSE, first |-> "done"]
  <2>1. g \in Gates
    BY <1>1, <1>4 DEF Gates, InitialRead
  <2>2. auth' \in Users \cup {None} /\ Idle
    BY <1>1, <1>4 DEF InitialRead
  <2>3. CASE ChooseRootView(g) = ChooseRootView(gate)
    <3>1. Remount(g, tab, ui, {}) /\ calls' = calls
      BY <1>4, <2>3 DEF InitialRead
    <3>2. ui \in Uis
      BY DEF TypeInv, ScreenTyped
    <3>3. gate' = g /\ tab' = tab /\ ui' = ui
      BY <3>1 DEF Remount
    <3>. HIDE DEF g
    <3>4. ScreenTyped' /\ CacheTyped' /\ \A k \in Keys : Kept(cache[k], cache'[k])
      BY <1>1, <2>1, <2>2, <3>1, <3>2, RemountKeeps
    <3>5. TypeInv' /\ Quietly
      BY <2>2, <3>1, <3>4, CallsSame DEF TypeInv, Quietly, Idle
    <3>6. Shown' = Shown
      BY <2>3, <3>3 DEF Shown
    <3>. QED  BY <3>3, <3>4, <3>5, <3>6, BasketKept DEF Sound, Keys
  <2>4. CASE ChooseRootView(g) # ChooseRootView(gate)
    <3>1. Comes(g, "wardrobe")
      BY <1>4, <2>4 DEF InitialRead
    <3>. HIDE DEF g
    <3>. QED  BY <1>1, <2>1, <2>2, <3>1, ComesKeeps
  <2>. QED  BY <2>3, <2>4
<1>5. ASSUME NEW u \in Users, SignIn(u)
      PROVE  Sound /\ Quietly
  <2>. DEFINE g == [gate EXCEPT !.session = u]
  <2>1. g \in Gates
    BY <1>1 DEF Gates
  <2>2. Comes(g, "wardrobe") /\ auth' \in Users \cup {None} /\ Idle
    BY <1>5 DEF SignIn, Reports
  <2>. HIDE DEF g
  <2>. QED  BY <1>1, <2>1, <2>2, ComesKeeps
<1>. QED  BY <1>2, <1>3, <1>4, <1>5 DEF Session

LEMMA BrowseKeeps == TypeInv /\ Browse => Sound /\ Quietly
<1>. SUFFICES ASSUME TypeInv, Browse PROVE Sound /\ Quietly
  OBVIOUS
<1>1. ASSUME NEW t \in Tabs, GoTab(t)
      PROVE  Sound /\ Quietly
  <2>1. Comes(gate, t) /\ Idle /\ gate \in Gates /\ auth' \in Users \cup {None}
    BY <1>1 DEF GoTab, TypeInv, ScreenTyped
  <2>. QED  BY <2>1, ComesKeeps
<1>2. CASE ToggleFilter
  <2>. DEFINE u == [ui EXCEPT !.filter = ~@]
  <2>1. u \in Uis
    BY DEF TypeInv, ScreenTyped, Uis
  <2>2. Redraw(u) /\ Idle /\ calls' = calls /\ Shown = "wardrobe"
    BY <1>2 DEF ToggleFilter
  <2>. HIDE DEF u
  <2>. QED  BY <2>1, <2>2, CallsSame, RedrawKeeps
<1>. QED  BY <1>1, <1>2 DEF Browse

\* The garments on a list are garments.
LEMMA ListsGarments ==
  ASSUME TypeInv, NEW k \in Wardrobe
  PROVE  RowsOf(k) \subseteq Garments
<1>1. k \in Keys /\ cache[k].rows \subseteq RowsFor(k)
  BY DEF Keys, Wardrobe, TypeInv, CacheTyped, EntryTyped, Entries
<1>2. RowsFor(k) = Garments \X Availability
  BY DEF RowsFor, Wardrobe
<1>. QED  BY <1>1, <1>2 DEF RowsOf

LEMMA ClosetKeeps == TypeInv /\ Closet => Sound /\ Quietly
<1>. SUFFICES ASSUME TypeInv, Closet PROVE Sound /\ Quietly
  OBVIOUS
<1>1. ASSUME NEW g \in Garments, NEW to \in Availability, SetStatus(g, to)
      PROVE  Sound /\ Quietly
  <2>1. <<Status(g, to, FALSE)>> \in Seq(Requests("status")) /\ "status" \in Hooks
    BY DEF Status, Requests, Hooks
  <2>2. Send("status", <<Status(g, to, FALSE)>>)
    BY <1>1 DEF SetStatus
  <2>. QED  BY <2>1, <2>2, SendKeeps
<1>2. ASSUME NEW keep \in Garments, NEW discard \in Garments, KeepOne(keep, discard)
      PROVE  Sound /\ Quietly
  <2>. DEFINE todo == <<[op |-> "merge", keep |-> keep, discard |-> discard]>>
  <2>1. todo \in Seq(Requests("merge")) /\ "merge" \in Hooks
    BY DEF Requests, Hooks
  <2>2. Send("merge", todo)
    BY <1>2 DEF KeepOne
  <2>. HIDE DEF todo
  <2>. QED  BY <2>1, <2>2, SendKeeps
<1>3. CASE KeepBoth
  <2>. DEFINE u == [ui EXCEPT !.apart = @ \cup {ActivePair}]
  <2>1. PICK i \in DOMAIN Alike : ActivePair = Alike[i]
    <3>1. DOMAIN Alike \subseteq Nat
      BY PairsAlike, LenProperties
    <3>2. PendingPairs \subseteq DOMAIN Alike /\ PendingPairs # {}
      BY <1>3 DEF KeepBoth, ReviewOffered, PendingPairs
    <3>. QED  BY <3>1, <3>2, MinIn DEF ActivePair
  <2>2. ActivePair \subseteq Garments
    BY <2>1, PairsAlike, ElementOfSeq, LenProperties
  <2>3. u \in Uis /\ u.basket = ui.basket
    BY <2>1, <2>2 DEF TypeInv, ScreenTyped, Uis
  <2>4. Redraw(u) /\ Idle /\ calls' = calls
    BY <1>3 DEF KeepBoth
  <2>. HIDE DEF u
  <2>. QED  BY <2>3, <2>4, CallsSame, RedrawKeeps
<1>. QED  BY <1>1, <1>2, <1>3 DEF Closet

\* Ticking garments of the list keeps the basket to garments of the list.
LEMMA SelectKeeps ==
  ASSUME TypeInv, NEW basket \in SUBSET Garments, Select(basket),
         BasketInv => basket \subseteq Visible
  PROVE  Sound /\ Quietly
<1>. DEFINE u == [ui EXCEPT !.basket = basket]
<1>1. u \in Uis /\ u.basket = basket
  BY DEF TypeInv, ScreenTyped, Uis
<1>2. Redraw(u) /\ Idle /\ calls' = calls /\ InLaundry
  BY DEF Select
<1>. HIDE DEF u
<1>3. PICK keys : Remount(gate, tab, u, keys)
  BY <1>2 DEF Redraw
<1>4. auth' \in Users \cup {None} /\ gate \in Gates /\ tab \in Tabs
  BY <1>2 DEF Redraw, TypeInv, ScreenTyped
<1>5. ScreenTyped' /\ CacheTyped' /\ \A k \in Keys : Kept(cache[k], cache'[k])
  BY <1>1, <1>3, <1>4, RemountKeeps
<1>6. TypeInv' /\ Quietly
  BY <1>2, <1>5, CallsSame DEF TypeInv, Quietly, Idle
<1>7. ui'.basket = basket /\ Visible = RowsOf("hamper") /\ cache'["hamper"].rows = cache["hamper"].rows
  BY <1>1, <1>2, <1>3, <1>5 DEF Remount, InLaundry, Ready, Visible, Kept, Keys
<1>. QED  BY <1>6, <1>7 DEF Sound, BasketInv, RowsOf

LEMMA LaundryKeeps == TypeInv /\ Laundry => Sound /\ Quietly
<1>. SUFFICES ASSUME TypeInv, Laundry PROVE Sound /\ Quietly
  OBVIOUS
<1>0. "status" \in Hooks /\ "clean" \in Availability
  BY DEF Hooks, Availability
<1>1. Visible \subseteq Garments /\ ui.basket \subseteq Garments
  BY ListsGarments DEF Visible, Wardrobe, TypeInv, ScreenTyped, Uis
<1>2. InLaundry /\ BasketInv => ui.basket \subseteq Visible
  BY DEF InLaundry, BasketInv, Visible, Ready
<1>3. ASSUME NEW g \in Garments, MarkOne(g)
      PROVE  Sound /\ Quietly
  <2>1. <<Status(g, "clean", FALSE)>> \in Seq(Requests("status"))
    BY <1>0 DEF Status, Requests
  <2>2. Send("status", <<Status(g, "clean", FALSE)>>)
    BY <1>3 DEF MarkOne
  <2>. QED  BY <1>0, <2>1, <2>2, SendKeeps
<1>4. ASSUME NEW g \in Garments, Tick(g)
      PROVE  Sound /\ Quietly
  <2>1. Toggle(ui.basket, g) \in SUBSET Garments
    BY <1>1 DEF Toggle
  <2>2. Select(Toggle(ui.basket, g)) /\ (BasketInv => Toggle(ui.basket, g) \subseteq Visible)
    BY <1>2, <1>4 DEF Tick, Toggle, Select
  <2>. QED  BY <2>1, <2>2, SelectKeeps
<1>5. CASE TickAll
  <2>1. SelectAll(ui.basket, Visible) \in SUBSET Garments
        /\ SelectAll(ui.basket, Visible) \subseteq Visible
    BY <1>1 DEF SelectAll
  <2>2. Select(SelectAll(ui.basket, Visible))
    BY <1>5 DEF TickAll
  <2>. QED  BY <2>1, <2>2, SelectKeeps
<1>6. CASE MarkSelectedClean
  <2>. DEFINE ids == SetToSeq(Pending(ui.basket, Visible))
              todo == [i \in DOMAIN ids |-> Status(ids[i], "clean", TRUE)]
  <2>1. Pending(ui.basket, Visible) \subseteq Garments
    BY <1>1 DEF Pending
  <2>2. ids \in Seq(Garments) /\ DOMAIN ids = 1 .. Len(ids) /\ Len(ids) \in Nat
    BY <2>1, SetToSeqType, SeqMonotonic, LenProperties
  <2>3. Send("status", todo)
    BY <1>6 DEF MarkSelectedClean
  <2>4. todo \in Seq(Requests("status"))
    <3>. HIDE DEF ids
    <3>1. \A i \in 1 .. Len(ids) : Status(ids[i], "clean", TRUE) \in Requests("status")
      BY <1>0, <2>2, ElementOfSeq DEF Status, Requests
    <3>2. todo = [i \in 1 .. Len(ids) |-> Status(ids[i], "clean", TRUE)]
      BY <2>2, Zenon
    <3>3. todo \in [1 .. Len(ids) -> Requests("status")]
      BY <3>1, <3>2, Zenon
    <3>. HIDE DEF todo
    <3>. QED  BY <2>2, <3>3, SeqDef
  <2>. HIDE DEF todo
  <2>. QED  BY <1>0, <2>3, <2>4, SendKeeps
<1>. QED  BY <1>3, <1>4, <1>5, <1>6 DEF Laundry

LEMMA WoreKeeps == TypeInv /\ WoreThis => Sound /\ Quietly
<1>. SUFFICES ASSUME TypeInv, WoreThis PROVE Sound /\ Quietly
  OBVIOUS
<1>1. PICK look \in TodaysLooks :
        Send("wear", LET ids == SetToSeq(look)
                     IN  [i \in DOMAIN ids |-> [op |-> "wear", item |-> ids[i]]])
  BY DEF WoreThis
<1>. DEFINE ids == SetToSeq(look)
            todo == [i \in DOMAIN ids |-> [op |-> "wear", item |-> ids[i]]]
<1>2. look \subseteq Garments
  <2>1. look \subseteq RowsOf("closet")
    BY DEF TodaysLooks, RowsOf
  <2>. QED  BY <2>1, ListsGarments DEF Wardrobe
<1>3. ids \in Seq(Garments) /\ DOMAIN ids = 1 .. Len(ids) /\ Len(ids) \in Nat
  BY <1>2, SetToSeqType, SeqMonotonic, LenProperties
<1>4. Send("wear", todo)
  BY <1>1
<1>5. todo \in Seq(Requests("wear")) /\ "wear" \in Hooks
  <2>. HIDE DEF ids
  <2>1. \A i \in 1 .. Len(ids) : [op |-> "wear", item |-> ids[i]] \in Requests("wear")
    BY <1>3, ElementOfSeq DEF Requests
  <2>. QED  BY <1>3, <2>1, IsASeq DEF Hooks
<1>. HIDE DEF todo
<1>. QED  BY <1>4, <1>5, SendKeeps

LEMMA ConfirmKeeps == TypeInv /\ ConfirmApproved => Sound /\ Quietly
<1>. SUFFICES ASSUME TypeInv, ConfirmApproved PROVE Sound /\ Quietly
  OBVIOUS
<1>1. PICK approved \in SUBSET Photos :
        Send("parse", LET ids == SetToSeq(approved)
                      IN  [i \in DOMAIN ids |-> [op |-> "parse", item |-> ids[i]]])
  BY DEF ConfirmApproved
<1>. DEFINE ids == SetToSeq(approved)
            todo == [i \in DOMAIN ids |-> [op |-> "parse", item |-> ids[i]]]
<1>2. approved \subseteq Garments
  BY DEF Photos
<1>3. ids \in Seq(Garments) /\ DOMAIN ids = 1 .. Len(ids) /\ Len(ids) \in Nat
  BY <1>2, SetToSeqType, SeqMonotonic, LenProperties
<1>4. Send("parse", todo)
  BY <1>1
<1>5. todo \in Seq(Requests("parse")) /\ "parse" \in Hooks
  <2>. HIDE DEF ids
  <2>1. \A i \in 1 .. Len(ids) : [op |-> "parse", item |-> ids[i]] \in Requests("parse")
    BY <1>3, ElementOfSeq DEF Requests
  <2>. QED  BY <1>3, <2>1, IsASeq DEF Hooks
<1>. HIDE DEF todo
<1>. QED  BY <1>4, <1>5, SendKeeps

LEMMA OutfitsKeep == TypeInv /\ Outfits => Sound /\ Quietly
<1>. SUFFICES ASSUME TypeInv, Outfits PROVE Sound /\ Quietly
  OBVIOUS
<1>1. ui \in Uis /\ DraftTyped(ui.draft)
  BY DEF TypeInv, ScreenTyped, Uis
<1>2. ASSUME NEW u \in Uis, Build(u), CallsTyped', SameOk
      PROVE  Sound /\ Quietly
  <2>1. Redraw(u) /\ Idle /\ Shown # "laundry"
    BY <1>2 DEF Build
  <2>. QED  BY <1>2, <2>1, RedrawKeeps
<1>3. CASE OpenBuilder
  <2>1. [ui EXCEPT !.building = TRUE] \in Uis
    BY <1>1 DEF Uis
  <2>2. Build([ui EXCEPT !.building = TRUE]) /\ calls' = calls
    BY <1>3 DEF OpenBuilder
  <2>. QED  BY <1>2, <2>1, <2>2, CallsSame
<1>4. CASE CancelBuilder
  <2>. DEFINE u == [ui EXCEPT !.building = FALSE, !.draft = EmptyDraft]
  <2>1. u \in Uis
    BY <1>1, EmptyDraftTyped DEF Uis, DraftTyped
  <2>2. Build(u)
    BY <1>4 DEF CancelBuilder
  <2>. HIDE DEF u
  <2>3. calls' = [c \in Lanes |-> calls'[c]]
    BY <1>4 DEF CancelBuilder
  <2>4. ASSUME NEW c \in Lanes
        PROVE  CallTyped(calls'[c]) /\ calls'[c].op = calls[c].op
               /\ calls'[c].token = calls[c].token /\ calls'[c].phase = calls[c].phase
    <3>. DEFINE b == calls[c].watched /\ calls[c].op # "create"
    <3>1. calls'[c] = [calls[c] EXCEPT !.watched = b] /\ CallTyped(calls[c])
      BY <1>4 DEF CancelBuilder, TypeInv, CallsTyped
    <3>2. b \in BOOLEAN /\ (b => calls[c].watched)
      OBVIOUS
    <3>. HIDE DEF b
    <3>. QED  BY <3>1, <3>2, CallUnwatched
  <2>5. CallsTyped' /\ SameOk
    BY <2>3, <2>4 DEF CallsTyped, SameOk
  <2>. QED  BY <1>2, <2>1, <2>2, <2>5
<1>5. ASSUME NEW g \in Garments, Pick(g)
      PROVE  Sound /\ Quietly
  <2>. DEFINE u == [ui EXCEPT !.draft = Tap(@, g)]
  <2>1. DraftTyped(Tap(ui.draft, g))
    BY <1>1, TapTyped
  <2>2. u \in Uis
    BY <1>1, <2>1 DEF Uis, DraftTyped
  <2>3. Build(u) /\ calls' = calls
    BY <1>5 DEF Pick
  <2>. HIDE DEF u
  <2>. QED  BY <1>2, <2>2, <2>3, CallsSame
<1>6. ASSUME NEW l \in Looks, SaveLook(l)
      PROVE  Sound /\ Quietly
  <2>. DEFINE request == [op |-> "create", id |-> l, items |-> Items(ui.draft), name |-> "untitled"]
  <2>1. Items(ui.draft) \subseteq Garments /\ Wearable(Items(ui.draft))
    BY <1>1, <1>6, DraftWearable DEF SaveLook, SaveOffered
  <2>2. request \in Requests("create") /\ "create" \in Hooks
    BY <2>1 DEF Requests, Hooks, Names
  <2>3. Send("create", <<request>>)
    BY <1>6 DEF SaveLook
  <2>. HIDE DEF request
  <2>4. <<request>> \in Seq(Requests("create"))
    BY <2>2
  <2>. QED  BY <2>2, <2>3, <2>4, SendKeeps
<1>7. ASSUME NEW l \in Looks, DeleteLook(l)
      PROVE  Sound /\ Quietly
  <2>. DEFINE request == [op |-> "drop", id |-> l]
  <2>1. <<request>> \in Seq(Requests("drop")) /\ "drop" \in Hooks
    BY DEF Requests, Hooks
  <2>2. Send("drop", <<request>>)
    BY <1>7 DEF DeleteLook
  <2>. HIDE DEF request
  <2>. QED  BY <2>1, <2>2, SendKeeps
<1>8. ASSUME NEW l \in Looks, NEW n \in Names, RenameLook(l, n)
      PROVE  Sound /\ Quietly
  <2>. DEFINE request == [op |-> "name", id |-> l, name |-> n]
  <2>1. <<request>> \in Seq(Requests("name")) /\ "name" \in Hooks
    BY DEF Requests, Hooks
  <2>2. Send("name", <<request>>)
    BY <1>8 DEF RenameLook
  <2>. HIDE DEF request
  <2>. QED  BY <2>1, <2>2, SendKeeps
<1>. QED  BY <1>3, <1>4, <1>5, <1>6, <1>7, <1>8 DEF Outfits

LEMMA AccountKeeps == TypeInv /\ Account => Sound /\ Quietly
<1>. SUFFICES ASSUME TypeInv, Account PROVE Sound /\ Quietly
  OBVIOUS
<1>1. CASE SaveQuiz
  <2>1. <<[op |-> "quiz"]>> \in Seq(Requests("quiz")) /\ "quiz" \in Hooks
    BY DEF Requests, Hooks
  <2>2. Send("quiz", <<[op |-> "quiz"]>>)
    BY <1>1 DEF SaveQuiz
  <2>. QED  BY <2>1, <2>2, SendKeeps
<1>2. CASE Erase
  <2>1. <<[op |-> "erase"]>> \in Seq(Requests("erase")) /\ "erase" \in Hooks
    BY DEF Requests, Hooks
  <2>2. Send("erase", <<[op |-> "erase"]>>)
    BY <1>2 DEF Erase
  <2>. QED  BY <2>1, <2>2, SendKeeps
<1>3. CASE SignOut
  <2>. DEFINE g == [gate EXCEPT !.session = None]
  <2>1. g \in Gates /\ "wardrobe" \in Tabs
    BY DEF Gates, TypeInv, ScreenTyped, Tabs
  <2>2. Comes(g, "wardrobe") /\ auth' \in Users \cup {None} /\ Idle
    BY <1>3 DEF SignOut, Leave, Reports
  <2>. HIDE DEF g
  <2>. QED  BY <2>1, <2>2, ComesKeeps
<1>. QED  BY <1>1, <1>2, <1>3 DEF Account

-----------------------------------------------------------------------------
(* The fetches.                                                             *)

\* The rows of one entry change; a laundry screen prunes its basket.
LEMMA BecomesKeeps ==
  ASSUME TypeInv, NEW k \in Keys, NEW e, EntryTyped(k, e), Becomes(k, e)
  PROVE  /\ owed' \subseteq Keys => Sound
         /\ owed' = owed /\ Kept(cache[k], e) => Quietly
         /\ cache' = [cache EXCEPT ![k] = e] /\ SameOk /\ UNCHANGED <<store, purged, calls>>
<1>1. /\ cache' = [cache EXCEPT ![k] = e] /\ ui' = Pruned(cache')
      /\ UNCHANGED <<store, auth, gate, tab, calls, purged, plan>>
  BY DEF Becomes
<1>2. \A j \in Keys : cache'[j] = IF j = k THEN e ELSE cache[j]
  BY <1>1 DEF TypeInv, CacheTyped
<1>3. CacheTyped'
  BY <1>1, <1>2 DEF TypeInv, CacheTyped
<1>4. CallsTyped' /\ SameOk
  BY <1>1, CallsSame
<1>5. ui' \in Uis
  <2>. DEFINE b == Prune(ui.basket, IF cache'["hamper"].has
                                    THEN {row[1] : row \in cache'["hamper"].rows} ELSE {})
  <2>1. ui' = ui \/ ui' = [ui EXCEPT !.basket = b]
    BY <1>1 DEF Pruned
  <2>2. b \subseteq ui.basket
    BY DEF Prune
  <2>. HIDE DEF b
  <2>. QED  BY <2>1, <2>2 DEF TypeInv, ScreenTyped, Uis
<1>6. owed' \subseteq Keys => TypeInv'
  BY <1>1, <1>3, <1>4, <1>5 DEF TypeInv, ScreenTyped
<1>7. BasketInv'
  <2>. SUFFICES ASSUME Shown' = "laundry", cache'["hamper"].has
       PROVE  ui'.basket \subseteq RowsOf("hamper")'
    BY DEF BasketInv
  <2>1. Shown = "laundry"
    BY <1>1 DEF Shown
  <2>2. ui' = [ui EXCEPT !.basket = Prune(@, {row[1] : row \in cache'["hamper"].rows})]
    BY <1>1, <2>1 DEF Pruned
  <2>. QED  BY <2>2 DEF RowsOf, Prune, TypeInv, ScreenTyped, Uis
<1>8. owed' = owed /\ Kept(cache[k], e) => Quietly
  BY <1>1, <1>2, <1>4, KeptSame DEF Quietly
<1>. QED  BY <1>1, <1>4, <1>6, <1>7, <1>8 DEF Sound

\* The server reads for a caller.
LEMMA FetchReadsKeeps ==
  ASSUME TypeInv, NEW k \in Keys, FetchReads(k)
  PROVE  /\ Sound /\ SameOk
         /\ cache'[k].fetch = "read" /\ cache'[k].token \in Users
         /\ cache'[k].got = View(store, k, cache'[k].token)
         /\ cache'[k].rows = cache[k].rows /\ cache'[k].of = cache[k].of
         /\ \A j \in Keys \ {k} : cache'[j] = cache[j]
         /\ owed' = owed \ {k} /\ UNCHANGED <<store, purged, calls>>
<1>. DEFINE got == View(store, k, cache[k].token)
            e == [cache[k] EXCEPT !.fetch = "read", !.got = got]
<1>1. cache[k].fetch = "sent" /\ cache[k].token # None /\ cache' = [cache EXCEPT ![k] = e]
      /\ owed' = owed \ {k} /\ UNCHANGED <<store, phone, calls, purged, left, plan>>
  BY DEF FetchReads, TypeInv, CacheTyped
<1>2. EntryTyped(k, cache[k]) /\ store \in Stores /\ owed \subseteq Keys
  BY DEF TypeInv, CacheTyped
<1>3. cache[k].token \in Users
  BY <1>1, <1>2 DEF EntryTyped, Entries
<1>4. got \in SUBSET RowsFor(k) /\ got = View(store, k, cache[k].token)
  BY <1>2, <1>3, ViewTyped
<1>. HIDE DEF got
<1>5. /\ e \in Entries(k) /\ e.fetch = "read" /\ e.got = got /\ e.token = cache[k].token
      /\ e.has = cache[k].has /\ e.rows = cache[k].rows /\ e.of = cache[k].of
  BY <1>2, <1>4 DEF EntryTyped, Entries
<1>. HIDE DEF e
<1>6. EntryTyped(k, e)
  BY <1>2, <1>3, <1>5 DEF EntryTyped
<1>7. \A j \in Keys : cache'[j] = IF j = k THEN e ELSE cache[j]
  BY <1>1 DEF TypeInv, CacheTyped
<1>8. CacheTyped'
  BY <1>1, <1>6, <1>7 DEF TypeInv, CacheTyped
<1>9. CallsTyped' /\ SameOk
  BY <1>1, CallsSame
<1>10. TypeInv'
  BY <1>1, <1>2, <1>8, <1>9 DEF TypeInv, ScreenTyped, phone
<1>11. BasketInv => BasketInv'
  BY <1>1, <1>5, <1>7 DEF BasketInv, RowsOf, Shown, phone, Keys
<1>. QED  BY <1>1, <1>3, <1>4, <1>5, <1>7, <1>9, <1>10, <1>11 DEF Sound

LEMMA FetchesKeep ==
  ASSUME TypeInv, NEW k \in Keys
  PROVE  /\ FetchReads(k) \/ FetchLands(k) => Sound /\ SameOk
         /\ FetchFails(k) \/ Refetch(k) \/ Ages(k) => Sound /\ Quietly
<1>1. EntryTyped(k, cache[k]) /\ auth \in Users \cup {None} /\ owed \subseteq Keys /\ store \in Stores
  BY DEF TypeInv, CacheTyped, ScreenTyped
<1>2. ASSUME FetchReads(k)
      PROVE  Sound /\ SameOk
  BY <1>2, FetchReadsKeeps
<1>3. ASSUME FetchLands(k)
      PROVE  Sound /\ SameOk
  BY <1>1, <1>3, RowsTyped, BecomesKeeps DEF FetchLands
<1>4. ASSUME FetchFails(k)
      PROVE  Sound /\ Quietly
  BY <1>1, <1>4, ErrorKeeps, BecomesKeeps DEF FetchFails
<1>5. ASSUME Refetch(k)
      PROVE  Sound /\ Quietly
  BY <1>1, <1>5, FetchKeeps, BecomesKeeps DEF Refetch
<1>6. ASSUME Ages(k)
      PROVE  Sound /\ Quietly
  <2>1. cache[k] # Empty
    BY <1>6 DEF Ages, Empty
  <2>. QED  BY <1>1, <1>6, <2>1, StaleKeeps, BecomesKeeps DEF Ages
<1>. QED  BY <1>2, <1>3, <1>4, <1>5, <1>6

-----------------------------------------------------------------------------
(* The writes on their way.                                                 *)

\* One lane changes.
LEMMA LaneTyped ==
  ASSUME TypeInv, NEW c \in Lanes, NEW y, CallTyped(y), calls' = [calls EXCEPT ![c] = y]
  PROVE  /\ CallsTyped'
         /\ calls'[c] = y /\ \A d \in Lanes \ {c} : calls'[d] = calls[d]
         /\ calls[c].phase # "ok" /\ y.phase # "ok" => SameOk
<1>1. \A d \in Lanes : calls'[d] = IF d = c THEN y ELSE calls[d]
  BY DEF TypeInv, CallsTyped
<1>2. CallsTyped'
  BY <1>1 DEF TypeInv, CallsTyped
<1>3. calls[c].phase # "ok" /\ y.phase # "ok" => SameOk
  BY <1>1 DEF SameOk
<1>. QED  BY <1>1, <1>2, <1>3

LEMMA ServeCallKeeps ==
  ASSUME TypeInv, NEW c \in Lanes, ServeCall(c)
  PROVE  /\ Sound
         /\ LET r == Head(calls[c].todo)
                answer == Serve(store, r, calls[c].token)
            IN  /\ calls[c].op \in Hooks /\ r \in Requests(calls[c].op)
                /\ store' \in Stores /\ store \in Stores /\ Consistent(store)
                /\ calls[c].phase = "sent" /\ calls'[c].op = calls[c].op
                /\ calls'[c].token = calls[c].token
                /\ calls'[c].phase = "ok" => /\ calls[c].token \in Users
                                             /\ Effect(calls[c].op, r, calls[c].token, store, store')
                /\ calls'[c].phase # "ok" => store' = store
         /\ \A d \in Lanes \ {c} : calls'[d] = calls[d]
         /\ UNCHANGED <<phone, cache, owed, purged>>
<1>. DEFINE r == Head(calls[c].todo)
            answer == Serve(store, r, calls[c].token)
            p == IF answer.ok THEN "ok" ELSE "refused"
            y == [calls[c] EXCEPT !.phase = p]
<1>1. /\ calls[c] # NoCall /\ calls[c].phase = "sent" /\ store' = answer.store
      /\ calls' = [calls EXCEPT ![c].phase = p]
      /\ UNCHANGED <<phone, cache, owed, purged, left, plan>>
  BY DEF ServeCall
<1>2. CallTyped(calls[c]) /\ store \in Stores /\ Consistent(store) /\ calls[c].token \in Users \cup {None}
  BY DEF TypeInv, CallsTyped, CallTyped, Calls
<1>3. calls[c].op \in Hooks /\ r \in Requests(calls[c].op)
  BY <1>1, <1>2, CallAsks
<1>4. calls' = [calls EXCEPT ![c] = y]
  BY <1>1 DEF TypeInv, CallsTyped
<1>. HIDE DEF r
<1>5. /\ answer.store \in Stores /\ answer.ok \in BOOLEAN
      /\ answer.ok => calls[c].token \in Users /\ Effect(calls[c].op, r, calls[c].token, store, answer.store)
      /\ ~answer.ok => answer.store = store
      /\ Consistent(answer.store)
  BY <1>2, <1>3, ServeTyped DEF Effect
<1>. HIDE DEF answer
<1>6. /\ p \in {"sent", "ok", "refused"} /\ (p = "ok" => answer.ok) /\ (p # "ok" => ~answer.ok)
  BY <1>5
<1>. HIDE DEF p
<1>7. CallTyped(y) /\ y.op = calls[c].op /\ y.token = calls[c].token /\ y.phase = p
  BY <1>1, <1>2, <1>5, <1>6, CallAnswered
<1>. HIDE DEF y
<1>8. CallsTyped' /\ calls'[c] = y /\ \A d \in Lanes \ {c} : calls'[d] = calls[d]
  BY <1>4, <1>7, LaneTyped
<1>9. TypeInv'
  BY <1>1, <1>5, <1>8 DEF TypeInv, ScreenTyped, CacheTyped, phone
<1>10. BasketInv => BasketInv'
  BY <1>1 DEF BasketInv, RowsOf, Shown, phone
<1>. QED  BY <1>1, <1>2, <1>3, <1>5, <1>6, <1>7, <1>8, <1>9, <1>10 DEF Sound, r

LEMMA LoseRequestKeeps ==
  ASSUME TypeInv, NEW c \in Lanes, LoseRequest(c)
  PROVE  Sound /\ Quietly
<1>. DEFINE p == "refused"
            y == [calls[c] EXCEPT !.phase = p]
<1>1. /\ calls[c] # NoCall /\ calls[c].phase = "sent" /\ CallTyped(calls[c])
      /\ calls' = [calls EXCEPT ![c] = y] /\ p \in {"sent", "ok", "refused"} /\ p # "ok"
      /\ UNCHANGED <<store, phone, cache, owed, purged, plan>>
  BY DEF LoseRequest, TypeInv, CallsTyped
<1>. HIDE DEF p
<1>2. CallTyped(y) /\ y.phase = p
  BY <1>1, CallAnswered
<1>. HIDE DEF y
<1>3. CallsTyped' /\ SameOk
  BY <1>1, <1>2, LaneTyped
<1>4. TypeInv' /\ Quietly
  BY <1>1, <1>3, KeptSame DEF TypeInv, ScreenTyped, CacheTyped, phone, Quietly
<1>5. BasketInv => BasketInv'
  BY <1>1 DEF BasketInv, RowsOf, Shown, phone
<1>. QED  BY <1>4, <1>5 DEF Sound

LEMMA LoseAnswerKeeps ==
  ASSUME TypeInv, NEW c \in Lanes, LoseAnswer(c)
  PROVE  /\ Sound
         /\ calls[c].phase = "ok" /\ calls'[c].phase # "ok" /\ \A d \in Lanes \ {c} : calls'[d] = calls[d]
         /\ owed' = owed \cup Affected(calls[c].op) /\ UNCHANGED <<store, cache, purged>>
<1>. DEFINE p == "refused"
            y == [calls[c] EXCEPT !.phase = p]
<1>1. /\ calls[c] # NoCall /\ calls[c].phase = "ok" /\ CallTyped(calls[c])
      /\ calls' = [calls EXCEPT ![c] = y] /\ p \in {"sent", "ok", "refused"} /\ p # "ok"
      /\ owed' = owed \cup Affected(calls[c].op)
      /\ UNCHANGED <<store, phone, cache, purged, plan>>
  BY DEF LoseAnswer, TypeInv, CallsTyped, NoCall
<1>. HIDE DEF p
<1>2. CallTyped(y) /\ y.phase = p
  BY <1>1, CallAnswered
<1>. HIDE DEF y
<1>3. CallsTyped' /\ calls'[c] = y /\ \A d \in Lanes \ {c} : calls'[d] = calls[d]
  BY <1>1, <1>2, LaneTyped
<1>4. Affected(calls[c].op) \subseteq Keys
  BY DEF Affected, Keys, Wardrobe
<1>5. TypeInv'
  BY <1>1, <1>3, <1>4 DEF TypeInv, ScreenTyped, CacheTyped, phone
<1>6. BasketInv => BasketInv'
  BY <1>1 DEF BasketInv, RowsOf, Shown, phone
<1>. QED  BY <1>1, <1>2, <1>3, <1>5, <1>6 DEF Sound

\* A lane that goes on or is free again.
LEMMA LaneGoesOn ==
  ASSUME TypeInv, NEW c \in Lanes, auth' = auth, calls[c].phase # "sent",
         calls' = Over(c) \/ (More(c) /\ calls' = Next1(c))
  PROVE  /\ CallsTyped' /\ calls'[c].phase # "ok" /\ \A d \in Lanes \ {c} : calls'[d] = calls[d]
         /\ calls[c].phase # "ok" => SameOk
<1>1. CASE calls' = Over(c)
  <2>. DEFINE y == NoCall
  <2>1. CallTyped(y) /\ y.phase = "sent" /\ calls' = [calls EXCEPT ![c] = y]
    BY <1>1, NoCallTyped DEF Over, NoCall
  <2>. HIDE DEF y
  <2>. QED  BY <2>1, LaneTyped
<1>2. CASE More(c) /\ calls' = Next1(c)
  <2>. DEFINE y == [calls[c] EXCEPT !.todo = Tail(@), !.phase = "sent", !.token = auth]
  <2>1. calls' = [calls EXCEPT ![c] = y] /\ CallTyped(calls[c]) /\ Len(calls[c].todo) > 1
        /\ auth \in Users \cup {None}
    BY <1>2 DEF Next1, More, TypeInv, CallsTyped, ScreenTyped
  <2>2. CallTyped(y) /\ y.phase = "sent"
    BY <2>1, CallNext
  <2>. HIDE DEF y
  <2>. QED  BY <2>1, <2>2, LaneTyped
<1>. QED  BY <1>1, <1>2

LEMMA LandErrorKeeps ==
  ASSUME TypeInv, NEW c \in Lanes, LandError(c)
  PROVE  Sound /\ Quietly
<1>1. /\ calls[c].phase = "refused" /\ auth' = auth
      /\ calls' = Over(c) \/ (More(c) /\ calls' = Next1(c))
      /\ ui' = ui \/ ui' = [ui EXCEPT !.basket = {}]
      /\ UNCHANGED <<store, gate, tab, cache, owed, purged, left, plan>>
  BY DEF LandError
<1>2. CallsTyped' /\ SameOk
  BY <1>1, LaneGoesOn
<1>3. ui' \in Uis /\ ui'.basket \subseteq ui.basket
  BY <1>1 DEF TypeInv, ScreenTyped, Uis
<1>4. TypeInv' /\ Quietly
  BY <1>1, <1>2, <1>3, KeptSame DEF TypeInv, ScreenTyped, CacheTyped, Quietly
<1>5. BasketInv => BasketInv'
  BY <1>1, <1>3 DEF BasketInv, RowsOf, Shown
<1>. QED  BY <1>4, <1>5 DEF Sound

\* What useMutation's invalidations leave of the cache.
LEMMA LandOkKeeps ==
  ASSUME TypeInv, NEW c \in Lanes, LandOk(c)
  PROVE  /\ Sound
         /\ calls[c].phase = "ok" /\ calls[c].op # "erase" /\ calls[c].op \in Hooks
         /\ calls'[c].phase # "ok" /\ \A d \in Lanes \ {c} : calls'[d] = calls[d]
         /\ UNCHANGED <<store, purged>>
         /\ owed \subseteq owed' /\ Unrefreshed(calls[c].op) \subseteq owed'
         /\ \A k \in Keys : Kept(cache[k], cache'[k])
         /\ \A k \in Invalidated(calls[c].op) :
              /\ cache'[k].has => cache'[k].stale
              /\ cache'[k].fetch = "read" /\ k \notin owed'
                 => cache'[k].got = View(store, k, cache'[k].token)
<1>1. /\ calls[c].phase = "ok" /\ calls[c].op # "erase" /\ auth' = auth /\ Refresh(calls[c].op)
      /\ calls' = Over(c) \/ (More(c) /\ calls' = Next1(c))
      /\ ui' = ui \/ ui' = Finish(c)
      /\ UNCHANGED <<store, gate, tab, purged, left, plan>>
  BY DEF LandOk
<1>2. CallsTyped' /\ calls'[c].phase # "ok" /\ \A d \in Lanes \ {c} : calls'[d] = calls[d]
  BY <1>1, LaneGoesOn
<1>3. Invalidated(calls[c].op) \subseteq Keys /\ Unrefreshed(calls[c].op) \subseteq Keys
      /\ auth \in Users \cup {None} /\ owed \subseteq Keys
  BY DEF Invalidated, Unrefreshed, Keys, Wardrobe, TypeInv, ScreenTyped
<1>4. calls[c].op \in Hooks
  BY <1>1, CallAsks DEF TypeInv, CallsTyped, NoCall
<1>. DEFINE op == calls[c].op
<1>. HIDE DEF op
<1>5. ASSUME NEW k \in Keys
      PROVE  /\ EntryTyped(k, cache'[k]) /\ Kept(cache[k], cache'[k])
             /\ k \in Invalidated(op) => /\ cache'[k].has => cache'[k].stale
                                         /\ cache'[k].fetch = "read" => ~Replaceable(cache[k], k \in Observed)
  <2>. DEFINE seen == k \in Observed
  <2>1. EntryTyped(k, cache[k])
    BY DEF TypeInv, CacheTyped
  <2>2. cache'[k] = IF k \in Invalidated(op) THEN OnInvalidate(cache[k], seen, auth) ELSE cache[k]
    BY <1>1 DEF Refresh, op
  <2>3. seen \in BOOLEAN
    OBVIOUS
  <2>. HIDE DEF seen
  <2>4. /\ EntryTyped(k, OnInvalidate(cache[k], seen, auth))
        /\ Kept(cache[k], OnInvalidate(cache[k], seen, auth))
        /\ OnInvalidate(cache[k], seen, auth).has => OnInvalidate(cache[k], seen, auth).stale
        /\ OnInvalidate(cache[k], seen, auth).fetch = "read" => ~Replaceable(cache[k], seen)
    BY <1>3, <2>1, <2>3, InvalidateKeeps
  <2>5. /\ EntryTyped(k, cache'[k]) /\ Kept(cache[k], cache'[k])
        /\ k \in Invalidated(op) => /\ cache'[k].has => cache'[k].stale
                                    /\ cache'[k].fetch = "read" => ~Replaceable(cache[k], seen)
    BY <2>1, <2>2, <2>4, KeptSame
  <2>. QED  BY <2>5 DEF seen
<1>6. owed' = owed \cup Unrefreshed(op) \cup {k \in Invalidated(op) : Overtaken(k)}
  BY <1>1 DEF Refresh, op
<1>7. ASSUME NEW k \in Invalidated(op), cache'[k].fetch = "read", k \notin owed'
      PROVE  cache'[k].got = View(store, k, cache'[k].token)
  <2>1. k \in Keys /\ ~Overtaken(k)
    BY <1>3, <1>6, <1>7 DEF op
  <2>2. /\ cache[k].fetch = "read" /\ cache'[k].got = cache[k].got /\ cache'[k].token = cache[k].token
        /\ ~Replaceable(cache[k], k \in Observed)
    BY <1>5, <1>7, <2>1 DEF Kept
  <2>. QED  BY <2>1, <2>2 DEF Overtaken
<1>8. CacheTyped'
  <2>1. cache' = [k \in Keys |-> cache'[k]]
    BY <1>1 DEF Refresh
  <2>. QED  BY <1>5, <2>1 DEF CacheTyped
<1>9. ui' \in Uis /\ ui'.basket \subseteq ui.basket
  <2>1. \/ ui' = ui \/ ui' = [ui EXCEPT !.basket = {}]
        \/ ui' = [ui EXCEPT !.building = FALSE, !.draft = EmptyDraft]
    BY <1>1 DEF Finish
  <2>2. ui \in Uis
    BY DEF TypeInv, ScreenTyped
  <2>3. [ui EXCEPT !.basket = {}] \in Uis /\ [ui EXCEPT !.basket = {}].basket = {}
    BY <2>2 DEF Uis
  <2>4. [ui EXCEPT !.building = FALSE, !.draft = EmptyDraft] \in Uis
        /\ [ui EXCEPT !.building = FALSE, !.draft = EmptyDraft].basket = ui.basket
    BY <2>2, EmptyDraftTyped DEF Uis, DraftTyped
  <2>. QED  BY <2>1, <2>2, <2>3, <2>4
<1>10. TypeInv'
  BY <1>1, <1>2, <1>3, <1>6, <1>8, <1>9 DEF TypeInv, ScreenTyped, op
<1>11. BasketInv => BasketInv'
  BY <1>1, <1>5, <1>9, BasketKept DEF Shown, Keys
<1>12. \A k \in Keys : Kept(cache[k], cache'[k])
  BY <1>5
<1>13. \A k \in Invalidated(op) : cache'[k].has => cache'[k].stale
  BY <1>3, <1>5 DEF op
<1>14. owed \subseteq owed' /\ Unrefreshed(op) \subseteq owed'
  BY <1>6
<1>. QED  BY <1>1, <1>2, <1>4, <1>7, <1>10, <1>11, <1>12, <1>13, <1>14 DEF Sound, op

LEMMA LandEraseKeeps ==
  ASSUME TypeInv, NEW c \in Lanes, LandErase(c)
  PROVE  /\ Sound
         /\ calls[c].phase = "ok" /\ calls[c].op = "erase"
         /\ \A d \in Lanes : calls'[d].phase = "ok" => /\ calls[d].phase = "ok" /\ calls'[d].op = calls[d].op
                                                       /\ calls'[d].token = calls[d].token
         /\ cache' = Clear /\ store' = store
         /\ purged' = purged \cup {g \in Garments : Owner[g] = calls[c].token /\ store.status[g] = "gone"}
<1>1. /\ calls[c].phase = "ok" /\ calls[c].op = "erase" /\ cache' = Clear /\ owed' = {}
      /\ purged' = purged \cup {g \in Garments : Owner[g] = calls[c].token /\ store.status[g] = "gone"}
      /\ UNCHANGED <<store, left, plan>>
      /\ calls' = Over(c) \/ calls' = Unwatched(Over(c))
      /\ \/ UNCHANGED phone
         \/ /\ auth' = None /\ gate' = [gate EXCEPT !.session = None]
            /\ tab' = "wardrobe" /\ ui' = FreshUi
  BY DEF LandErase
<1>2. \A d \in Lanes : calls'[d] \in {NoCall, [NoCall EXCEPT !.watched = FALSE]}
                       \/ (d # c /\ calls'[d] \in {calls[d], [calls[d] EXCEPT !.watched = FALSE]})
  BY <1>1 DEF Over, Unwatched, TypeInv, CallsTyped
<1>3. ASSUME NEW d \in Lanes
      PROVE  /\ CallTyped(calls'[d])
             /\ calls'[d].phase = "ok" => /\ calls[d].phase = "ok" /\ calls'[d].op = calls[d].op
                                          /\ calls'[d].token = calls[d].token
  <2>. DEFINE b == FALSE
  <2>1. /\ b \in BOOLEAN /\ b = FALSE
        /\ \/ calls'[d] \in {NoCall, [NoCall EXCEPT !.watched = b]}
           \/ d # c /\ calls'[d] \in {calls[d], [calls[d] EXCEPT !.watched = b]}
        /\ CallTyped(calls[d]) /\ NoCall.phase = "sent"
    BY <1>2 DEF TypeInv, CallsTyped, NoCall
  <2>. HIDE DEF b
  <2>2. /\ CallTyped([calls[d] EXCEPT !.watched = b])
        /\ [calls[d] EXCEPT !.watched = b].phase = calls[d].phase
        /\ [calls[d] EXCEPT !.watched = b].op = calls[d].op
        /\ [calls[d] EXCEPT !.watched = b].token = calls[d].token
    BY <2>1, CallUnwatched
  <2>3. /\ CallTyped([NoCall EXCEPT !.watched = b])
        /\ [NoCall EXCEPT !.watched = b].phase = "sent"
    BY <2>1, NoCallTyped, CallUnwatched
  <2>. QED  BY <2>1, <2>2, <2>3, NoCallTyped
<1>4. CallsTyped'
  <2>1. calls' = [d \in Lanes |-> calls'[d]]
    BY <1>1 DEF Over, Unwatched, TypeInv, CallsTyped
  <2>. QED  BY <1>3, <2>1 DEF CallsTyped
<1>5. CacheTyped'
  BY <1>1, EmptyTyped DEF CacheTyped, Clear
<1>6. ScreenTyped'
  BY <1>1, FreshUiTyped DEF TypeInv, ScreenTyped, Gates, Tabs, phone
<1>8. TypeInv'
  BY <1>1, <1>4, <1>5, <1>6 DEF TypeInv
<1>9. BasketInv'
  BY <1>1 DEF BasketInv, Clear, Empty, Keys
<1>. QED  BY <1>1, <1>3, <1>8, <1>9 DEF Sound

-----------------------------------------------------------------------------
(* Every step.                                                              *)

LEMMA StutterKeeps == TypeInv /\ UNCHANGED vars => Sound /\ Quietly
BY KeptSame, CallsSame
   DEF TypeInv, ScreenTyped, CacheTyped, Sound, Quietly, BasketInv, RowsOf, Shown, vars, phone

\* A step is quiet, or it is one of these: a fetch reads or lands, a write
\* takes effect, its answer is lost, or it lands.
LEMMA StepKinds ==
  ASSUME TypeInv, [Next]_vars
  PROVE  /\ Sound
         /\ \/ Quietly
            \/ \E k \in Keys : FetchReads(k) \/ FetchLands(k)
            \/ \E c \in Lanes : ServeCall(c) \/ LoseAnswer(c) \/ LandOk(c) \/ LandErase(c)
<1>1. CASE Fetches
  <2>1. PICK k \in Keys : FetchReads(k) \/ FetchLands(k) \/ FetchFails(k) \/ Refetch(k) \/ Ages(k)
    BY <1>1 DEF Fetches
  <2>. QED  BY <2>1, FetchesKeep
<1>2. CASE Network
  <2>1. PICK c \in Lanes : \/ ServeCall(c) \/ LoseRequest(c) \/ LoseAnswer(c)
                           \/ LandError(c) \/ LandOk(c) \/ LandErase(c)
    BY <1>2 DEF Network
  <2>2. CASE ServeCall(c)
    BY <2>2, ServeCallKeeps
  <2>3. CASE LoseRequest(c)
    BY <2>3, LoseRequestKeeps
  <2>4. CASE LoseAnswer(c)
    BY <2>4, LoseAnswerKeeps
  <2>5. CASE LandError(c)
    BY <2>5, LandErrorKeeps
  <2>6. CASE LandOk(c)
    BY <2>6, LandOkKeeps
  <2>7. CASE LandErase(c)
    BY <2>7, LandEraseKeeps
  <2>. QED  BY <2>1, <2>2, <2>3, <2>4, <2>5, <2>6, <2>7
<1>. QED  BY <1>1, <1>2, SessionKeeps, BrowseKeeps, ClosetKeeps, LaundryKeeps, WoreKeeps, ConfirmKeeps,
             OutfitsKeep, AccountKeeps, StutterKeeps DEF Next

LEMMA InitTyped == Init => TypeInv /\ BasketInv
<1>. SUFFICES ASSUME Init PROVE TypeInv /\ BasketInv
  OBVIOUS
<1>1. /\ plan \in Plans /\ store = plan.store /\ auth \in plan.users /\ tab = "wardrobe" /\ ui = FreshUi
      /\ gate = IF plan.booted THEN [session |-> auth, loading |-> FALSE, first |-> "done"]
                ELSE [session |-> None, loading |-> TRUE, first |-> "unread"]
      /\ cache = [k \in Keys |-> IF k \in Observed THEN Fetch(Empty, auth) ELSE Empty]
      /\ calls = [c \in Lanes |-> NoCall] /\ owed = {} /\ purged = {}
  BY DEF Init
<1>2. store \in Stores /\ Consistent(store) /\ auth \in Users
  BY <1>1, PlansAreScenes
<1>3. ScreenTyped
  BY <1>1, <1>2, FreshUiTyped DEF ScreenTyped, Gates, Tabs
<1>4. CacheTyped
  <2>1. \A k \in Keys : EntryTyped(k, Fetch(Empty, auth)) /\ EntryTyped(k, Empty)
    BY <1>2, EmptyTyped, FetchKeeps
  <2>. QED  BY <1>1, <2>1 DEF CacheTyped
<1>5. CallsTyped
  BY <1>1, NoCallTyped DEF CallsTyped
<1>6. BasketInv
  BY <1>1 DEF BasketInv, FreshUi
<1>. QED  BY <1>1, <1>2, <1>3, <1>4, <1>5, <1>6 DEF TypeInv

\* The exact types are kept by every gesture, fetch and write of the app.
THEOREM Typed == Spec => []TypeInv
<1>1. Init => TypeInv
  BY InitTyped
<1>2. TypeInv /\ [Next]_vars => TypeInv'
  BY StepKinds DEF Sound
<1>. QED  BY <1>1, <1>2, PTL DEF Spec

\* Everything keeps its shape, for any number of garments, looks and writes in
\* flight (TypeOK).
THEOREM TypeTheorem == Spec => []TypeOK
<1>1. TypeInv => TypeOK
  <2>. SUFFICES ASSUME TypeInv PROVE TypeOK
    OBVIOUS
  <2>1. /\ store \in Stores /\ auth \in Users \cup {None} /\ tab \in Tabs
        /\ gate.session \in Users \cup {None} /\ gate.loading \in BOOLEAN
        /\ gate.first \in Users \cup {None, "unread", "done"}
        /\ ui.basket \subseteq Garments /\ ui.draft \in Drafts
        /\ \A pair \in ui.apart : \E i \in DOMAIN Alike : Alike[i] = pair
        /\ owed \subseteq Keys /\ purged \subseteq Garments
    BY DEF TypeInv, ScreenTyped, Gates, Uis
  <2>2. \A k \in Keys : /\ cache[k].fetch \in {"idle", "sent", "read"}
                        /\ cache[k].has => cache[k].of \in Users
                        /\ cache[k].stale => cache[k].has \/ cache[k].fetch # "idle" \/ cache[k].error
    BY DEF TypeInv, CacheTyped, EntryTyped, Entries
  <2>3. ASSUME NEW c \in Lanes
        PROVE  calls[c].op \in Hooks <=> calls[c].todo # <<>>
    <3>1. CallTyped(calls[c]) /\ calls[c].op \in Hooks \cup {"none"} /\ "none" \notin Hooks
      BY DEF TypeInv, CallsTyped, CallTyped, Calls, Hooks
    <3>2. calls[c].op = "none" => calls[c].todo = <<>>
      BY <3>1 DEF CallTyped, NoCall
    <3>. QED  BY <3>1, <3>2 DEF CallTyped
  <2>. QED  BY <2>1, <2>2, <2>3 DEF TypeOK
<1>. QED  BY <1>1, Typed, PTL

\* While the laundry is shown, its selection counts no garment that is not on
\* the list (BasketIsInTheHamper): the prune of features/laundry/basket.ts runs
\* whenever the list changes, and a screen that comes up starts empty.
THEOREM BasketTheorem == Spec => []BasketIsInTheHamper
<1>1. Init => BasketInv
  BY InitTyped
<1>2. TypeInv /\ BasketInv /\ [Next]_vars => BasketInv'
  BY StepKinds DEF Sound
<1>3. BasketInv => BasketIsInTheHamper
  BY DEF BasketInv, BasketIsInTheHamper, InLaundry, Ready, Visible
<1>. QED  BY <1>1, <1>2, <1>3, Typed, PTL DEF Spec

\* Every look that comes to be saved is one that can be worn
\* (SavedLooksAreWearable): only a create of the builder adds one, and what it
\* carries was complete when it was sent, whatever was tapped since.
THEOREM LooksTheorem == Spec => SavedLooksAreWearable
<1>. DEFINE A == \A l \in Looks : store.looks[l] = NoLook /\ store'.looks[l] # NoLook
                                  => Wearable(store'.looks[l].items)
<1>1. TypeInv /\ [Next]_vars => [A]_vars
  <2>. SUFFICES ASSUME TypeInv, [Next]_vars PROVE A
    OBVIOUS
  <2>1. CASE store' = store
    BY <2>1
  <2>2. ASSUME NEW c \in Lanes, ServeCall(c)
        PROVE  A
    <3>. DEFINE r == Head(calls[c].todo)
    <3>1. /\ calls[c].op \in Hooks /\ r \in Requests(calls[c].op)
          /\ calls'[c].phase = "ok" => Effect(calls[c].op, r, calls[c].token, store, store')
          /\ calls'[c].phase # "ok" => store' = store
      BY <2>2, ServeCallKeeps
    <3>. HIDE DEF r
    <3>2. r \in Requests("create") => Wearable(r.items)
      BY DEF Requests
    <3>. QED  BY <3>1, <3>2 DEF Effect
  <2>3. store' = store \/ \E c \in Lanes : ServeCall(c)
    BY StepKinds, FetchReadsKeeps, LoseAnswerKeeps, LandOkKeeps, LandEraseKeeps
       DEF Quietly, FetchLands, Becomes
  <2>. QED  BY <2>1, <2>2, <2>3
<1>. QED  BY <1>1, Typed, PTL DEF Spec, SavedLooksAreWearable

-----------------------------------------------------------------------------
(* What the phone calls fresh is what the server holds.                     *)

LEMMA KeptFaithful ==
  ASSUME NEW k, NEW e, NEW e2, Kept(e, e2), Faithful(k, e)
  PROVE  Faithful(k, e2)
BY DEF Kept, Faithful

\* Every key a write changes is invalidated, or left behind knowingly.
LEMMA AffectedIsRefreshed ==
  ASSUME NEW op \in Hooks \ {"erase"}
  PROVE  Affected(op) \subseteq Invalidated(op) \cup Unrefreshed(op)
BY DEF Affected, Invalidated, Unrefreshed, Hooks, Wardrobe

LEMMA QuietlyTrue ==
  ASSUME Truth, Quietly
  PROVE  Truth'
<1>. SUFFICES ASSUME NEW k \in Keys, Quiet(k)' PROVE Faithful(k, cache[k])'
  BY DEF Truth
<1>1. Quiet(k)
  BY DEF Quiet, Quietly, SameOk
<1>2. Faithful(k, cache'[k])
  BY <1>1, KeptFaithful DEF Truth, Quietly
<1>. QED  BY <1>2 DEF Faithful, Quietly

LEMMA FetchesTrue ==
  ASSUME TypeInv, Truth, NEW k \in Keys, FetchReads(k) \/ FetchLands(k)
  PROVE  Truth'
<1>. SUFFICES ASSUME NEW j \in Keys, Quiet(j)' PROVE Faithful(j, cache[j])'
  BY DEF Truth
<1>1. CASE FetchReads(k)
  <2>1. /\ store' = store /\ calls' = calls /\ owed' = owed \ {k}
        /\ cache'[k].fetch = "read" /\ cache'[k].got = View(store, k, cache'[k].token)
        /\ j # k => cache'[j] = cache[j]
    BY <1>1, FetchReadsKeeps
  <2>2. CASE j = k
    BY <2>1, <2>2 DEF Faithful
  <2>3. CASE j # k
    <3>1. Quiet(j)
      BY <2>1, <2>3 DEF Quiet
    <3>. QED  BY <2>1, <2>3, <3>1 DEF Truth, Faithful
  <2>. QED  BY <2>2, <2>3
<1>2. CASE FetchLands(k)
  <2>1. /\ cache[k].fetch = "read" /\ owed' = owed /\ cache' = [cache EXCEPT ![k] = OnRows(cache[k])]
        /\ store' = store /\ calls' = calls
    BY <1>2 DEF FetchLands, Becomes
  <2>2. cache'[j] = IF j = k THEN OnRows(cache[k]) ELSE cache[j]
    BY <2>1 DEF TypeInv, CacheTyped
  <2>3. Quiet(j) /\ Faithful(j, cache[j])
    BY <2>1 DEF Quiet, Truth
  <2>4. CASE j = k
    BY <2>1, <2>2, <2>3, <2>4 DEF Faithful, OnRows
  <2>5. CASE j # k
    BY <2>1, <2>2, <2>3, <2>5 DEF Faithful
  <2>. QED  BY <2>4, <2>5
<1>. QED  BY <1>1, <1>2

LEMMA ServeTrue ==
  ASSUME TypeInv, Truth, NEW c \in Lanes, ServeCall(c)
  PROVE  Truth'
<1>. SUFFICES ASSUME NEW k \in Keys, Quiet(k)' PROVE Faithful(k, cache[k])'
  BY DEF Truth
<1>. DEFINE op == calls[c].op
            r == Head(calls[c].todo)
<1>1. /\ op \in Hooks /\ store \in Stores /\ store' \in Stores /\ Consistent(store)
      /\ calls[c].phase = "sent"
      /\ calls'[c].op = op /\ cache' = cache /\ owed' = owed
      /\ calls'[c].phase = "ok" => Effect(op, r, calls[c].token, store, store')
      /\ calls'[c].phase # "ok" => store' = store
      /\ \A d \in Lanes \ {c} : calls'[d] = calls[d]
  BY ServeCallKeeps
<1>. HIDE DEF r, op
<1>2. Quiet(k)
  BY <1>1 DEF Quiet
<1>3. \A v : View(store', k, v) = View(store, k, v)
  <2>1. CASE calls'[c].phase = "ok"
    <3>1. k \in Keys \ Affected(op)
      BY <1>1, <2>1 DEF Quiet
    <3>. QED  BY <1>1, <2>1, <3>1, ServeFrame
  <2>2. CASE calls'[c].phase # "ok"
    BY <1>1, <2>2
  <2>. QED  BY <2>1, <2>2
<1>. QED  BY <1>1, <1>2, <1>3 DEF Truth, Faithful

LEMMA LostTrue ==
  ASSUME TypeInv, Truth, NEW c \in Lanes, LoseAnswer(c)
  PROVE  Truth'
<1>. SUFFICES ASSUME NEW k \in Keys, Quiet(k)' PROVE Faithful(k, cache[k])'
  BY DEF Truth
<1>1. /\ \A d \in Lanes \ {c} : calls'[d] = calls[d]
      /\ owed' = owed \cup Affected(calls[c].op) /\ store' = store /\ cache' = cache
  BY LoseAnswerKeeps
<1>2. Quiet(k)
  BY <1>1 DEF Quiet
<1>. QED  BY <1>1, <1>2 DEF Truth, Faithful

LEMMA LandTrue ==
  ASSUME TypeInv, Truth, NEW c \in Lanes, LandOk(c)
  PROVE  Truth'
<1>. SUFFICES ASSUME NEW k \in Keys, Quiet(k)' PROVE Faithful(k, cache[k])'
  BY DEF Truth
<1>. DEFINE op == calls[c].op
<1>1. /\ op \in Hooks \ {"erase"} /\ store' = store
      /\ \A d \in Lanes \ {c} : calls'[d] = calls[d]
      /\ owed \subseteq owed' /\ Unrefreshed(op) \subseteq owed'
      /\ Kept(cache[k], cache'[k])
      /\ k \in Invalidated(op) =>
           /\ cache'[k].has => cache'[k].stale
           /\ cache'[k].fetch = "read" /\ k \notin owed' => cache'[k].got = View(store, k, cache'[k].token)
  BY LandOkKeeps
<1>2. k \notin owed'
  BY DEF Quiet
<1>. HIDE DEF op
<1>3. CASE k \in Affected(op)
  <2>1. k \in Invalidated(op)
    BY <1>1, <1>2, <1>3, AffectedIsRefreshed
  <2>. QED  BY <1>1, <1>2, <2>1 DEF Faithful
<1>4. CASE k \notin Affected(op)
  <2>1. Quiet(k)
    BY <1>1, <1>4 DEF Quiet, op
  <2>2. Faithful(k, cache'[k])
    BY <1>1, <2>1, KeptFaithful DEF Truth
  <2>. QED  BY <1>1, <2>2 DEF Faithful
<1>. QED  BY <1>3, <1>4

\* Rows the phone calls fresh are what the server holds, once the writes that
\* change them have landed (SeenIsTrue), for any number of writes and fetches
\* in flight: a write changes no key but those its hook invalidates or is known
\* to leave behind, and no entry grows fresher but by rows that were read.
THEOREM SeenTheorem == Spec => []SeenIsTrue
<1>1. Init => Truth
  <2>. SUFFICES ASSUME Init, NEW k \in Keys PROVE Faithful(k, cache[k])
    BY DEF Truth
  <2>1. cache[k] \in {Empty, Fetch(Empty, auth)}
    BY DEF Init
  <2>2. Empty.has = FALSE /\ Empty.fetch = "idle"
    BY DEF Empty
  <2>3. Fetch(Empty, auth).has = FALSE /\ Fetch(Empty, auth).fetch = "sent"
    BY DEF Fetch, Empty
  <2>. QED  BY <2>1, <2>2, <2>3 DEF Faithful
<1>2. TypeInv /\ Truth /\ [Next]_vars => Truth'
  <2>. SUFFICES ASSUME TypeInv, Truth, [Next]_vars PROVE Truth'
    OBVIOUS
  <2>1. ASSUME NEW c \in Lanes, LandErase(c)
        PROVE  Truth'
    <3>1. \A k \in Keys : cache'[k].has = FALSE /\ cache'[k].fetch = "idle"
      BY <2>1, LandEraseKeeps DEF Clear, Empty
    <3>. QED  BY <3>1 DEF Truth, Faithful
  <2>. QED  BY <2>1, StepKinds, QuietlyTrue, FetchesTrue, ServeTrue, LostTrue, LandTrue
<1>3. Truth => SeenIsTrue
  BY DEF Truth, SeenIsTrue, Quiet, Faithful
<1>. QED  BY <1>1, <1>2, <1>3, Typed, PTL DEF Spec

-----------------------------------------------------------------------------
(* A deletion that was confirmed leaves nothing.                            *)

LEMMA KeptBare ==
  ASSUME NEW k, NEW e, NEW e2, Kept(e, e2), Bare(k, e)
  PROVE  Bare(k, e2)
BY DEF Kept, Bare

\* Nothing comes back.
LEMMA QuietTrace ==
  ASSUME NoTrace, store' = store, purged' = purged, \A k \in Keys : Kept(cache[k], cache'[k])
  PROVE  NoTrace'
<1>1. \A k \in Keys : Bare(k, cache'[k])
  BY KeptBare DEF NoTrace
<1>. QED  BY <1>1 DEF NoTrace, Bare

LEMMA FetchTrace ==
  ASSUME TypeInv, NoTrace, NEW k \in Keys, FetchReads(k) \/ FetchLands(k)
  PROVE  NoTrace'
<1>1. purged \subseteq Garments /\ store \in Stores /\ Consistent(store)
  BY DEF TypeInv
<1>2. CASE FetchReads(k)
  <2>1. /\ store' = store /\ purged' = purged
        /\ cache'[k].got = View(store, k, cache'[k].token) /\ cache'[k].token \in Users
        /\ cache'[k].rows = cache[k].rows
        /\ \A j \in Keys \ {k} : cache'[j] = cache[j]
    BY <1>2, FetchReadsKeeps
  <2>2. \A g \in purged : g \notin Named(k, View(store, k, cache'[k].token))
    BY <1>1, <2>1, GoneViews DEF NoTrace
  <2>3. ASSUME NEW j \in Keys
        PROVE  Bare(j, cache'[j])
    <3>1. Bare(j, cache[j])
      BY DEF NoTrace
    <3>2. CASE j = k
      BY <2>1, <2>2, <3>1, <3>2 DEF Bare
    <3>. QED  BY <2>1, <3>1, <3>2
  <2>. QED  BY <2>1, <2>3 DEF NoTrace, Bare
<1>3. CASE FetchLands(k)
  <2>1. /\ cache[k].fetch = "read" /\ cache' = [cache EXCEPT ![k] = OnRows(cache[k])]
        /\ store' = store /\ purged' = purged
    BY <1>3 DEF FetchLands, Becomes
  <2>2. ASSUME NEW j \in Keys
        PROVE  Bare(j, cache'[j])
    <3>1. Bare(j, cache[j])
      BY DEF NoTrace
    <3>2. cache'[j] = IF j = k THEN OnRows(cache[k]) ELSE cache[j]
      BY <2>1 DEF TypeInv, CacheTyped
    <3>. QED  BY <2>1, <3>1, <3>2 DEF Bare, OnRows
  <2>. QED  BY <2>1, <2>2 DEF NoTrace, Bare
<1>. QED  BY <1>2, <1>3

\* What is gone stays gone, whatever is asked.
LEMMA ServeTrace ==
  ASSUME TypeInv, NoTrace, NEW c \in Lanes, ServeCall(c)
  PROVE  NoTrace'
<1>1. /\ cache' = cache /\ purged' = purged
      /\ \A g \in Garments : store.status[g] = "gone" => store'.status[g] = "gone"
  BY ServeCallKeeps DEF Effect
<1>2. purged \subseteq Garments
  BY DEF TypeInv
<1>. QED  BY <1>1, <1>2 DEF NoTrace, Bare

\* Once a deletion was confirmed no list of the phone names a garment that went
\* with it (DeletedLeavesNoTrace): a fetch reads none of what is gone, a save
\* that names it is refused, and a parse after it makes a garment of its own.
THEOREM TraceTheorem == Spec => []DeletedLeavesNoTrace
<1>1. Init => NoTrace
  <2>. SUFFICES ASSUME Init, NEW k \in Keys PROVE Bare(k, cache[k])
    BY DEF Init, NoTrace
  <2>. QED  BY DEF Init, Bare
<1>2. TypeInv /\ NoTrace /\ [Next]_vars => NoTrace'
  <2>. SUFFICES ASSUME TypeInv, NoTrace, [Next]_vars PROVE NoTrace'
    OBVIOUS
  <2>1. CASE Quietly
    BY <2>1, QuietTrace DEF Quietly
  <2>2. ASSUME NEW c \in Lanes, LoseAnswer(c)
        PROVE  NoTrace'
    <3>1. \A k \in Keys : Kept(cache[k], cache'[k])
      BY <2>2, LoseAnswerKeeps, KeptSame
    <3>. QED  BY <2>2, <3>1, LoseAnswerKeeps, QuietTrace
  <2>3. ASSUME NEW c \in Lanes, LandOk(c)
        PROVE  NoTrace'
    BY <2>3, LandOkKeeps, QuietTrace
  <2>4. ASSUME NEW c \in Lanes, LandErase(c)
        PROVE  NoTrace'
    <3>1. /\ store' = store /\ cache' = Clear
          /\ purged' = purged \cup {g \in Garments : Owner[g] = calls[c].token /\ store.status[g] = "gone"}
      BY <2>4, LandEraseKeeps
    <3>2. \A g \in purged' : store'.status[g] = "gone"
      BY <3>1 DEF NoTrace
    <3>3. \A k \in Keys : Named(k, cache'[k].rows) = {} /\ cache'[k].fetch = "idle"
      BY <3>1 DEF Clear, Empty, Named
    <3>. QED  BY <3>2, <3>3 DEF NoTrace, Bare
  <2>. QED  BY <2>1, <2>2, <2>3, <2>4, StepKinds, FetchTrace, ServeTrace
<1>3. NoTrace => DeletedLeavesNoTrace
  BY DEF NoTrace, DeletedLeavesNoTrace, Bare
<1>. QED  BY <1>1, <1>2, <1>3, Typed, PTL DEF Spec
=============================================================================
