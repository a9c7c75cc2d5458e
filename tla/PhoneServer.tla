----------------------------- MODULE PhoneServer -----------------------------
(***************************************************************************)
(* What the edge functions do for the phone, one request at a time: the    *)
(* handlers of packages/functions over the repositories of packages/db,    *)
(* for a caller whose token withAuth has verified.  Races between requests *)
(* of one garment are the subject of WardrobeStore and AccountData; here a *)
(* request takes effect in one step.                                       *)
(*                                                                         *)
(* The store is a record: status of each garment ("unmade" before its row, *)
(* "gone" after it), how often each was worn, the saved looks and who has  *)
(* a palette.                                                              *)
(***************************************************************************)
EXTENDS Naturals, FiniteSets, Sequences

CONSTANTS Users, Garments, Looks, None,
          Owner     \* [Garments -> Users]: user_id of the row

ASSUME Owners ==
  Owner \in [Garments -> Users] /\ None \notin Users /\ IsFiniteSet(Garments)

Availability == {"clean", "dirty", "unavailable"}
NoLook == [of |-> None, items |-> {}, name |-> "none"]
Names == {"untitled", "named"}

Stores ==
  [status : [Garments -> Availability \cup {"gone", "unmade"}],
   worn : [Garments -> Nat],
   looks : [Looks -> {NoLook} \cup [of : Users, items : SUBSET Garments, name : Names]],
   palette : SUBSET Users]

Mine(store, u) == {g \in Garments : Owner[g] = u /\ store.status[g] \in Availability}

\* Foreign keys: the wears and the members of a look are of garments that are
\* there, the members of the owner of the look.
Consistent(store) ==
  /\ \A g \in Garments : store.worn[g] > 0 => store.status[g] \in Availability
  /\ \A l \in Looks : store.looks[l].items \subseteq Mine(store, store.looks[l].of)

\* The reads the phone caches, by query key.
Keys == {"closet", "hamper", "looks", "wears", "palette"}

\* The wardrobe, of one availability or of any, garments with their state.
ListWardrobe(store, u, availability) ==
  {<<g, store.status[g]>> : g \in {h \in Mine(store, u) : store.status[h] \in availability}}

\* The saved looks with what they hold.
ListOutfits(store, u) == {<<l, store.looks[l]>> : l \in {m \in Looks : store.looks[m].of = u}}

\* The log, by garment; a garment that is gone took its entries along.
ListWear(store, u) ==
  {<<g, store.worn[g]>> : g \in {h \in Mine(store, u) : store.worn[h] > 0}}

\* No palette row is an empty palette, not an error.
ReadPalette(store, u) == {hue \in {"hues"} : u \in store.palette}

View(store, key, u) ==
  CASE key = "closet" -> ListWardrobe(store, u, Availability)
    [] key = "hamper" -> ListWardrobe(store, u, {"dirty"})
    [] key = "looks" -> ListOutfits(store, u)
    [] key = "wears" -> ListWear(store, u)
    [] OTHER -> ReadPalette(store, u)

-----------------------------------------------------------------------------
(* Requests are records with an op.  Serve gives what the store becomes    *)
(* and whether the answer is a 2xx.                                        *)

Done(store) == [ok |-> TRUE, store |-> store]
Refused(store) == [ok |-> FALSE, store |-> store]

ToggleAvailability(store, r, u) ==
  IF r.item \in Mine(store, u)
  THEN Done([store EXCEPT !.status[r.item] = r.to]) ELSE Refused(store)

\* A logged wear with ?flip=dirty; the client id is new with every request.
LogWear(store, r, u) ==
  IF r.item \in Mine(store, u)
  THEN Done([store EXCEPT !.worn[r.item] = @ + 1, !.status[r.item] = "dirty"])
  ELSE Refused(store)

\* A photo is known by the garment it shows: the first parse makes its row, a
\* later one replays the job.  The storage prefix and the job are its owner's.
ParsePhoto(store, r, u) ==
  IF Owner[r.item] # u THEN Refused(store)
  ELSE IF store.status[r.item] = "unmade"
       THEN Done([store EXCEPT !.status[r.item] = "clean"]) ELSE Done(store)

\* A discard that is gone already is a 200; a keeper that is missing raises,
\* and no garment is merged with itself.
ResolveDedupe(store, r, u) ==
  IF r.keep = r.discard THEN Refused(store)
  ELSE IF r.discard \notin Mine(store, u) THEN Done(store)
  ELSE IF r.keep \notin Mine(store, u) THEN Refused(store)
  ELSE Done([store EXCEPT
         !.status[r.discard] = "gone",
         !.worn = [store.worn EXCEPT ![r.keep] = @ + store.worn[r.discard], ![r.discard] = 0],
         !.looks = [l \in Looks |->
            IF r.discard \in store.looks[l].items
            THEN [store.looks[l] EXCEPT !.items = (@ \ {r.discard}) \cup {r.keep}]
            ELSE store.looks[l]]])

CreateOutfit(store, r, u) ==
  IF r.items \subseteq Mine(store, u)
  THEN Done([store EXCEPT !.looks[r.id] = [of |-> u, items |-> r.items, name |-> r.name]])
  ELSE Refused(store)

\* Deleting what is not there is a benign no-op, renaming it a 404.
DeleteOutfit(store, r, u) ==
  IF store.looks[r.id].of = u THEN Done([store EXCEPT !.looks[r.id] = NoLook]) ELSE Done(store)

RenameOutfit(store, r, u) ==
  IF store.looks[r.id].of = u
  THEN Done([store EXCEPT !.looks[r.id].name = r.name]) ELSE Refused(store)

UpsertPalette(store, u) == Done([store EXCEPT !.palette = @ \cup {u}])

DeleteAccount(store, u) ==
  Done([status |-> [g \in Garments |-> IF g \in Mine(store, u) THEN "gone" ELSE store.status[g]],
        worn |-> [g \in Garments |-> IF Owner[g] = u THEN 0 ELSE store.worn[g]],
        looks |-> [l \in Looks |-> IF store.looks[l].of = u THEN NoLook ELSE store.looks[l]],
        palette |-> store.palette \ {u}])

Serve(store, r, u) ==
  CASE u = None -> Refused(store)                   \* 401: no bearer
    [] u # None /\ r.op = "status" -> ToggleAvailability(store, r, u)
    [] u # None /\ r.op = "wear"   -> LogWear(store, r, u)
    [] u # None /\ r.op = "parse"  -> ParsePhoto(store, r, u)
    [] u # None /\ r.op = "merge"  -> ResolveDedupe(store, r, u)
    [] u # None /\ r.op = "create" -> CreateOutfit(store, r, u)
    [] u # None /\ r.op = "drop"   -> DeleteOutfit(store, r, u)
    [] u # None /\ r.op = "name"   -> RenameOutfit(store, r, u)
    [] u # None /\ r.op = "quiz"   -> UpsertPalette(store, u)
    [] OTHER -> DeleteAccount(store, u)
=============================================================================
