----------------------------- MODULE PhotoIntake -----------------------------
(***************************************************************************)
(* The add-garment screen of the phone: mobile/features/onboarding         *)
(* (intake.ts, stage.ts, AddGarmentScreen.tsx), the mint of an approved    *)
(* photo (shared/src/approvedPhoto.ts) and its upload (mobile/src/photo).  *)
(*                                                                         *)
(* The handlers run to their next await in one step; between two awaits    *)
(* she may tap whatever the screen shows.  The picker and the screener are *)
(* behind a port and may answer anything its contract allows.  The message *)
(* shown after a failure, the order of the grid and the pixels are left    *)
(* out.                                                                    *)
(***************************************************************************)

CONSTANTS
    Photos,   \* photo ids, stable within a session
    Scanned,  \* those a library scan enumerates; the others are hand picked
    Runs,     \* runs of confirmApproved that may be open at a time
    None      \* no mutation observed yet, no tap at hand

ASSUME ConstantsAssumption == Scanned \subseteq Photos /\ None \notin Runs

Verdicts == {"candidate", "rejected", "undetermined"}
ScreenedPhotos == [photo : Photos, verdict : Verdicts]

VARIABLES
    candidates, \* the screened photos on the grid
    approved,   \* ids she has tapped
    rejectedIds,\* ids set aside; the screen shows how many
    import,     \* where importPhotos stands: "idle", "picking" or "screening"
    picked,     \* what the picker has returned
    at,         \* at[c]: where run c stands
    queue,      \* queue[c]: the taps run c has not dealt with, its item included
    item,       \* item[c]: the tap it is dealing with
    observed,   \* the run whose mutation isPending speaks of
    uploaded,   \* ids whose bytes have left the phone
    confirmed,  \* history: what run c was started with, by id
    consented,  \* history: ids approved at some press of the button
    refused,    \* history: ids a screening refused since the tray was cleared
    dropped     \* history: ids approved when the tray was cleared, and not uploaded

intake == <<candidates, approved, rejectedIds>>
importing == <<import, picked>>
run == <<at, queue, item>>
history == <<confirmed, consented, refused, dropped>>
vars == <<intake, importing, run, observed, uploaded, history>>

RunSteps == {"idle", "hash", "upload", "parse"}

Init ==
    /\ candidates = {} /\ approved = {} /\ rejectedIds = {}
    /\ import = "idle" /\ picked = {}
    /\ at = [c \in Runs |-> "idle"]
    /\ queue = [c \in Runs |-> {}]
    /\ item = [c \in Runs |-> None]
    /\ observed = None
    /\ uploaded = {} /\ consented = {} /\ refused = {} /\ dropped = {}
    /\ confirmed = [c \in Runs |-> {}]

-----------------------------------------------------------------------------
(* intake.ts and stage.ts: what is shown, what may be uploaded.            *)

Ids(entries) == {e.photo : e \in entries}

\* An undetermined photo is offered only if she picked it herself.
MayOffer(e) ==
    \/ e.verdict = "candidate"
    \/ e.verdict = "undetermined" /\ e.photo \notin Scanned

Refused(batch) == {e.photo : e \in {b \in batch : ~MayOffer(b)}}

Bug_AdmitSkipsKnown(batch) ==
    LET new == {e \in batch : e.photo \notin Ids(candidates)} IN
    /\ rejectedIds' = rejectedIds \cup Refused(new)
    /\ candidates' = candidates \cup {e \in new : e.photo \notin rejectedIds'}
    /\ approved' = approved \cap Ids(candidates')

\* A rejection wins over every other sighting, earlier ones included; of the
\* others the first is kept; her taps on evicted photos go with them.
Admit(batch) ==
    /\ rejectedIds' = rejectedIds \cup Refused(batch)
    /\ candidates' =
         {e \in candidates : e.photo \notin rejectedIds'}
           \cup {e \in batch : e.photo \notin rejectedIds' \cup Ids(candidates)}
    /\ approved' = approved \cap Ids(candidates')

Bug_AllCandidates == candidates

ApprovedPhotos == {e \in candidates : e.photo \in approved}

\* useMutation follows the mutation started last.
IsPending == observed \in Runs /\ at[observed] \in {"upload", "parse"}

\* An upload outranks an import, and both the tray.
StageOf(adding, choosing, offered) ==
    IF adding THEN "adding"
    ELSE IF choosing THEN "choosing"
    ELSE IF offered = {} THEN "intro" ELSE "review"

\* What the screen derives at each render; the handlers hold no stage.
Stage == StageOf(IsPending, import # "idle", candidates)

\* The controls: the library opens from the introduction or the review, tiles
\* can be tapped on the review only, and the button wants one tap at least.
ImportOffered == Stage \in {"intro", "review"}
Grid == IF Stage = "review" THEN Ids(candidates) ELSE {}
ConfirmOffered == Stage = "review" /\ ApprovedPhotos # {}

-----------------------------------------------------------------------------
(* importPhotos.                                                           *)

ImportPhotos ==
    /\ ImportOffered
    /\ import' = "picking"
    /\ UNCHANGED <<intake, picked, run, observed, uploaded, history>>

Pick ==
    /\ import = "picking" /\ import' = "screening"
    /\ picked' \in SUBSET Photos
    /\ UNCHANGED <<intake, run, observed, uploaded, history>>

\* One verdict for each photo, then the fold into the intake as it is by now.
Screen ==
    /\ import = "screening"
    /\ \E verdict \in [picked -> Verdicts] :
         LET batch == {[photo |-> p, verdict |-> verdict[p]] : p \in picked} IN
         Admit(batch) /\ refused' = refused \cup Refused(batch)
    /\ import' = "idle" /\ picked' = {}
    /\ UNCHANGED <<run, observed, uploaded, confirmed, consented, dropped>>

ImportFails ==
    /\ import # "idle"
    /\ import' = "idle" /\ picked' = {}
    /\ UNCHANGED <<intake, run, observed, uploaded, history>>

ToggleApproval(p) ==
    /\ p \in Grid
    /\ approved' = IF p \in approved THEN approved \ {p} ELSE approved \cup {p}
    /\ UNCHANGED <<candidates, rejectedIds, importing, run, observed, uploaded, history>>

-----------------------------------------------------------------------------
(* confirmApproved.                                                        *)

\* approvePhoto fails closed: it mints for an affirmative verdict only.
Mintable(e) == e.verdict = "candidate"

Stop(c) ==
    /\ at' = [at EXCEPT ![c] = "idle"]
    /\ queue' = [queue EXCEPT ![c] = {}]
    /\ item' = [item EXCEPT ![c] = None]

\* The loop goes to its next tap: it starts to hash, or the mint throws.
Advance(c, taps) ==
    \E e \in taps :
      IF Mintable(e)
        THEN /\ at' = [at EXCEPT ![c] = "hash"]
             /\ queue' = [queue EXCEPT ![c] = taps]
             /\ item' = [item EXCEPT ![c] = e]
        ELSE Stop(c)

\* The run works through the taps of the moment she pressed the button.
Confirm(c) ==
    /\ ConfirmOffered /\ at[c] = "idle"
    /\ Advance(c, ApprovedPhotos)
    /\ confirmed' = [confirmed EXCEPT ![c] = approved]
    /\ consented' = consented \cup approved
    /\ UNCHANGED <<intake, importing, observed, uploaded, refused, dropped>>

Mint(c) ==
    /\ at[c] = "hash"
    /\ at' = [at EXCEPT ![c] = "upload"]
    /\ observed' = c
    /\ UNCHANGED <<intake, importing, queue, item, uploaded, history>>

Upload(c) ==
    /\ at[c] = "upload"
    /\ uploaded' = uploaded \cup {item[c].photo}
    /\ at' = [at EXCEPT ![c] = "parse"]
    /\ UNCHANGED <<intake, importing, queue, item, observed, history>>

\* Parsed: the next tap, or the tray is cleared, whatever is in it by now.
Parse(c) ==
    LET rest == queue[c] \ {item[c]} IN
    /\ at[c] = "parse"
    /\ \/ rest # {} /\ Advance(c, rest) /\ UNCHANGED <<intake, refused, dropped>>
       \/ /\ rest = {} /\ Stop(c)
          /\ candidates' = {} /\ approved' = {} /\ rejectedIds' = {}
          /\ refused' = {}
          /\ dropped' = dropped \cup (approved \ uploaded)
    /\ UNCHANGED <<importing, observed, uploaded, confirmed, consented>>

\* What has arrived when a call fails: its answer alone may have been lost.
MaybeSent(c) ==
    {uploaded} \cup IF at[c] = "upload" THEN {uploaded \cup {item[c].photo}} ELSE {}

Bug_RunFailsGoesOn(c) ==
    LET rest == queue[c] \ {item[c]} IN
    /\ at[c] # "idle" /\ uploaded' \in MaybeSent(c)
    /\ IF rest = {} THEN Stop(c) ELSE Advance(c, rest)
    /\ UNCHANGED <<intake, importing, observed, history>>

\* A hash, an upload or a parse fails: the run stops and the tray stays.
RunFails(c) ==
    /\ at[c] # "idle" /\ uploaded' \in MaybeSent(c)
    /\ Stop(c)
    /\ UNCHANGED <<intake, importing, observed, history>>

Next ==
    \/ ImportPhotos \/ Pick \/ Screen \/ ImportFails
    \/ \E p \in Photos : ToggleApproval(p)
    \/ \E c \in Runs : Confirm(c) \/ Mint(c) \/ Upload(c) \/ Parse(c) \/ RunFails(c)

Spec == Init /\ [][Next]_vars

-----------------------------------------------------------------------------
\* Every variable keeps its type.
TypeOK ==
    /\ candidates \subseteq ScreenedPhotos
    /\ approved \subseteq Ids(candidates)
    /\ rejectedIds \subseteq Photos
    /\ import \in {"idle", "picking", "screening"}
    /\ picked \subseteq Photos
    /\ at \in [Runs -> RunSteps]
    /\ queue \in [Runs -> SUBSET ScreenedPhotos]
    /\ item \in [Runs -> ScreenedPhotos \cup {None}]
    /\ \A c \in Runs : at[c] # "idle" => item[c] \in queue[c]
    /\ observed \in Runs \cup {None}
    /\ uploaded \subseteq Photos
    /\ confirmed \in [Runs -> SUBSET Photos]
    /\ consented \subseteq Photos /\ refused \subseteq Photos /\ dropped \subseteq Photos

\* A photo the screener has refused is not on the grid and not approved, however
\* often and with whatever verdicts it is picked again, until the tray is cleared.
RefusedNotShown ==
    /\ refused \cap Ids(candidates) = {}
    /\ \A e \in candidates : e.photo \in Scanned => e.verdict = "candidate"

\* Whatever leaves the phone was approved when she pressed the button, and the
\* screener had passed it: with runs that overlap, imports during a run and taps
\* between two uploads ("Nothing is uploaded until you approve it").
OnlyConfirmedSent ==
    /\ uploaded \subseteq consented
    /\ \A c \in Runs : at[c] \in {"upload", "parse"} =>
         item[c].photo \in confirmed[c] /\ item[c].verdict = "candidate"

\* A run that goes on skips nothing: each photo it was started with has been
\* uploaded or is still ahead of it, so one that reaches its end has sent them
\* all, and a failure never passes for a success.
NothingSkipped ==
    \A c \in Runs : at[c] # "idle" => confirmed[c] \subseteq uploaded \cup Ids(queue[c])
=============================================================================
