-------------------------- MODULE PhotoIntakeProofs --------------------------
(***************************************************************************)
(* Proofs about PhotoIntake, for any photos and any number of runs of the  *)
(* confirm loop at a time.                                                 *)
(***************************************************************************)
EXTENDS PhotoIntake, TLAPS

\* What the grid shows was admissible, and the ids set aside are not on it.
GridInv ==
    /\ refused \subseteq rejectedIds
    /\ rejectedIds \cap Ids(candidates) = {}
    /\ \A e \in candidates : MayOffer(e)

\* What a run still has ahead of it was approved when it was started; what is
\* neither ahead nor skipped has been sent.
RunInv(c) ==
    at[c] # "idle" =>
      /\ confirmed[c] \subseteq consented
      /\ confirmed[c] \subseteq uploaded \cup Ids(queue[c])
      /\ Ids(queue[c]) \subseteq confirmed[c]
      /\ item[c].verdict = "candidate"
      /\ at[c] = "parse" => item[c].photo \in uploaded

ConsentInv ==
    /\ uploaded \subseteq consented
    /\ \A c \in Runs : RunInv(c)

-----------------------------------------------------------------------------
(* The parts of the actions.                                               *)

\* The ids of a set of screened photos are photos.
LEMMA IdsType ==
    ASSUME NEW entries, entries \subseteq ScreenedPhotos
    PROVE  Ids(entries) \subseteq Photos
BY DEF Ids, ScreenedPhotos

\* Folding a batch into the grid keeps the types and what GridInv says.
LEMMA AdmitFacts ==
    ASSUME TypeOK, NEW batch, batch \subseteq ScreenedPhotos, Admit(batch)
    PROVE  /\ candidates' \subseteq ScreenedPhotos
           /\ approved' \subseteq Ids(candidates')
           /\ rejectedIds' \subseteq Photos
           /\ rejectedIds' = rejectedIds \cup Refused(batch)
           /\ rejectedIds' \cap Ids(candidates') = {}
           /\ (\A e \in candidates : MayOffer(e)) => \A e \in candidates' : MayOffer(e)
<1>1. Refused(batch) \subseteq Photos
  BY DEF Refused, ScreenedPhotos
<1>2. \A e \in candidates' : e.photo \notin rejectedIds' /\ (e \in candidates \/ e \in batch)
  BY DEF Admit
<1>3. \A e \in batch : e.photo \notin rejectedIds' => MayOffer(e)
  BY DEF Admit, Refused
<1>4. QED
  BY <1>1, <1>2, <1>3 DEF Admit, TypeOK, Ids

\* Going to the next tap, a run either stops or starts to hash an approvable one.
LEMMA AdvanceFacts ==
    ASSUME TypeOK, NEW c \in Runs, NEW taps, taps \subseteq ScreenedPhotos, Advance(c, taps)
    PROVE  /\ at' \in [Runs -> RunSteps]
           /\ queue' \in [Runs -> SUBSET ScreenedPhotos]
           /\ item' \in [Runs -> ScreenedPhotos \cup {None}]
           /\ \A d \in Runs \ {c} : at'[d] = at[d] /\ queue'[d] = queue[d] /\ item'[d] = item[d]
           /\ \/ at'[c] = "idle"
              \/ /\ at'[c] = "hash" /\ queue'[c] = taps
                 /\ item'[c] \in taps /\ item'[c].verdict = "candidate"
BY DEF Advance, Stop, TypeOK, RunSteps, Mintable

\* A run that stops leaves the others alone.
LEMMA StopFacts ==
    ASSUME TypeOK, NEW c \in Runs, Stop(c)
    PROVE  /\ at' \in [Runs -> RunSteps]
           /\ queue' \in [Runs -> SUBSET ScreenedPhotos]
           /\ item' \in [Runs -> ScreenedPhotos \cup {None}]
           /\ \A d \in Runs \ {c} : at'[d] = at[d] /\ queue'[d] = queue[d] /\ item'[d] = item[d]
           /\ at'[c] = "idle"
BY DEF Stop, TypeOK, RunSteps

-----------------------------------------------------------------------------
(* Types.                                                                  *)

LEMMA TypeStep == TypeOK /\ [Next]_vars => TypeOK'
<1> SUFFICES ASSUME TypeOK, [Next]_vars PROVE TypeOK'
  OBVIOUS
<1> USE DEF intake, importing, run, history
<1>1. CASE ImportPhotos
  BY <1>1 DEF ImportPhotos, TypeOK
<1>2. CASE Pick
  BY <1>2 DEF Pick, TypeOK
<1>3. CASE Screen
  <2>1. PICK verdict \in [picked -> Verdicts] :
          LET batch == {[photo |-> p, verdict |-> verdict[p]] : p \in picked} IN
          Admit(batch) /\ refused' = refused \cup Refused(batch)
    BY <1>3 DEF Screen
  <2> DEFINE batch == {[photo |-> p, verdict |-> verdict[p]] : p \in picked}
  <2>2. batch \subseteq ScreenedPhotos
    BY DEF ScreenedPhotos, TypeOK
  <2>3. Admit(batch) /\ refused' = refused \cup Refused(batch)
    BY <2>1
  <2>4. Refused(batch) \subseteq Photos
    BY <2>2 DEF Refused, ScreenedPhotos
  <2> HIDE DEF batch
  <2>5. /\ candidates' \subseteq ScreenedPhotos
        /\ approved' \subseteq Ids(candidates')
        /\ rejectedIds' \subseteq Photos
    BY <2>2, <2>3, AdmitFacts
  <2>6. QED
    BY <1>3, <2>3, <2>4, <2>5 DEF Screen, TypeOK
<1>4. CASE ImportFails
  BY <1>4 DEF ImportFails, TypeOK
<1>5. ASSUME NEW p \in Photos, ToggleApproval(p) PROVE TypeOK'
  <2>1. p \in Ids(candidates)
    BY <1>5 DEF ToggleApproval, Grid
  <2>2. QED
    BY <1>5, <2>1 DEF ToggleApproval, TypeOK
<1>6. ASSUME NEW c \in Runs, Confirm(c) PROVE TypeOK'
  <2>1. ApprovedPhotos \subseteq ScreenedPhotos
    BY DEF ApprovedPhotos, TypeOK
  <2>2. approved \subseteq Photos
    BY IdsType DEF TypeOK
  <2>3. Advance(c, ApprovedPhotos)
    BY <1>6 DEF Confirm
  <2>4. /\ at' \in [Runs -> RunSteps]
        /\ queue' \in [Runs -> SUBSET ScreenedPhotos]
        /\ item' \in [Runs -> ScreenedPhotos \cup {None}]
        /\ \A d \in Runs : at'[d] # "idle" => item'[d] \in queue'[d]
    BY <2>1, <2>3, AdvanceFacts DEF TypeOK
  <2>5. QED
    BY <1>6, <2>2, <2>4 DEF Confirm, TypeOK
<1>7. ASSUME NEW c \in Runs, Mint(c) PROVE TypeOK'
  BY <1>7 DEF Mint, TypeOK, RunSteps
<1>8. ASSUME NEW c \in Runs, Upload(c) PROVE TypeOK'
  <2>1. item[c].photo \in Photos
    BY <1>8 DEF Upload, TypeOK, ScreenedPhotos
  <2>2. QED
    BY <1>8, <2>1 DEF Upload, TypeOK, RunSteps
<1>9. ASSUME NEW c \in Runs, Parse(c) PROVE TypeOK'
  <2> DEFINE rest == queue[c] \ {item[c]}
  <2>1. rest \subseteq ScreenedPhotos
    BY DEF TypeOK
  <2>2. CASE Advance(c, rest) /\ UNCHANGED <<intake, refused, dropped>>
    <3> HIDE DEF rest
    <3>1. /\ at' \in [Runs -> RunSteps]
          /\ queue' \in [Runs -> SUBSET ScreenedPhotos]
          /\ item' \in [Runs -> ScreenedPhotos \cup {None}]
          /\ \A d \in Runs : at'[d] # "idle" => item'[d] \in queue'[d]
      BY <2>1, <2>2, AdvanceFacts DEF TypeOK
    <3>2. QED
      BY <1>9, <2>2, <3>1 DEF Parse, TypeOK
  <2>3. CASE /\ Stop(c)
             /\ candidates' = {} /\ approved' = {} /\ rejectedIds' = {}
             /\ refused' = {}
             /\ dropped' = dropped \cup (approved \ uploaded)
    <3>1. /\ at' \in [Runs -> RunSteps]
          /\ queue' \in [Runs -> SUBSET ScreenedPhotos]
          /\ item' \in [Runs -> ScreenedPhotos \cup {None}]
          /\ \A d \in Runs : at'[d] # "idle" => item'[d] \in queue'[d]
      BY <2>3, StopFacts DEF TypeOK
    <3>2. approved \subseteq Photos
      BY IdsType DEF TypeOK
    <3>3. QED
      BY <1>9, <2>3, <3>1, <3>2 DEF Parse, TypeOK
  <2>4. QED
    BY <1>9, <2>2, <2>3 DEF Parse
<1>10. ASSUME NEW c \in Runs, RunFails(c) PROVE TypeOK'
  <2>1. /\ at' \in [Runs -> RunSteps]
        /\ queue' \in [Runs -> SUBSET ScreenedPhotos]
        /\ item' \in [Runs -> ScreenedPhotos \cup {None}]
        /\ \A d \in Runs : at'[d] # "idle" => item'[d] \in queue'[d]
    BY <1>10, StopFacts DEF RunFails, TypeOK
  <2>2. item[c].photo \in Photos
    BY <1>10 DEF RunFails, TypeOK, ScreenedPhotos
  <2>3. uploaded' \subseteq Photos
    BY <1>10, <2>2 DEF RunFails, MaybeSent, TypeOK
  <2>4. QED
    BY <1>10, <2>1, <2>3 DEF RunFails, TypeOK
<1>11. CASE UNCHANGED vars
  BY <1>11 DEF vars, TypeOK
<1>12. QED
  BY <1>1, <1>2, <1>3, <1>4, <1>5, <1>6, <1>7, <1>8, <1>9, <1>10, <1>11 DEF Next

\* Every reachable state of the add-garment screen is well typed; in particular
\* no approval outlives the photo it was given for (admit, intake.ts).
THEOREM TypeCorrect == Spec => []TypeOK
<1>1. Init => TypeOK
  BY DEF Init, TypeOK, RunSteps, Ids
<1>2. QED
  BY <1>1, TypeStep, PTL DEF Spec

-----------------------------------------------------------------------------
(* The grid.                                                               *)

LEMMA GridStep == TypeOK /\ GridInv /\ [Next]_vars => GridInv'
<1> SUFFICES ASSUME TypeOK, GridInv, [Next]_vars PROVE GridInv'
  OBVIOUS
<1> USE DEF intake, importing, run, history
<1>1. CASE UNCHANGED <<candidates, rejectedIds, refused>>
  BY <1>1 DEF GridInv, Ids
<1>2. CASE Screen
  <2>1. PICK verdict \in [picked -> Verdicts] :
          LET batch == {[photo |-> p, verdict |-> verdict[p]] : p \in picked} IN
          Admit(batch) /\ refused' = refused \cup Refused(batch)
    BY <1>2 DEF Screen
  <2> DEFINE batch == {[photo |-> p, verdict |-> verdict[p]] : p \in picked}
  <2>2. batch \subseteq ScreenedPhotos
    BY DEF ScreenedPhotos, TypeOK
  <2>3. Admit(batch) /\ refused' = refused \cup Refused(batch)
    BY <2>1
  <2> HIDE DEF batch
  <2>4. /\ rejectedIds' = rejectedIds \cup Refused(batch)
        /\ rejectedIds' \cap Ids(candidates') = {}
        /\ \A e \in candidates' : MayOffer(e)
    BY <2>2, <2>3, AdmitFacts DEF GridInv
  <2>5. QED
    BY <2>3, <2>4 DEF GridInv
<1>3. ASSUME NEW c \in Runs, Parse(c) PROVE GridInv'
  <2>1. CASE candidates' = {} /\ rejectedIds' = {} /\ refused' = {}
    BY <2>1 DEF GridInv, Ids
  <2>2. QED
    BY <1>1, <1>3, <2>1 DEF Parse
<1>4. CASE ImportPhotos \/ Pick \/ ImportFails
  BY <1>1, <1>4 DEF ImportPhotos, Pick, ImportFails
<1>5. ASSUME NEW p \in Photos, ToggleApproval(p) PROVE GridInv'
  BY <1>1, <1>5 DEF ToggleApproval
<1>6. ASSUME NEW c \in Runs, Confirm(c) \/ Mint(c) \/ Upload(c) \/ RunFails(c) PROVE GridInv'
  BY <1>1, <1>6 DEF Confirm, Mint, Upload, RunFails
<1>7. CASE UNCHANGED vars
  BY <1>1, <1>7 DEF vars
<1>8. QED
  BY <1>2, <1>3, <1>4, <1>5, <1>6, <1>7 DEF Next

\* A photo the screener has refused stays off the grid, whatever later imports
\* say of it, and a scanned photo is shown for an affirmative verdict only.
THEOREM RefusedTheorem == Spec => []RefusedNotShown
<1>1. Init => TypeOK /\ GridInv
  BY DEF Init, TypeOK, RunSteps, GridInv, Ids
<1>2. TypeOK /\ GridInv => RefusedNotShown
  BY DEF TypeOK, GridInv, RefusedNotShown, MayOffer, ScreenedPhotos
<1>3. QED
  BY <1>1, <1>2, TypeStep, GridStep, PTL DEF Spec

-----------------------------------------------------------------------------
(* Consent.                                                                *)

\* A run that nothing touches keeps its part of the invariant, since what is
\* uploaded and what she has consented to only grow.
LEMMA OtherRun ==
    ASSUME NEW d, RunInv(d),
           at'[d] = at[d], queue'[d] = queue[d], item'[d] = item[d],
           confirmed'[d] = confirmed[d],
           uploaded \subseteq uploaded', consented \subseteq consented'
    PROVE  RunInv(d)'
BY DEF RunInv, Ids

LEMMA ConsentStep == TypeOK /\ ConsentInv /\ [Next]_vars => ConsentInv'
<1> SUFFICES ASSUME TypeOK, ConsentInv, [Next]_vars PROVE ConsentInv'
  OBVIOUS
<1> USE DEF intake, importing, run, history
<1>1. CASE UNCHANGED <<run, uploaded, confirmed, consented>>
  BY <1>1 DEF ConsentInv, RunInv, Ids
<1>2. ASSUME NEW c \in Runs, Confirm(c) PROVE ConsentInv'
  <2>1. ApprovedPhotos \subseteq ScreenedPhotos
    BY DEF ApprovedPhotos, TypeOK
  <2>2. Advance(c, ApprovedPhotos)
    BY <1>2 DEF Confirm
  <2>3. /\ \A d \in Runs \ {c} : at'[d] = at[d] /\ queue'[d] = queue[d] /\ item'[d] = item[d]
        /\ \/ at'[c] = "idle"
           \/ /\ at'[c] = "hash" /\ queue'[c] = ApprovedPhotos
              /\ item'[c].verdict = "candidate"
    BY <2>1, <2>2, AdvanceFacts
  <2>4. /\ confirmed'[c] = approved /\ consented' = consented \cup approved
        /\ uploaded' = uploaded
        /\ \A d \in Runs \ {c} : confirmed'[d] = confirmed[d]
    BY <1>2 DEF Confirm, TypeOK
  <2>5. approved = Ids(ApprovedPhotos)
    BY DEF TypeOK, Ids, ApprovedPhotos
  <2>6. \A d \in Runs \ {c} : RunInv(d)'
    BY <2>3, <2>4, OtherRun DEF ConsentInv
  <2>7. at'[c] # "idle" => Ids(queue'[c]) = approved
    BY <2>3, <2>5
  <2>8. RunInv(c)'
    BY <2>3, <2>4, <2>7 DEF RunInv, Ids
  <2>9. QED
    BY <2>4, <2>6, <2>8 DEF ConsentInv
<1>3. ASSUME NEW c \in Runs, Mint(c) PROVE ConsentInv'
  <2>1. /\ at[c] = "hash" /\ at'[c] = "upload"
        /\ \A d \in Runs \ {c} : at'[d] = at[d]
        /\ UNCHANGED <<queue, item, uploaded, confirmed, consented>>
    BY <1>3 DEF Mint, TypeOK
  <2>2. RunInv(c)'
    BY <2>1 DEF ConsentInv, RunInv, Ids
  <2>3. \A d \in Runs \ {c} : RunInv(d)'
    BY <2>1, OtherRun DEF ConsentInv
  <2>4. QED
    BY <2>1, <2>2, <2>3 DEF ConsentInv
<1>4. ASSUME NEW c \in Runs, Upload(c) PROVE ConsentInv'
  <2>1. /\ at[c] = "upload" /\ at'[c] = "parse"
        /\ \A d \in Runs \ {c} : at'[d] = at[d]
        /\ uploaded' = uploaded \cup {item[c].photo}
        /\ UNCHANGED <<queue, item, confirmed, consented>>
    BY <1>4 DEF Upload, TypeOK
  <2>2. item[c].photo \in Ids(queue[c])
    BY <2>1 DEF TypeOK, Ids
  <2>3. RunInv(c)'
    BY <2>1 DEF ConsentInv, RunInv, Ids
  <2>4. \A d \in Runs \ {c} : RunInv(d)'
    BY <2>1, OtherRun DEF ConsentInv
  <2>5. uploaded' \subseteq consented'
    BY <2>1, <2>2 DEF ConsentInv, RunInv
  <2>6. QED
    BY <2>3, <2>4, <2>5 DEF ConsentInv
<1>5. ASSUME NEW c \in Runs, Parse(c) PROVE ConsentInv'
  <2> DEFINE rest == queue[c] \ {item[c]}
  <2>1. rest \subseteq ScreenedPhotos
    BY DEF TypeOK
  <2>2. at[c] = "parse" /\ UNCHANGED <<uploaded, confirmed, consented>>
    BY <1>5 DEF Parse
  <2>3. Advance(c, rest) \/ Stop(c)
    BY <1>5 DEF Parse
  <2> HIDE DEF rest
  <2>4. /\ \A d \in Runs \ {c} : at'[d] = at[d] /\ queue'[d] = queue[d] /\ item'[d] = item[d]
        /\ \/ at'[c] = "idle"
           \/ /\ at'[c] = "hash" /\ queue'[c] = rest
              /\ item'[c].verdict = "candidate"
    BY <2>1, <2>3, AdvanceFacts, StopFacts
  <2>5. \A d \in Runs \ {c} : RunInv(d)'
    BY <2>2, <2>4, OtherRun DEF ConsentInv
  <2>6. Ids(rest) \subseteq Ids(queue[c]) /\ Ids(queue[c]) \subseteq Ids(rest) \cup {item[c].photo}
    BY DEF rest, Ids
  <2>7. at'[c] # "idle" => Ids(queue'[c]) = Ids(rest)
    BY <2>4
  <2>8. RunInv(c)'
    BY <2>2, <2>4, <2>6, <2>7 DEF ConsentInv, RunInv, Ids
  <2>9. QED
    BY <2>2, <2>5, <2>8 DEF ConsentInv
<1>6. ASSUME NEW c \in Runs, RunFails(c) PROVE ConsentInv'
  <2>1. /\ at'[c] = "idle"
        /\ \A d \in Runs \ {c} : at'[d] = at[d] /\ queue'[d] = queue[d] /\ item'[d] = item[d]
        /\ UNCHANGED <<confirmed, consented>>
    BY <1>6, StopFacts DEF RunFails
  <2>2. at[c] # "idle" /\ item[c].photo \in Ids(queue[c])
    BY <1>6 DEF RunFails, TypeOK, Ids
  <2>3. uploaded \subseteq uploaded' /\ uploaded' \subseteq consented'
    BY <1>6, <2>1, <2>2 DEF RunFails, MaybeSent, ConsentInv, RunInv
  <2>4. RunInv(c)'
    BY <2>1 DEF RunInv
  <2>5. \A d \in Runs \ {c} : RunInv(d)'
    BY <2>1, <2>3, OtherRun DEF ConsentInv
  <2>6. QED
    BY <2>3, <2>4, <2>5 DEF ConsentInv
<1>7. CASE ImportPhotos \/ Pick \/ Screen \/ ImportFails
  BY <1>1, <1>7 DEF ImportPhotos, Pick, Screen, ImportFails
<1>8. ASSUME NEW p \in Photos, ToggleApproval(p) PROVE ConsentInv'
  BY <1>1, <1>8 DEF ToggleApproval
<1>9. CASE UNCHANGED vars
  BY <1>1, <1>9 DEF vars
<1>10. QED
  BY <1>2, <1>3, <1>4, <1>5, <1>6, <1>7, <1>8, <1>9 DEF Next

\* The invariant that both results about the confirm loop follow from.
LEMMA ConsentHolds == Spec => [](TypeOK /\ ConsentInv)
<1>1. Init => TypeOK /\ ConsentInv
  BY DEF Init, TypeOK, RunSteps, ConsentInv, RunInv, Ids
<1>2. QED
  BY <1>1, TypeStep, ConsentStep, PTL DEF Spec

\* Whatever she does while runs are open, no photo leaves the phone that she had
\* not approved when she pressed the button (confirmApproved, approvePhoto).
THEOREM ConsentTheorem == Spec => []OnlyConfirmedSent
<1>1. TypeOK /\ ConsentInv => OnlyConfirmedSent
  <2> SUFFICES ASSUME TypeOK, ConsentInv, NEW c \in Runs, at[c] \in {"upload", "parse"}
               PROVE  item[c].photo \in confirmed[c] /\ item[c].verdict = "candidate"
    BY DEF OnlyConfirmedSent, ConsentInv
  <2>1. item[c].photo \in Ids(queue[c])
    BY DEF TypeOK, Ids
  <2>2. QED
    BY <2>1 DEF ConsentInv, RunInv
<1>2. QED
  BY <1>1, ConsentHolds, PTL

\* A run of the confirm loop that goes on has skipped none of its photos, so one
\* that clears the tray has sent all it was started with.
THEOREM NothingSkippedTheorem == Spec => []NothingSkipped
<1>1. TypeOK /\ ConsentInv => NothingSkipped
  BY DEF ConsentInv, RunInv, NothingSkipped
<1>2. QED
  BY <1>1, ConsentHolds, PTL
=============================================================================
