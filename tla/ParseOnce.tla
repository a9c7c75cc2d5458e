------------------------------ MODULE ParseOnce ------------------------------
(***************************************************************************)
(* What the parse pipeline promises about one photo, with nothing of how   *)
(* it keeps the promise: a registered photo is worked on by one request at *)
(* a time, an attempt may be given up and taken over by another, and the   *)
(* garments appear together, once, when an attempt finishes.               *)
(***************************************************************************)
CONSTANTS Keys, Requests

VARIABLES
    phase,    \* phase[k]: "none", "open" or "done"
    workers,  \* workers[k]: the requests working on photo k
    result    \* result[k]: the garments of photo k

vars == <<phase, workers, result>>

Init ==
    /\ phase = [k \in Keys |-> "none"]
    /\ workers = [k \in Keys |-> {}]
    /\ result = [k \in Keys |-> {}]

\* The photo is submitted for the first time.
Register(k) ==
    /\ phase[k] = "none"
    /\ phase' = [phase EXCEPT ![k] = "open"]
    /\ UNCHANGED <<workers, result>>

\* A request takes the photo on: only when nobody works on it.
Begin(k, r) ==
    /\ phase[k] = "open"
    /\ workers[k] = {}
    /\ workers' = [workers EXCEPT ![k] = {r}]
    /\ UNCHANGED <<phase, result>>

\* The attempt fails or its request dies; the photo stays open.
GiveUp(k, r) ==
    /\ phase[k] = "open"
    /\ workers[k] = {r}
    /\ workers' = [workers EXCEPT ![k] = {}]
    /\ UNCHANGED <<phase, result>>

\* The attempt succeeds; there is no step out of "done".
Finish(k, r) ==
    /\ phase[k] = "open"
    /\ workers[k] = {r}
    /\ phase' = [phase EXCEPT ![k] = "done"]
    /\ workers' = [workers EXCEPT ![k] = {}]
    /\ result' = [result EXCEPT ![k] = {r}]

Next ==
    \E k \in Keys :
        \/ Register(k)
        \/ \E r \in Requests : Begin(k, r) \/ GiveUp(k, r) \/ Finish(k, r)

Spec == Init /\ [][Next]_vars
=============================================================================
