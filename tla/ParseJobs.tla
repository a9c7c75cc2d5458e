------------------------------ MODULE ParseJobs ------------------------------
(***************************************************************************)
(* The parse-photo request (functions/src/parse/parse-photo.ts) over the   *)
(* parse_jobs table (db/src/repos/parse-jobs.repo.ts, migrations 0003 and  *)
(* 0012).  Every request is a process; each of its steps is one database   *)
(* transaction (the executor opens one per query()) or one provider call,  *)
(* so everything the code leaves between two awaits can interleave.        *)
(*                                                                         *)
(* A job is named by its unique key (user_id, source_photo_hash).  Rows of *)
(* parse_jobs are never deleted here: app_user holds no DELETE grant on    *)
(* the table, and account deletion is a component of its own.              *)
(***************************************************************************)
EXTENDS Naturals, FiniteSets

CONSTANTS
    Users,      \* verified JWT subs
    Photos,     \* source_photo_hash values
    Requests,   \* Edge isolates able to run one parse-photo request at a time
    TeaserCap,  \* TEASER_JOB_CAP
    CallTime,   \* ticks one requestWithRetry call may take, retries included
    DbTime,     \* ticks the transaction that ends a claim may take
    Lease,      \* CLAIM_LEASE: ticks before a claim may be taken over
    Timely      \* TRUE: no step of a claimed request outlives its bound

ASSUME ConstantsAssumption ==
    /\ IsFiniteSet(Photos)
    /\ TeaserCap \in Nat
    /\ CallTime \in Nat
    /\ DbTime \in Nat
    /\ Lease \in Nat \ {0}
    /\ Timely \in BOOLEAN

Keys == Users \X Photos
Kinds == {"teaser", "full"}
Statuses == {"pending", "processing", "done", "failed"}

VARIABLES
    status,    \* status[k]: the row's status, "absent" while there is no row
    rowKind,   \* rowKind[k]: the kind the row was inserted with
    lease,     \* lease[k]: ticks until claimed_at no longer protects the row;
               \* 0 when claimed_at is NULL or older than CLAIM_LEASE
    items,     \* items[k]: wardrobe_items of the job, one per committing request
    entitled,  \* entitled[u]: subscriptions.entitlement_active
    lock,      \* lock[u]: requests holding the advisory lock of user u
    pc,        \* pc[r]: the next step of request r
    key,       \* key[r]: the job the request is about
    kind,      \* kind[r]: the kind the request asked for
    left,      \* left[r]: ticks the current timed step may still take
    seen,      \* seen[r]: item rows in the snapshot of r's commit statement
    reply      \* reply[r]: the last response of r, with the items it carried

rows == <<status, rowKind, lease, items>>
locals == <<key, kind, seen>>
vars == <<rows, entitled, lock, pc, locals, left, reply>>

Calls == {"mint", "vision", "cutout", "upload"}
Section == Calls \cup {"commit", "apply", "failing"}
Resolving == {"lookup", "count", "insert"}
Steps == {"idle", "gate", "throttle", "resolve", "read", "replay", "claim", "list"}
         \cup Resolving \cup Section

Codes == {"none", "200", "402", "409", "429", "500", "502"}
Reply(code, its) == [code |-> code, items |-> its]
NoReply == Reply("none", {})

\* The rows the teaser cap counts.
TeaserRows(u) == {p \in Photos : status[<<u, p>>] # "absent" /\ rowKind[<<u, p>>] = "teaser"}

\* The requests that hold a claim on job k and have not finished with it.
Workers(k) == {r \in Requests : pc[r] \in Section /\ key[r] = k}

\* Mistakes the mutation runs plant in place of the definition that follows
\* them are named Bug_...; no specification uses them.
Bug_ClaimableIgnoringLease(k) == status[k] \in {"pending", "failed", "processing"}
Bug_ClaimableAnyStatus(k) == lease[k] = 0
Bug_ClaimableNotProcessing(k) == status[k] \in {"pending", "failed"} /\ lease[k] = 0

Claimable(k) == status[k] \in {"pending", "failed", "processing"} /\ lease[k] = 0

Init ==
    /\ status = [k \in Keys |-> "absent"]
    /\ rowKind = [k \in Keys |-> "teaser"]
    /\ lease = [k \in Keys |-> 0]
    /\ items = [k \in Keys |-> {}]
    /\ entitled \in [Users -> BOOLEAN]
    /\ lock = [u \in Users |-> {}]
    /\ pc = [r \in Requests |-> "idle"]
    /\ key \in [Requests -> Keys]
    /\ kind = [r \in Requests |-> "teaser"]
    /\ left = [r \in Requests |-> 0]
    /\ seen = [r \in Requests |-> {}]
    /\ reply = [r \in Requests |-> NoReply]

-----------------------------------------------------------------------------
(* Control of one request.                                                 *)

Goto(r, from, to) == pc[r] = from /\ pc' = [pc EXCEPT ![r] = to]

Answer(r, from, code, its) ==
    /\ Goto(r, from, "idle")
    /\ reply' = [reply EXCEPT ![r] = Reply(code, its)]

\* Enter a step that must end within the given time.
Timed(r, ticks) == left' = [left EXCEPT ![r] = ticks]

\* The client posts a photo it approved, again or for the first time.
Start(r, k, kd) ==
    /\ Goto(r, "idle", IF kd = "full" THEN "gate" ELSE "throttle")
    /\ key' = [key EXCEPT ![r] = k]
    /\ kind' = [kind EXCEPT ![r] = kd]
    /\ reply' = [reply EXCEPT ![r] = NoReply]
    /\ UNCHANGED <<rows, entitled, lock, left, seen>>

\* getEntitlement: a user without a row is not entitled.
Entitled(u) == entitled[u]

\* Step 1: only kind 'full' reads the subscription row.
Gate(r) ==
    /\ \/ Entitled(key[r][1]) /\ Goto(r, "gate", "throttle") /\ UNCHANGED reply
       \/ ~Entitled(key[r][1]) /\ Answer(r, "gate", "402", {})
    /\ UNCHANGED <<rows, entitled, lock, locals, left>>

\* Step 1b: one token of the spend budget; module RateLimit decides which.
Throttle(r, allowed) ==
    /\ \/ allowed /\ Goto(r, "throttle", "resolve") /\ UNCHANGED reply
       \/ ~allowed /\ Answer(r, "throttle", "429", {})
    /\ UNCHANGED <<rows, entitled, lock, locals, left>>

-----------------------------------------------------------------------------
(* resolve_teaser_job: one transaction, a fresh snapshot per statement.    *)

Unlock(r) == lock' = [lock EXCEPT ![key[r][1]] = @ \ {r}]

Bug_ResolveLockNoWait(r) ==
    /\ Goto(r, "resolve", "lookup")
    /\ lock' = [lock EXCEPT ![key[r][1]] = @ \cup {r}]
    /\ UNCHANGED <<rows, entitled, locals, left, reply>>

\* pg_advisory_xact_lock waits for every earlier holder to end its transaction.
ResolveLock(r) ==
    /\ lock[key[r][1]] = {}
    /\ Goto(r, "resolve", "lookup")
    /\ lock' = [lock EXCEPT ![key[r][1]] = {r}]
    /\ UNCHANGED <<rows, entitled, locals, left, reply>>

ResolveLookup(r) ==
    /\ \/ /\ status[key[r]] # "absent"
          /\ Goto(r, "lookup", "read")
          /\ Unlock(r)
       \/ /\ status[key[r]] = "absent"
          /\ Goto(r, "lookup", IF kind[r] = "teaser" THEN "count" ELSE "insert")
          /\ UNCHANGED lock
    /\ UNCHANGED <<rows, entitled, locals, left, reply>>

ResolveCount(r) ==
    /\ \/ /\ Cardinality(TeaserRows(key[r][1])) >= TeaserCap
          /\ Answer(r, "count", "402", {})
          /\ Unlock(r)
       \/ /\ Cardinality(TeaserRows(key[r][1])) < TeaserCap
          /\ Goto(r, "count", "insert")
          /\ UNCHANGED <<lock, reply>>
    /\ UNCHANGED <<rows, entitled, locals, left>>

\* INSERT ... ON CONFLICT DO NOTHING, then COMMIT: the row appears and the
\* advisory lock goes in the same step.
ResolveInsert(r) ==
    LET k == key[r] IN
    /\ Goto(r, "insert", "read")
    /\ status' = [status EXCEPT ![k] = IF @ = "absent" THEN "pending" ELSE @]
    /\ rowKind' = [rowKind EXCEPT ![k] = IF status[k] = "absent" THEN kind[r] ELSE @]
    /\ Unlock(r)
    /\ UNCHANGED <<lease, items, entitled, locals, left, reply>>

Bug_ReadBackReplaysUnfinished(r) ==
    /\ Goto(r, "read", IF status[key[r]] # "pending" THEN "replay" ELSE "claim")
    /\ UNCHANGED <<rows, entitled, lock, locals, left, reply>>

\* resolveJob reads the row back in a second transaction; step 3 of the
\* handler decides on the status this read returned.
ReadBack(r) ==
    /\ Goto(r, "read", IF status[key[r]] = "done" THEN "replay" ELSE "claim")
    /\ UNCHANGED <<rows, entitled, lock, locals, left, reply>>

\* listItemsByJob, for the replay of a finished job and after a commit.
Respond200(r, from) ==
    /\ Answer(r, from, "200", items[key[r]])
    /\ UNCHANGED <<rows, entitled, lock, locals, left>>

Replay(r) == Respond200(r, "replay")
List(r) == Respond200(r, "list")

-----------------------------------------------------------------------------
(* The claim and the paid section behind it.                               *)

Claim(r) ==
    LET k == key[r] IN
    /\ Claimable(k)
    /\ Goto(r, "claim", "mint")
    /\ status' = [status EXCEPT ![k] = "processing"]
    /\ lease' = [lease EXCEPT ![k] = Lease]
    /\ Timed(r, CallTime)
    /\ UNCHANGED <<rowKind, items, entitled, lock, locals, reply>>

ClaimLost(r) ==
    /\ ~Claimable(key[r])
    /\ Answer(r, "claim", "409", {})
    /\ UNCHANGED <<rows, entitled, lock, locals, left>>

\* The order of the awaits: sign the photo URL, vision, cutout, upload of the
\* cutout to Storage; after the last one the items are ready to commit.
AfterCall ==
    [c \in Calls |-> CASE c = "mint" -> "vision"
                       [] c = "vision" -> "cutout"
                       [] c = "cutout" -> "upload"
                       [] OTHER -> "commit"]

CallSucceeds(r, call) ==
    /\ Goto(r, call, AfterCall[call])
    /\ Timed(r, IF AfterCall[call] = "commit" THEN DbTime ELSE CallTime)
    /\ UNCHANGED <<rows, entitled, lock, locals, reply>>

\* A status that is not retryable, retries used up, a timeout or a payload
\* the boundary parser refuses: all land in the same catch.
CallFails(r, call) ==
    /\ Goto(r, call, "failing")
    /\ Timed(r, DbTime)
    /\ UNCHANGED <<rows, entitled, lock, locals, reply>>

\* UPDATE ... WHERE user_id = $1 AND id = $2: it does not ask who holds the claim.
MarkFailed(r) ==
    LET k == key[r] IN
    /\ Answer(r, "failing", "502", {})
    /\ status' = [status EXCEPT ![k] = "failed"]
    /\ lease' = [lease EXCEPT ![k] = 0]
    /\ Timed(r, 0)
    /\ UNCHANGED <<rowKind, items, entitled, lock, locals>>

Bug_CommitDeletesFirst(r) ==
    /\ Goto(r, "commit", "apply")
    /\ items' = [items EXCEPT ![key[r]] = {}]
    /\ UNCHANGED <<status, rowKind, lease, entitled, lock, locals, left, reply>>

\* The commit statement takes its READ COMMITTED snapshot ...
CommitSnapshot(r) ==
    /\ Goto(r, "commit", "apply")
    /\ seen' = [seen EXCEPT ![r] = items[key[r]]]
    /\ UNCHANGED <<rows, entitled, lock, key, kind, left, reply>>

Bug_CommitUnknownStatus(r) ==
    /\ Goto(r, "apply", "list")
    /\ items' = [items EXCEPT ![key[r]] = (@ \ seen[r]) \cup {r}]
    /\ status' = [status EXCEPT ![key[r]] = "complete"]
    /\ seen' = [seen EXCEPT ![r] = {}]
    /\ Timed(r, 0)
    /\ UNCHANGED <<rowKind, lease, entitled, lock, key, kind, reply>>

\* ... and then deletes the items of that snapshot, inserts its own and ends
\* the job.  claimed_at is left as it is.
CommitApply(r) ==
    LET k == key[r] IN
    /\ Goto(r, "apply", "list")
    /\ items' = [items EXCEPT ![k] = (@ \ seen[r]) \cup {r}]
    /\ status' = [status EXCEPT ![k] = "done"]
    /\ seen' = [seen EXCEPT ![r] = {}]
    /\ Timed(r, 0)
    /\ UNCHANGED <<rowKind, lease, entitled, lock, key, kind, reply>>

\* withAuth answers for a handler that threw.
InternalError(r) == reply' = [reply EXCEPT ![r] = Reply("500", {})]

\* The isolate dies, or a query throws: whatever the step had not committed is
\* lost, the advisory lock goes with its transaction, the claim stays.  The
\* client sees a 500 or nothing at all.
Die(r) ==
    /\ pc[r] # "idle"
    /\ pc' = [pc EXCEPT ![r] = "idle"]
    /\ lock' = [lock EXCEPT ![key[r][1]] = @ \ {r}]
    /\ seen' = [seen EXCEPT ![r] = {}]
    /\ InternalError(r)
    /\ Timed(r, 0)
    /\ UNCHANGED <<rows, entitled, key, kind>>

\* An entitlement change, as applied by the RevenueCat webhook.
SetEntitlement(u) ==
    /\ entitled' = [entitled EXCEPT ![u] = ~@]
    /\ UNCHANGED <<rows, lock, pc, locals, left, reply>>

\* Time passes.  When Timely holds a timed step ends before its time runs out.
Tick ==
    /\ Timely => \A r \in Requests : pc[r] \in Section => left[r] > 0
    /\ lease' = [k \in Keys |-> IF lease[k] > 0 THEN lease[k] - 1 ELSE 0]
    /\ left' = [r \in Requests |-> IF left[r] > 0 THEN left[r] - 1 ELSE 0]
    /\ UNCHANGED <<status, rowKind, items, entitled, lock, pc, locals, reply>>

-----------------------------------------------------------------------------
Handler(r) ==
    \/ Gate(r)
    \/ \E allowed \in BOOLEAN : Throttle(r, allowed)
    \/ ResolveLock(r) \/ ResolveLookup(r) \/ ResolveCount(r) \/ ResolveInsert(r)
    \/ ReadBack(r) \/ Replay(r)
    \/ Claim(r) \/ ClaimLost(r)
    \/ \E call \in Calls : CallSucceeds(r, call) \/ CallFails(r, call)
    \/ MarkFailed(r)
    \/ CommitSnapshot(r) \/ CommitApply(r) \/ List(r)

Client(r) == \E k \in Keys, kd \in Kinds : Start(r, k, kd)

Next ==
    \/ \E r \in Requests : Client(r) \/ Handler(r) \/ Die(r)
    \/ \E u \in Users : SetEntitlement(u)
    \/ Tick

Spec == Init /\ [][Next]_vars

\* The platform runs every started request on and the clock goes on.
Progress == \A r \in Requests : WF_vars(Handler(r))
FairSpec == Spec /\ Progress /\ WF_vars(Tick)

\* On top of that: the user keeps asking for each photo (as the onboarding
\* teaser does, so that no subscription is needed), is admitted by the spend
\* throttle again and again, and neither a crash nor a provider outage repeats
\* for ever at the same step.
RetryingSpec ==
    /\ FairSpec
    /\ \A r \in Requests :
         /\ \A k \in Keys : SF_vars(Start(r, k, "teaser"))
         /\ SF_vars(Throttle(r, TRUE))
         /\ SF_vars(ResolveLock(r)) /\ SF_vars(ResolveLookup(r))
         /\ SF_vars(ReadBack(r)) /\ SF_vars(Claim(r))
         /\ \A call \in Calls : SF_vars(CallSucceeds(r, call))
         /\ SF_vars(CommitSnapshot(r)) /\ SF_vars(CommitApply(r))

-----------------------------------------------------------------------------
(* Properties.                                                             *)

\* Every variable keeps its type; statuses and kinds stay inside the CHECK
\* constraints of migration 0003.
TypeOK ==
    /\ status \in [Keys -> Statuses \cup {"absent"}]
    /\ rowKind \in [Keys -> Kinds]
    /\ lease \in [Keys -> Nat]
    /\ items \in [Keys -> SUBSET Requests]
    /\ entitled \in [Users -> BOOLEAN]
    /\ lock \in [Users -> SUBSET Requests]
    /\ pc \in [Requests -> Steps]
    /\ key \in [Requests -> Keys]
    /\ kind \in [Requests -> Kinds]
    /\ left \in [Requests -> Nat]
    /\ seen \in [Requests -> SUBSET Requests]
    /\ reply \in [Requests -> [code : Codes, items : SUBSET Requests]]

\* The lease outlives the longest claimed section: four sequential provider
\* calls and the transaction that ends the claim.
LeaseCoversParse == 4 * CallTime + DbTime < Lease

\* The paid section is entered by one request at a time per photo, so the
\* vendors are never paid twice for concurrent submissions of one photo: the
\* claim of parse-jobs.repo.ts admits a second request only after the lease.
SingleFlight ==
    \A r1, r2 \in Requests :
        pc[r1] \in Section /\ pc[r2] \in Section /\ key[r1] = key[r2] => r1 = r2

\* A request inside the paid section still owns its row: it reads 'processing'
\* and its lease has not run out, so neither markFailed nor commit, which
\* update by id alone, can hit a row another request has taken over or ended.
ClaimCoversSection ==
    \A r \in Requests :
        pc[r] \in Section => status[key[r]] = "processing" /\ lease[key[r]] > 0

\* The hard teaser cap of migration 0012: however many requests of a user race,
\* never more than TeaserCap of the user's rows are teaser rows.
TeaserCapHeld == \A u \in Users : Cardinality(TeaserRows(u)) <= TeaserCap

\* A 200 carries the garments of the photo asked for, and exactly one set of
\* them, whether the request parsed the photo or replayed a finished job.  The
\* pipeline alone: a merge of duplicates (0011:111) may later delete a garment of a
\* finished job, and a replay then answers 200 with fewer or none.
AnswerCarriesGarments ==
    \A r \in Requests :
        reply[r].code = "200" =>
            /\ reply[r].items = items[key[r]]
            /\ Cardinality(reply[r].items) = 1

\* Once done a job stays done with the garments it was committed with: no late
\* failure, second commit or new claim touches it.
DoneIsFinal ==
    [][\A k \in Keys : status[k] = "done" =>
            status'[k] = "done" /\ items'[k] = items[k]]_vars

\* The pipeline never loses garments once committed, even if a request outlives
\* its lease: a later commit replaces them in one statement.
GarmentsSurvive ==
    [][\A k \in Keys : items[k] # {} => items'[k] # {}]_vars

\* A user who keeps resubmitting a photo gets it parsed in the end.
EventuallyDone == \A k \in Keys : status[k] # "absent" ~> status[k] = "done"

-----------------------------------------------------------------------------
(* The pipeline implements ParseOnce.                                      *)

Phase(s) == CASE s = "absent" -> "none" [] s = "done" -> "done" [] OTHER -> "open"

Once == INSTANCE ParseOnce WITH
            phase <- [k \in Keys |-> Phase(status[k])],
            workers <- [k \in Keys |-> Workers(k)],
            result <- items

\* Seen from the photo, the requests, leases and crashes of the pipeline are
\* one attempt at a time and a single, final result.
ImplementsParseOnce == Once!Spec
=============================================================================
