# Closet, specified

TLA+ models of the Closet wardrobe application, the TLC runs that check them and
the TLAPS proofs about them. Paths below are relative to `packages/` of the
repository unless they start with another top-level directory.

Closet turns photos of outfits into a wardrobe. A phone (Expo, `mobile`) screens
the user's photos on the device, uploads those she approves and posts them to
Edge functions (`functions`, bound to Deno in `supabase/functions`). These call
paid vision and cutout providers and keep their state in Postgres (`db`: 18
migrations, row-level security, a few plpgsql functions). RevenueCat reports
purchases through a webhook. `shared` holds the schemas and the pure rules both
sides use.

## 1. Inventory

### Server

| Part | State | Operations | Who it meets |
|---|---|---|---|
| Parse pipeline (`functions/src/parse/parse-photo.ts`, `db/src/repos/parse-jobs.repo.ts`, migrations 0003, 0012) | a `parse_jobs` row per (user, photo hash) with status, kind, `claimed_at`; the `wardrobe_items` it produced | gate on entitlement, throttle, resolve (cap of teaser jobs under an advisory lock), replay, claim with a lease, four provider calls, commit, mark failed | itself: requests for one photo, or for several photos of one user, race; crashes leave claims behind |
| Spend throttle (`parse/rate-limit.ts`, migration 0015) | one counter row per (user, scope) | `consume_rate_token` | concurrent calls on the row, with clocks of different age |
| Billing webhook (`billing/revenuecat-webhook.ts`, migrations 0008, 0009, 0016) | the ledger `webhook_events`, a `subscriptions` row per user | authenticate, validate, map the type, `apply_webhook_event`, answer | RevenueCat: duplicates, reordering, retries; account deletion |
| Wardrobe store (migrations 0002, 0004-0006, 0010, 0011, 0017, 0018; `db/src/repos`) | garments, outfits, their items, the append-only wear log | list, availability, merge of duplicates, create/rename/delete outfit, log wear | requests of one user from several devices, retries |
| Account (`account/delete-account.ts`, `export-data.ts`, migration 0014) | none of its own | delete everything of a user, export | every other writer |
| Listing (`wardrobe/list.ts`, `db/src/repos/pagination.ts`) | none: the cursor is the last garment of a page | one page | the writers of the wardrobe |
| Palette (`palette/`, `db/src/repos/palette.repo.ts`) | one row per user | read, upsert | - |
| Authentication (`auth/withAuth.ts`) | a cached key set | verify a token, bind its subject | every handler |
| Executor (`auth/executor.ts`) | none | one transaction per query | every handler |
| Provider adapters (`adapters/`) | none | retry a call under its timeout; vouch for an answer | the parse pipeline |

### Phone

| Part | State | Operations |
|---|---|---|
| Photo intake (`mobile/features/onboarding`, `mobile/src/photo`, `shared/src/approvedPhoto.ts`) | screened and approved photos, ids set aside, runs of the confirm loop | import (pick, screen, admit), approve, confirm (mint, upload, parse, clear) |
| Session (`mobile/src/session`) | the auth session, the gate | initial read, change events, sign in and out |
| Client and cache (`mobile/src/api`) | cached queries, writes in flight | fetch, invalidate, retry, clear |
| Closet, today's look, outfits, laundry, account, and the add screen's writes (`mobile/features`) | filter, sheet, draft, basket of the mounted screen | filter, set a status, merge or keep duplicates, wear a look, build, rename and delete outfits, clean a load, answer the quiz, delete the account |
| Paywall (`mobile/features/monetization`, `mobile/src/billing`) | an offer, a notice | purchase, restore |
| Styling rules (`shared/src`: dedupe, suggestion, harmony, colorFamily, palette, swatchQuiz, suggestionNote, suggestionRationale) | none | pure functions |

The phone calls the server with the token it holds when it sends; the server
knows nothing of the phone between two requests. The screens meet in the query
cache: each observes some of its entries, and a write invalidates what its hook
lists, wherever she is by then.

### What is hard

On the server what can go wrong comes from the design rule "one query, one
transaction": a request is a sequence of transactions with provider calls between
them, and any other request may come in between. The mechanisms that hold it
together are few: an advisory lock, a claim with a lease, `ON CONFLICT` on unique
keys, foreign keys, and a monotonic guard on a time stamp. On the phone it comes
from time passing between a tap and its answer: the screen may be gone, the cache
refetched, the account deleted. The hazards are listed with their lines in
`PROJECT.json`; in groups they are

* two requests paying for one photo, a request outliving its lease, a crash
  between claim and commit;
* the count-then-insert of the teaser cap;
* the boundary of the rate window and calls whose `now()` is old;
* webhook events duplicated, reordered, or failing half way;
* merges of garments between the statements of which a wear is logged, an
  outfit is created or the keeper is merged away; taps sent twice;
* an account deleted statement by statement while a parse, a wear or an outfit
  commits or waits half way through its keys, and deleted twice at once;
* a listing whose pages are read while garments come and go;
* a provider that stalls, fails, or answers 200 with something else;
* a confirm loop that works on the photos of the moment she pressed the button
  while the tray goes on changing;
* cached rows that a write, a deletion or another sign-in has made untrue; a
  basket and a draft that outlive the list they were chosen from;
* rules that may only break ties, signed hashes, a wheel of hues that wraps.

What makes each part correct: a photo is paid for by one request at a time, its
result is final and every 200 carries it; no user has more teaser jobs than the
cap; a window admits its limit and not one more; the subscription is the newest
event consumed, and an event is consumed once; the wear log never changes and a
merge never drops a reference; a deletion that was answered 200 has left nothing
of what was there and nothing refers to what is gone; a listing has everything
that stayed; the phone uploads nothing the user did not approve, shows no photo
the screener refused, invalidates what its answered writes change, and names
no garment that went with a deleted account; today's look is as warm as the weather asks, and
what is said about it is so.

## 2. Modules

| Module | What it is |
|---|---|
| `ParseJobs` | the parse pipeline, one action per await of the handler |
| `ParseOnce` | what it promises for one photo: one attempt at a time, one final result |
| `RateLimit` | the fixed window of migration 0015 |
| `Entitlement` | webhook deliveries over the ledger and the subscriptions |
| `EntitlementOnce` | what they promise: an event is consumed at most once, the newest stands |
| `WardrobeStore` | garments, outfits and wear log of one user: merges, taps, outfits, with their row locks |
| `PhotoIntake` | the add-garment screen of the phone: import, taps, confirm loop |
| `AccountData` | the rows of an account: the deletion, the inserts beside it, the paged listing |
| `Providers` | a provider call with its attempts, and the four calls of a parse |
| `ColorRules`, `Suggest`, `Duplicates` | the pure rules: colours and palettes, today's look, duplicate photos |
| `Lists` | sorting by a strict order and summing, as those rules and the transport use them |
| `Rules` | one question to one of these rules at a time, and what each answer must be |
| `PhoneServer` | what the edge functions do with one request of the phone |
| `PhoneCache` | the query cache, react-query as the hooks use it |
| `PhoneDraft` | the outfit draft and the laundry basket |
| `Phone` | the app: session gate, tabs, cache, writes in flight, over the three above |
| `MCParse`, `MCRateLimit`, `MCEntitlement`, `MCWardrobe`, `MCIntake`, `MCAccountData`, `MCRules`, `MCPhone` | instances for TLC |
| `ParseJobsProofs`, `RateLimitProofs`, `EntitlementProofs`, `WardrobeProofs`, `PhotoIntakeProofs`, `AccountDataProofs`, `PhoneProofs`, `RulesProofs` | theorems and proofs |

`PROJECT.json` maps every definition to the lines it stands for.

### ParseJobs

A request is a process with a program counter `pc[r]`; each step is one query,
hence one transaction (`makePgExecutor` wraps every `query()` in BEGIN ...
COMMIT), or one provider call. `resolve_teaser_job` is four steps of one
transaction, because under READ COMMITTED every statement of a plpgsql function
sees a fresh snapshot and other transactions commit between them; the advisory
lock is `lock[u]`, released with the transaction. `claimed_at` is kept as the
ticks left of the lease, so the clock needs no bound. Garments are abstracted
to the request that committed them. `commit` is two steps: the statement fixes
its snapshot (`CommitSnapshot`), then deletes what it saw, inserts its own and
sets `done` (`CommitApply`). `Die` may happen anywhere: the isolate is gone or a
query threw; the open transaction is rolled back, the claim stays.

The code has no fencing: commit and markFailed update by id. What protects a
row is time alone, and the model says so. The constant `Timely` bounds each step
of a claimed request (`CallTime` for a provider call with all its retries,
`DbTime` for the transaction that ends the claim). Properties that need it are
checked with `Timely = TRUE` and proved under `Timely /\ LeaseCoversParse`; the
others are checked and proved without.

### RateLimit

One counter row. A call is a transaction: `Begin` fixes its `now()`, the upsert
(`OpenWindow` or `Increment`) runs later, under the row lock, with that old
`now()`. Times are ages relative to the clock. `MaxCount` caps the counter (above
`Limit` every value behaves alike), `Delay` bounds how long a call waits.

### Entitlement

A delivery is a process: `Handle` (secret, schema, type map), `ClaimId` (insert
into the ledger, which waits for an uncommitted insert of the same id),
`WriteRow` (the guarded upsert, which waits for the row lock), `Commit`, `Ack`.
`Fail` rolls back and loses the answer. Both writes become visible in `Commit`.
The events, with their users, stamps and types, are chosen in `Init`, so every
combination is checked. `DeleteAccount` removes the row and keeps the ledger, as
migration 0014 does. `decided` and `since` are history variables.

### WardrobeStore

A request (`pc[r]`, `job[r]`) is a transaction. A statement that writes is one
step and the commit another; what it has written and not committed is in
`moved[r]`, `dropped[r]` and `repointed[r]` (and `job[r]`), its locks are derived
from those (`KeyShares`, `Deletes`, `HoldsMember`), and a statement that must wait
for a lock is not enabled. `merge_keep_one` is one step per statement, since each
sees a fresh snapshot: `StartMerge` (the checks, which lock nothing), `MergeWear`,
`MergeDups`, `MergeMembers`, `MergeDelete`, `CommitMerge` (with the cascade to
memberships the re-point has not seen). `InsertWear` either inserts or, finding a
committed row of its `client_id`, goes to the look-up in a second transaction.
What the database refuses (a foreign key, the unique key, a deadlock) is
`Rollback`, which may also happen at any time. `logged`, `composed`, `into` and
`flips` are history: what was tapped, what an outfit was created with, which
garment stands for which, how often a tap made a garment dirty.

Left out: names (the rename is in `PhoneServer`), slots and positions, and the insertion of
garments, which is the commit of `ParseJobs`. Two writes of one laundry status
are ordered by their commits.

### PhotoIntake

The screen runs on one JavaScript thread: a handler runs to its next `await` in
one step, and between two awaits she may tap whatever the screen shows, which is
`Stage`. An import is `ImportPhotos`, `Pick`, `Screen` (with the whole of
`admit`). A press of the button is a run `c` of `confirmApproved`: `Confirm` takes
the photos approved at that moment (the closure of the handler), then each goes
through `hash`, `upload` and `parse`; `Advance` is the head of the loop, where
`approvePhoto` refuses anything but a `candidate`. `isPending` belongs to the
mutation started last, so while a photo is hashed the grid is shown and a second
run may be started. `confirmed`, `consented`, `refused` and `dropped` are history.

The picker and the screener are the port of `PhotoIntakePort.ts`: any photos, one
verdict each, ids stable within a session. The native port is narrower in verdicts
(always `undetermined`, so nothing is minted: `README.md:213` of the repository
says so) and wider in ids (a fresh one for each pick); the model speaks of the
screen under the contract. The `unavailable` stage (no picker in the build, a
constant), the brands of the types, messages and the unmounting of the screen are
left out.

### AccountData

Rows are model values with a table, an owner and the rows they refer to. An insert
is one statement whose rows have their keys checked one after the other:
`CheckKey` takes one more row it refers to (the `KEY SHARE` of a foreign key) and
keeps it in `taken`, waits while a deletion has that row, and fails when it is
gone; `CommitInsert` follows when it has them all. The deletion is
`DeleteMyAccount` (the token, the confirmation, the first statement's snapshot),
`TakeRow` for each row, `EndStatement` (the foreign keys act: `Cascades`,
`Refused`) and `CommitDelete`; or `Abort` when a key refuses. `Waits` is the
waits-for graph of deletions and inserts; when some of them form a ring
(`Deadlocked`), of whatever length, any one may be taken back (`DeadlockDetected`,
`InsertDeadlocked`). A statement sees what was committed when it began, so what
commits between two statements is seen by the later ones only. `before` and
`later` are history: what was committed when the deletion began, and while it ran;
`kept` is what stayed during a listing.

Three things the model showed and the comments do not say. The foreign key of a
garment's parse job is a composite `ON DELETE SET NULL` without a column list
(0003:45-48): it nulls `user_id` as well, which is NOT NULL, so the deletion of a
job a garment still names raises instead of leaving "the garment intact"
(0003:43-44). It takes a parse that commits between the fourth and the fifth
statement of a deletion, which is then taken back as a whole; she is told it
failed, and may try again. (0018 corrected the same form for `wear_log`.) Two
copies of the deletion can deadlock on an outfit created between the second and
the third statement; Postgres aborts one. And an outfit of two garments can
deadlock with a single deletion: it has checked the one garment and the deletion's
scan the other (`outfits.repo.ts:84`, `0014:124`), and if the deletion is the one
taken back she is told that it failed, though nothing was committed meanwhile.
`QuietDeletionSucceeds` says that beside inserts and its own copies nothing else
makes a deletion fail: something was committed while one of the copies ran, or an
insert held some of its rows and not all.

A refused call (401, 400) changes nothing and is no step. Rows are scanned in the
order of `Place` by every statement. The `outfit_id` of a wear (SET NULL since
0018) is not among the references. Of a merge only the DELETE of a garment that
nothing names is a step here (`MergeAway`): one that re-points wears and
memberships first takes rows of several tables too, and may make a deletion wait,
or deadlock with it, in ways these properties do not speak of. Upserts of the
palette and of the subscription are not among the writers. `MaxPages` is never
reached, so that a listing of more than that is cut short without a word
(`client.ts:206`) is not among the checks.

### Providers, ColorRules, Suggest, Duplicates, Rules

Pure functions, so `Rules` has one variable, the question, and one step per kind
of question; the answer is computed by the operators and the invariants compare it
with a reference definition or with what the app says of it. A provider's answers
are a sequence of responses, stalls and failures, and time is counted in ticks of
the timeouts. Recursive walks are folds or sums. The wheel has the code's 12
hues and the temperatures, warmths and scores are the code's; a hash has
`PhashBits` bits, four in the runs, with a threshold of one.

### Phone

One person at one phone. `gate` is the `SessionProvider`, `auth` the session the
library keeps, `tab` the active screen, `ui` what that screen holds in `useState`
and loses when it is left, `cache` the query client, `calls` the mutations in
flight. A write takes three steps, sent, served and landed, and between them she
does what the screens offer. `watched` says that the screen that sent it is still
up and its hook follows this write: only then do the screen's own callbacks run,
while the hook's invalidations always do. From the add tab `ConfirmApproved` sends
the parses of a run one after the other (`useAddGarment`, whose parse and
invalidation are those of `useParsePhoto`); the run goes on when she has left the
screen. A photo stands for the garment it shows, `unmade` until a parse makes its
row. A fetch is sent with the token of that moment, read by the server, and
landed. `PhoneServer` gives the server's side in one step, since the races of
requests are the subject of `WardrobeStore` and `AccountData`.

`Consistent` is what foreign keys guarantee of the store a scene starts from, and
`purged` is history: the garments that went with a confirmed deletion.

Three simplifications: the second try of a query (`retry: 1`) is part of
`FetchFails`; a sheet, the review of duplicates, the page of a look and typing
DELETE open and act in one step; the server's rows are sets of pairs. `owed` names
the entries whose rows the code is known to leave behind, so that `SeenIsTrue`
speaks of the others only, which makes it a statement about what each hook
invalidates: a merge refreshes neither looks nor recent wears
(`hooks.ts:106-115`), a write whose answer was lost refreshes nothing, and an
invalidation that meets a first fetch or an unobserved fetch in flight lets the
old rows land as fresh ones.

What reading and the model showed, without a property that would be false:

* Signing out clears nothing: the next person on the phone is shown the cached
  rows of the one before until they are refetched. The comment of
  `hooks.ts:221-222` speaks of the deletion, which does clear; `client.ts:336-342`
  shows the same concern for the token.
* If she leaves the account screen while a deletion is under way, its callback is
  dropped (`AccountScreen.tsx:154-165`): the account is gone, the cache is
  cleared, she stays signed in.
* "Nothing has changed" (`AccountScreen.tsx:49`) is untrue when only the answer was
  lost. `hooks.ts:216-219` says a second call would fail with a 500; the function
  and `account.repo.ts:30-31` are idempotent.
* A save whose answer was lost and that she taps again is a second look, since the
  id is minted at each tap (`OutfitBuilderScreen.tsx:165`).
* The laundry loop sends what was selected when it began and then empties the
  basket, later selections included. A garment that became dirty again meanwhile is
  cleaned by it.
* Logging a look stops at the first failure; tapping again logs the first pieces
  again, with new ids.
* A quiz in flight when the account is deleted creates its palette row anew, and a run
  of photos in flight makes its garments anew, for an account that was erased; they
  come into the cache if she is still signed in. `DeletedLeavesNoTrace` is about the
  garments she had.
* Two renames of a look take effect in the order they arrive.
* A look beyond the fiftieth is not listed (`outfits.repo.ts:189`).

## 3. Runs

| Run | Question | Instance |
|---|---|---|
| `ParseRace` | single flight, lease, final result, refinement of `ParseOnce` | 3 requests, 1 photo, each call at most 1 tick, lease 6 |
| `ParseLate` | what holds when a request outlives its lease: cap, committed garments | 2 requests, 2 photos, cap 1, lease 1, no time bounds |
| `ParseEventually` | an abandoned claim becomes claimable; a user who keeps trying gets her photo | 1 request that is resubmitted for ever, fair and retrying |
| `RateWindow` | exact admission, at most twice the limit over a boundary, refusals do not extend the window | 3 callers that hammer, limit 2, window 4, delay 1 |
| `WebhookOrder` | newest stands, once only, refinement of `EntitlementOnce` | 3 events, 2 deliveries at a time, stamps 1..2 (ties included) |
| `StoreRaces` | wear history, dangling references, retried taps | 2 garments, 1 outfit, 1 tap, 3 requests, one pair to merge |
| `MergeOpposite` | the keeper of a merge is in the wardrobe, when devices disagree (a violation) | 2 garments, 2 requests |
| `IntakePass` | refused photos stay hidden, only approved ones are sent, none is skipped | 2 photos, one of a library scan, 2 runs of the confirm loop |
| `AccountData` | whole deletion, no orphans, only on her word, exact listing | 2 copies of a deletion, 3 inserts (an outfit of two garments, a parse of two, a wear), 1 garment to merge away, pages of 2, tokens good and bad |
| `Rules` | the pure rules against what they promise | closets of 3 garments, looks of up to 3 colours, scans of 3 photos, `MaxRetries + 1` attempts a call, 4 calls a parse |
| `WhyThis` | "leaned toward your palette" only when the palette changed the look (a violation) | as `Rules` |
| `Phone` | answered writes leave no stale row fresh, a deletion leaves no trace, the basket is in the hamper, saved looks can be worn | 11 scenes, 3 garments, 2 looks, 2 users, 2 writes in flight |

Why these bounds are enough. Three requests are needed for "one works, one
waits for the lease, one replays"; with a fourth nothing new can meet, since a
row relates only its claimant and one competitor. Lease 6 is the smallest that
satisfies `LeaseCoversParse` for one-tick calls (4 + 1 < 6); `RateWindow` uses
the largest span the bound is true of (`Span + Delay <= Window + 1`): one tick
more and TLC finds the burst of a third window. Two stamps suffice for older,
equal and newer. In the store three requests let a merge meet a tap and its
retry, or two other merges; one tap is enough for `WearHistoryKept`, which speaks
of one tap at a time (and is proved for any number). Chains of merges, which need
a third garment, are too many states beside three requests; `WearHistoryTheorem` and
`NoStrangersTheorem` cover them for every number of garments. In
the add-garment screen two photos let one be sent while the other is tapped,
refused or picked again, and two runs overlap; its three properties are proved
for any number.

`AccountData`: two deletions are a request and its retry, and are interchangeable.
The rows are one of each table that a foreign key joins, a palette, and a garment of
a stranger; the three inserts are the three shapes of reference (a garment to its
job, a membership to its outfit and garment, a wear to its garment) and each may
check a key or commit between any two steps of a deletion. The outfit refers to both
stored garments, in either order, which is what it takes to deadlock with a scan of
them. Pages of two against four garments, two with
one stamp, make a listing of up to three pages with a merge, a parse and a deletion
between them.

`Rules`: a garment is one of six kinds, chosen to differ in slot, warmth,
availability and colour, and one has a category the schema does not know. Three
photos make a chain in which the first is near the second, the second near the
third and the first not near the third. The attempts are one of each kind the
retry distinguishes (answered, throttled, refused, down, cut off, hanging before
or after the headers, late but in time, incomplete).

`Phone`: a scene fixes the tabs, the users, the wardrobe and how many actions,
moves between tabs, lost messages and ageings there may be (`left`); each scene is one
of the races worth having, since all tabs at once have too many states. Two writes
in flight are needed for one to land in the other's refetch, a second user
for what the first one leaves on the phone, and photos not yet parsed for a garment
to be made around a deletion, by somebody who may leave the account screen and stay
signed in; in another scene parses are lost or turned down.

`CHECK_DEADLOCK` is on everywhere but in `Phone`, whose behaviours end when the
bounds of their scene are used up. In `AccountData` a state where all requests
have been answered may stutter (`Settled`), so a deadlock there would be a
transaction that waits for ever.

Two runs are expected to fail.

`MergeOpposite`: the existence checks of `merge_keep_one` lock nothing, so two
overlapping merges of one pair that keep opposite garments, neither with wear or
outfits, delete both. Not reachable from one screen, whose buttons are disabled
while a merge is pending; it takes two devices or a client-side timeout.

`WhyThis`: the look without her palette, to which `SuggestionsScreen.tsx:161`
compares today's look, is picked without what she wore recently too. A look that
changed only because a garment was worn this week is then explained by her palette,
which the comment at 142-145 rules out. `NoteIsHonest` and `FreshClaimIsTrue` say
what does hold of the other reasons.

Three more divergences that reading and earlier models showed, without a run:

* The comment that derives `CLAIM_LEASE` (`parse-jobs.repo.ts:24-26`) counts three
  sequential provider calls; the handler awaits a fourth, the signed URL of the
  photo (`parse-photo.ts:232`). The lease of ten minutes covers four, as
  `SettlesInBudget` checks, so it is the derivation that is out of date.
* A merge re-points the memberships it can see (`0011:111`). One of an outfit that
  is inserted and not committed is invisible to it; the DELETE waits for it and
  cascades it away. The wear log is safe from the same race because its foreign
  key restricts instead (`WearHistoryTheorem`).
* A run of the confirm loop works on the photos approved when it was started and
  clears the tray as it is when it ends (`AddGarmentScreen.tsx:138`). A photo
  approved while another is hashed is cleared without having been sent. For the
  same reason a photo withdrawn, or refused by an import, while a run is under way
  is still sent by it: `OnlyConfirmedSent` says what does hold, that it had been
  approved when she pressed the button and had passed the screening of then.

### Fairness

* `ParseJobs!FairSpec`: a started request runs on (weak fairness of its handler)
  and the clock goes on. `RetryingSpec` adds what "keeps trying" means: the user
  resubmits, and no single step (throttle, a provider call, a transaction) fails
  every time it is tried - strong fairness, since crashes disable a step again
  and again. Fairness of the subscription or of a particular order is not
  assumed.
* `RateLimit!HammeringSpec`: clients call again and again, a call that is open
  infinitely often goes through infinitely often, time passes.

No other run states fairness: their properties are of safety.

## 4. Proofs

All theorems are about `Spec` for arbitrary constants satisfying the named
assumptions.

* `TypeCorrect` (ParseJobs and Entitlement): needed by all others.
* `TeaserCapTheorem`. The cap itself is not inductive. `CapInv` adds that a
  request at `count` or `insert` holds the user's lock and nobody else does
  (`LockHeld`), that one past the count still has room (`RoomLeft`), and that a
  request past the resolve has a row (`RowExists`). No timing assumption: an
  advisory lock lives and dies with its transaction.
* `SingleFlightTheorem`, under `Timely` and `LeaseCoversParse`. `FlightInv` says
  that a request in the section owns a `processing` row whose lease exceeds
  `Rest[pc] + left`, the most time the remaining steps can take. A claim needs a
  lease of 0, so a second request cannot enter.
* `LockTheorem` and `GarmentsSurviveTheorem` assume nothing of the clock, so they also
  cover the runs in which a lease is outlived. The advisory lock is held
  by exactly the request inside the resolve (`LockReturned` is the half that excludes a
  leak; without it every later request of that user would wait for ever); a commit that
  replaces another's garments brings its own. These theorems, and those of the next
  item, are about the pipeline: a merge of duplicates (`0011:111`) may later delete a
  garment of a finished job, whose replay then answers 200 without it, and an account's
  deletion (`0014:128`) takes the jobs, and with them the count of the teasers spent.
* `DoneIsFinalTheorem`, `AnswerTheorem`, `RefinesParseOnce`, same assumptions:
  `ResultInv` ties the items of a row to its status and to the requests past
  their commit.
* `ExactAdmissionTheorem`: `ExactAdmission` with the type of the counter is
  inductive. The history `recent` counts the
  admissions of the last `i + 1` ticks. `BurstInv` says, for every `m`, that what was
  admitted in the last `age - Delay + m * Window` ticks is at most `m` limits more than
  the window that is open has admitted: a window is at most `Delay` old when it is
  opened, so whoever opens the next one finds the bound for `m` and leaves that for
  `m + 1`. `SpendTheorem`: a span that fits in `m` windows less `Delay` (and one tick)
  sees at most `m + 1` limits. `BurstTheorem`, under `SpanHoldsTwoWindows`, is its case
  `m = 1`. The bound is the best there is: with the constants of `RateWindow` and
  `m = 2` TLC reaches it, and passes it in a span one tick longer.
* `LedgerTheorem` (`ConsumedOnce`): `LedgerInv` says that one delivery at a time is
  behind the claim of an id and that an answer is given only for a consumed event.
  `NewestTheorem`: `RowInv` says that a delivery waiting to commit has compared
  itself with the row as it still is. `RefinesEntitlementOnce` follows: every
  step is a consumption, a deletion or a stutter. `ForwardTheorem` says of the
  steps what `NewestTheorem` says of the states: a row that changes is deleted, or goes to an
  event not consumed before and no older, since the row that was compared is locked
  until the commit (`RowInv`).

* WardrobeStore: `LockInv` says what the locks guarantee while transactions are
  open: an uncommitted tap is the only one of its `client_id` and its garment
  stays (`HeldWear`); a merge that moved wear rows keeps its keeper (`HeldKeep`)
  and owns those rows (`MovedRows`); once it has deleted its discard it has all
  wear rows of it and nobody is about to point at it (`Deleted`). `TypeCorrect`
  needs it, since a tap writes the status of its garment. `WearHistoryTheorem`
  adds that a garment still there stands for itself. `DirtiedOnceTheorem`: only
  a committed tap has flipped. `KeeperTheorem` assumes a ranking that all merges
  descend: the invariant is that `into[g]` is present and ranks no higher than
  `g`, so the keeper's own stand-in can never be the garment deleted.

* PhotoIntake: `GridInv` (what is on the grid was admissible and is not among the
  ids set aside) gives `RefusedTheorem`. `ConsentInv` says of every open run that
  what is ahead of it was confirmed, and what was confirmed is ahead of it or
  sent; `ConsentTheorem` and `NothingSkippedTheorem` follow. Runs touch each other
  only through what is sent and consented to, which grow (`OtherRun`).

* AccountData: `AccountInv` is what the locks and the seven statements keep while
  inserts and deletions are open. `Held4Insert`: what an insert refers to stays until
  it commits. `Taken`: no row is deleted by two. `Cascaded`: a statement that has
  ended leaves no row that refers to one it deleted, since each table that refers
  was either emptied before, is cascaded, or makes the statement fail. `Swept`: a row
  of the beginning is taken, in the current scan, in a later statement's table, or has
  come anew. `HerRows`: a deletion holds rows of the caller whose token was genuine.
  `RowAssumption` names the keys between tables (0003, 0005, 0006) and
  `BatchAssumption` says that inserts make rows of their own. `NoOrphansTheorem`,
  `DeletionIsWholeTheorem` and `OnlyOnHerWordTheorem` follow; their number of rows,
  deletions and inserts is arbitrary.
  * `QuietDeletionTheorem` adds `HersKnown` (what the account has was there at the
    beginning or came during the deletion) and `Scanned` (a deletion is through the
    tables before its statement's, and through the places before those it still has to
    take). `KeyOrder`: the table that refers comes first, so no key refuses and nothing
    is left to cascade to (`NoChildren`); copies take rows in the same order, so one
    waits only for one that is `Further` in statements and places. That orders them
    strictly (`FurtherOrders`), and of finitely many some has the fewest ahead of it:
    `NoRingTheorem`, for rings of any length. A ring of waits therefore has an insert in
    it (`QuietRings`), and in a smallest ring that insert is waited for, so it holds a
    row, and waits, so it lacks one: the second half of the property. Without that half
    TLC finds the deadlock of an outfit of two garments with one deletion, and once
    something is committed meanwhile that of two copies, so both conditions are needed.
    `PlaceAssumption`: rows of a table lie at distinct places, and
    `TransactionAssumption`: a deletion is no insert and there are finitely many.
  * `ListingTheorem`. `Nth` is the garment with `n - 1` before it in the order of the
    keyset; that every place is taken (`NthRank`) follows by counting, since the rank is
    an injection between sets of one size. `ListingInv`: the garments listed are in
    order, and one of the first page's that is not listed lies behind the cursor. The
    last page is reached since the client's 100 pages hold any wardrobe
    (`ListingAssumption`); past that a listing is cut off, and the theorem says nothing.
  * `TypeTheorem` is `TypeOK`, from both invariants.
* `NoStrangersTheorem` (store). `NoStrangers` is not inductive while transactions are
  open. `MemberInv` adds that the garments of a look not committed stay
  (`HeldOutfit`), that memberships a merge has re-pointed stay (`HeldMembers`), and
  that a merge about to commit leaves no membership of its discard (`Cleared`). The
  first attempt failed, for a good reason: after a merge's DELETE has cascaded to
  memberships it still holds their rows, and the model let the deletion of the look
  slip past them. Now they are held until the merge commits (`HoldsMember`) and
  `DeleteOutfit` waits, as PostgreSQL does. `RetriedTapTheorem`: whoever lost the race on a `client_id` finds
  a committed row, since the winner's row is kept by `WearHistoryTheorem`'s invariant.
* `GarmentsSurviveTheorem` (parse pipeline) needs none of the timing assumptions: a
  commit removes what its snapshot held only together with adding its own.

* PhoneProofs. `TypeInv` is the type invariant in the shape the proofs use: a
  request is one its hook sends, rows are of their key, and `ui` and the drafts
  belong to the tab that is up. One lemma per group of actions shows that it is kept
  and how a step may touch the cache. `Kept(e, f)`: an entry is as it was, or is
  no fresher, and `Quietly`: a step writes nothing on the server and only keeps
  entries. `StepKinds` says that every step is quiet, a fetch, a request served or an
  answer landing, so each theorem below has four cases in place of thirty.
  * `SeenTheorem`, with the exceptions of `owed` (section 2): `Truth` adds to
    `SeenIsTrue` the fetches under way: rows that were read and have not arrived are the server's too, unless a write that changes them
    has yet to be answered (`Faithful`, `Quiet`). `ServeFrame` says which lists a
    request leaves alone, and `AffectedIsRefreshed` that its hook invalidates the
    others when the answer lands.
  * `TraceTheorem`: `NoTrace` adds that garments which went with a confirmed deletion
    never have a row again (a parse makes a garment of its own, with its own id), and
    that no fetch that has been read carries one (`Bare`). What makes it hold is that
    `LandErase` drops the fetches in flight with the cache, those that read before the
    deletion included, and that later ones read a store without her rows.
  * `BasketTheorem`: `BasketInv` is about the list in the cache, whether or not the
    screen is in its error state.
  * `LooksTheorem`: a create request already carries a look that can be worn, so
    what she builds afterwards does not matter. `TapTyped` and `DraftWearable` are
    about the builder's rules: one garment a slot, an anchor, and completeness.

* RulesProofs. `QuestionInv` says that the question on the table is one that can be
  asked; the rest is about the operators, for every input that satisfies the named
  assumptions. `Total` and the sets they quantify over are finite, so "the least
  counterexample" (`LeastIn`) takes the place of induction.
  * Sorting. `Sorted` puts at place n the element with n - 1 before it. For a strict
    total order each element has a place of its own (`PlaceOrder`), so there is one
    result, whatever the order of the input (`SortedIs`, `SortedOrder`).
    `BeforeOrders` and `CloserOrders` show that the two comparators of the code are
    such orders, thanks to the ids they end with (`ClosetAssumption`: ids of one closet
    are distinct).
  * `WeatherTheorem`. The look is the first n of the ranking by warmth, so at any level it has as many
    garments of at least that warmth as any n garments can have (`WarmestFirst`);
    summed over the levels that is its aggregate (`LayerCake`). A colder day asks for no
    fewer layers, hence a longer prefix.
  * `FreshTheorem`. At the first place where the ranking with and without her wears
    differ (`FirstDifference`) the two garments tie in warmth and in palette, one is fresh and the
    other, not yet seen, is not.
  * `NoteTheorem`. The verdict has the least rank of all pairs (`WorstIs`), a harmony is
    symmetric, and forgetting the chroma of a colour can only turn neutral into
    clash. `LookAssumption`: a stored colour is a hex, a token or unreadable.
  * `SwatchTheorem`. The twelve swatches are computed from the quiz's saturation and
    lightness and classified back (`SwatchChannels`, `SwatchFamily`); the affinity is
    that of the nearest tapped hue around the wheel (`AffinityIs`).
  * `PairsTheorem`. Bits that differ are those of the one plus those of the other less
    twice the common (`DistanceIs`); a hash printed signed is the same word
    (`ParsedIs`, under `ScanAssumption`: it has the column's width); rows and near pairs correspond one to one (`RowsCount`).
  * `BudgetTheorem`. An attempt takes at most its timeout (`AttemptIs`), the waits are
    those of the attempts made (`WaitsAre`), so a call takes at most `WorstCall`, for
    whatever an environment variable is set to (`KnobAssumption` only says it is a
    number if it is readable). For the parse, `BudgetAssumption` compares the two constants of the
    code, the URL's lifetime and the lease, with two and four such calls: nothing in the
    code relates them, and a `PROVIDER_TIMEOUT_MS` of 50 seconds breaks it. With the
    defaults (15 seconds, 3 attempts, a URL of 5 and a lease of 10 minutes), which are
    those of the run in ticks of 250 ms, it holds.
  * `VouchedTheorem` has no assumption on the vendors at all.

`SpendTheorem`, `LockTheorem`, `ForwardTheorem` and `NoRingTheorem` state what no run
has among its properties; their definitions stand beside them in the proof modules.
`KeeperTheorem` is about the property that `MergeOpposite` violates, under the
assumption which that run breaks. Each was tried with TLC on a small instance before
it was proved.

Only model-checked: `EventuallyDone` and `NotLockedOut`, since liveness is out of the
prover's reach. `LeaseCoversParse` is an assumption of the theorems of the parse
pipeline, and `BudgetTheorem` is why it holds: the longest parse the adapters can take
fits the lease.

## 5. Not modelled

* The paywall screen and the RevenueCat port. The store and its SDK are outside the
  repository and the screen's own state is one switch. Read, not checked:
  nothing calls `Purchases.logIn` and the port configures the SDK with the key only
  (`revenueCatNative.ts:99-104`), while `billing.ts:39-42` of the shared schemas
  says the app sets `app_user_id` to the user's id and the webhook refuses any
  other with a 400; an account that is bought for but has no entitlement yet is
  `failed` (`revenueCatPort.ts:112`), which `PaywallScreen.tsx:219` reports as "You
  have not been charged"; the offering is fetched again for the purchase, so the
  price may differ from the one shown (`BillingPort.ts:13`); any introductory price
  is called a free trial; and after a purchase the entitlement is refetched once.
* Row-level security policies: access control, a filter on each statement. The
  models give every request its user's rows; `AccountData` and `Phone` keep a
  second user's beside them.
* The fetching of the signing keys, CORS, the comparison of the webhook secret, the
  nonces and sheets of the sign-in providers.
* Signed URLs of cutouts on the phone, the entitlement query, the export's hook and
  document (its snapshot is `ExportDocument`), the garbage collection of the cache, the
  filters of the wardrobe other than status.
* Of the add screen in `Phone`: a second run of the confirm loop while the first one
  hashes a photo (`PhotoIntake` has it), the reasons for which a parse is turned down
  (they are losses), and photos whose garment is gone: after a merge their parse makes
  nothing, after a deletion it makes a garment with an id of its own.
* Rendering, design tokens, wording, scripts and gates, the Deno shims.

## 6. Plan

Done: all components listed above as modelled or partly modelled, and every safety
property of every run proved. The parse's `LeaseCoversParse` and the adapters'
`BudgetAssumption` state one thing in two units (ticks of a clock, ticks of a backoff);
a shared clock would let the one be derived from the other.
