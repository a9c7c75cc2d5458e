------------------------------ MODULE Providers ------------------------------
(***************************************************************************)
(* The provider transport and the four adapters on it                      *)
(* (packages/functions/src/adapters): one call with its timeout and its    *)
(* bounded retry (http.ts), the signed URL of the original                 *)
(* (supabase-storage.reader.ts), the vision model (openai-vision), the     *)
(* cutout (photoroom-cutout) and its upload (supabase-storage.writer.ts).  *)
(*                                                                         *)
(* What a vendor does with one attempt is a record                         *)
(*   [status |-> HTTP status or 0 for a broken connection,                 *)
(*    head |-> ticks until the headers, body |-> ticks until the body,     *)
(*    says |-> what the body holds]                                        *)
(* and a call meets a sequence of them, one per attempt.                   *)
(***************************************************************************)
EXTENDS Lists

CONSTANTS RawTimeout,   \* PROVIDER_TIMEOUT_MS as set, in ticks
          RawRetries    \* PROVIDER_MAX_RETRIES as set

\* intAtLeastOrDefault: a knob that is not an integer of at least `minimum`
\* falls back; a missing or unreadable one has readable = FALSE.
IntAtLeastOrDefault(raw, minimum, fallback) ==
  IF raw.readable /\ raw.value >= minimum THEN raw.value ELSE fallback

\* resolveTransportDeps; a tick is BACKOFF_BASE_MS.
TimeoutTicks == IntAtLeastOrDefault(RawTimeout, 1, 60)
MaxRetries == IntAtLeastOrDefault(RawRetries, 0, 2)

IsRetryableStatus(status) == status = 429 \/ status >= 500

Bug_AttemptOnceBodyUntimed(vendor) ==
  LET ok == vendor.status = 200
      needs == vendor.head
  IN  IF vendor.status = 0 \/ needs > TimeoutTicks
      THEN [kind |-> "thrown", took |-> IF needs < TimeoutTicks THEN needs ELSE TimeoutTicks]
      ELSE IF ok THEN [kind |-> "value", took |-> needs + vendor.body]
      ELSE [kind |-> "status", took |-> needs]

\* One attempt under one timer.  The abort stays armed over the body read,
\* so headers followed by a stalled body end like a connection that hangs;
\* a status that is not OK is returned before the body is read.
AttemptOnce(vendor) ==
  LET ok == vendor.status = 200
      needs == IF ok THEN vendor.head + vendor.body ELSE vendor.head
  IN  IF vendor.status = 0 \/ needs > TimeoutTicks
      THEN [kind |-> "thrown", took |-> IF needs < TimeoutTicks THEN needs ELSE TimeoutTicks]
      ELSE IF ok THEN [kind |-> "value", took |-> needs]
      ELSE [kind |-> "status", took |-> needs]

\* Full jitter at its ceiling, in units of the base delay.
BackoffCeiling(attempt) == 2^attempt

ASSUME KnobAssumption ==
  /\ RawTimeout.readable => RawTimeout.value \in Int
  /\ RawRetries.readable => RawRetries.value \in Int
  /\ \A attempt \in 0..MaxRetries : BackoffCeiling(attempt) \in Nat

\* requestWithRetry: the attempt it stops at, and what comes of it.
LastAttempt(vendors) ==
  CHOOSE i \in 1..(MaxRetries + 1) :
    LET Again(j) == /\ AttemptOnce(vendors[j]).kind = "status"
                    /\ IsRetryableStatus(vendors[j].status)
                    /\ j - 1 < MaxRetries
    IN  ~Again(i) /\ \A j \in 1..(i - 1) : Again(j)

EndingAt(vendors, n) ==
  LET end == AttemptOnce(vendors[n])
  IN  [ok |-> end.kind = "value",
       says |-> vendors[n].says,
       calls |-> n,
       ticks |-> Total([i \in 1..n |-> AttemptOnce(vendors[i]).took], n),
       backoff |-> Total([i \in 1..(n - 1) |-> BackoffCeiling(i - 1)], n - 1)]
RequestWithRetry(vendors) == EndingAt(vendors, LastAttempt(vendors))

(* --- adapters ---------------------------------------------------------- *)
\* A body is "garbage" (no JSON, no envelope, an empty image), "partial"
\* (readable and wrong for the schema: a colour name, a URL of another host, a
\* PNG of no size or without alpha), "upper" (a colour in upper case, which
\* the vision adapter lowers) or "good".

\* mintSourcePhotoUrl: a key outside the caller's folder is refused before
\* any call, and only a storage-relative answer becomes a URL.
MintSourcePhotoUrl(owner, caller, call) ==
  owner = caller /\ call.ok /\ call.says = "good"

ExtractAttributes(call) == call.ok /\ call.says \in {"good", "upper"}

Bug_StoreCutoutUnread(bytes, caller, job, upload) ==
  [ok |-> upload.ok, objects |-> {<<caller, job>>}]

\* storeCutout: bytes nobody can vouch for are never uploaded; the object is
\* named by the verified user and the claimed job.
StoreCutout(bytes, caller, job, upload) ==
  IF bytes = "good" THEN [ok |-> upload.ok, objects |-> {<<caller, job>>}]
  ELSE [ok |-> FALSE, objects |-> {}]

\* removeBackground: whatever image the vendor answers with is stored.
RemoveBackground(segment, caller, job, upload) ==
  IF segment.ok THEN StoreCutout(segment.says, caller, job, upload)
  ELSE [ok |-> FALSE, objects |-> {}]

\* The calls of one parse in their order, each made only after the one
\* before it succeeded: the result, the objects uploaded, and the time in
\* which the vendors still fetch the signed URL.
ProviderBlock(owner, caller, job, sign, vision, segment, upload) ==
  LET Time(call) == call.ticks + call.backoff
      signed == MintSourcePhotoUrl(owner, caller, sign)
      seen == signed /\ ExtractAttributes(vision)
      cut == RemoveBackground(segment, caller, job, upload)
      If(cond, n) == IF cond THEN n ELSE 0
      fetching == If(signed, Time(vision)) + If(seen, Time(segment))
  IN  [ok |-> seen /\ cut.ok,
       objects |-> IF seen THEN cut.objects ELSE {},
       fetching |-> fetching,
       total |-> If(owner = caller, Time(sign)) + fetching
                   + If(seen /\ cut.objects # {}, Time(upload))]
ParseCalls(owner, caller, job, vendors) ==
  ProviderBlock(owner, caller, job,
                RequestWithRetry(vendors.sign), RequestWithRetry(vendors.vision),
                RequestWithRetry(vendors.segment), RequestWithRetry(vendors.upload))
=============================================================================
