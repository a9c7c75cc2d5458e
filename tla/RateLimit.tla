------------------------------ MODULE RateLimit ------------------------------
(***************************************************************************)
(* consume_rate_token (migration 0015) for one (user_id, scope) row: the   *)
(* fixed window that throttles paid parse requests.  A call is a           *)
(* transaction of its own; its now() is the time the transaction BEGAN,    *)
(* while its upsert runs when the row lock is granted, so a call may apply *)
(* a clock that is behind the row it finds.                                *)
(*                                                                         *)
(* Times are ages, so that the clock needs no bound: age is now minus      *)
(* window_start, behind[c] is now minus the now() of call c.               *)
(***************************************************************************)
EXTENDS Naturals

CONSTANTS
    Callers,   \* concurrent requests of the user
    Limit,     \* p_limit
    Window,    \* p_window, in ticks
    Delay,     \* longest a call may wait between its BEGIN and its upsert
    Span,      \* ticks of admissions the history variable recent remembers
    MaxCount   \* request_count is counted up to here

ASSUME ConstantsAssumption ==
    /\ Limit \in Nat \ {0}
    /\ Window \in Nat \ {0}
    /\ Delay \in Nat
    /\ Span \in Nat \ {0}
    /\ MaxCount \in Nat /\ MaxCount > Limit

VARIABLES
    count,     \* request_count; 0 while the row does not exist
    age,       \* ticks since window_start, up to MaxAge
    begun,     \* the calls whose transaction is open
    behind,    \* behind[c]: ticks since call c began
    inWindow,  \* history: admissions since window_start was last written
    recent     \* history: recent[i]: admissions of this tick and the i before it

vars == <<count, age, begun, behind, inWindow, recent>>

\* No call can tell a window older than this from one of exactly this age.
MaxAge == Window + Delay

Init ==
    /\ count = 0
    /\ age = 0
    /\ begun = {}
    /\ behind = [c \in Callers |-> 0]
    /\ inWindow = 0
    /\ recent = [i \in 0 .. Span - 1 |-> 0]

Begin(c) ==
    /\ c \notin begun
    /\ begun' = begun \cup {c}
    /\ behind' = [behind EXCEPT ![c] = 0]
    /\ UNCHANGED <<count, age, inWindow, recent>>

\* The Bug_... definitions are planted by the mutation runs in place of the
\* definition that follows them; no specification uses them.
Bug_OverTooEarly(c) == age + 1 >= Window + behind[c]

\* window_start <= now() - p_window, for the now() of call c.
WindowOver(c) == age >= Window + behind[c]

\* Whatever the outcome, the call that holds ticket n is admitted up to the limit.
Admit(c, n) ==
    LET one == IF n <= Limit THEN 1 ELSE 0 IN
    /\ begun' = begun \ {c}
    /\ recent' = [i \in 0 .. Span - 1 |-> recent[i] + one]
    /\ inWindow' = IF n = 1 THEN one ELSE inWindow + one
    /\ UNCHANGED behind

Bug_OpenFromZero(c) ==
    /\ c \in begun
    /\ count = 0 \/ WindowOver(c)
    /\ count' = 0
    /\ age' = behind[c]
    /\ Admit(c, 1)

\* The INSERT, or the reset branch of DO UPDATE.
OpenWindow(c) ==
    /\ c \in begun
    /\ count = 0 \/ WindowOver(c)
    /\ count' = 1
    /\ age' = behind[c]
    /\ Admit(c, 1)

Bug_RefusalExtends(c) ==
    /\ c \in begun
    /\ count # 0 /\ ~WindowOver(c)
    /\ count' = IF count < MaxCount THEN count + 1 ELSE count
    /\ age' = IF count' > Limit THEN behind[c] ELSE age
    /\ Admit(c, count')

\* The increment branch: a refused call counts too and leaves window_start alone.
Increment(c) ==
    /\ c \in begun
    /\ count # 0 /\ ~WindowOver(c)
    /\ count' = IF count < MaxCount THEN count + 1 ELSE count
    /\ Admit(c, count')
    /\ UNCHANGED age

\* The transaction is rolled back: no token is taken.
Abort(c) ==
    /\ c \in begun
    /\ begun' = begun \ {c}
    /\ UNCHANGED <<count, age, behind, inWindow, recent>>

Tick ==
    /\ \A c \in begun : behind[c] < Delay
    /\ age' = IF age < MaxAge THEN age + 1 ELSE age
    /\ behind' = [c \in Callers |-> IF c \in begun THEN behind[c] + 1 ELSE behind[c]]
    /\ recent' = [i \in 0 .. Span - 1 |-> IF i = 0 THEN 0 ELSE recent[i - 1]]
    /\ UNCHANGED <<count, begun, inWindow>>

Consume(c) == OpenWindow(c) \/ Increment(c)

Next == (\E c \in Callers : Begin(c) \/ Consume(c) \/ Abort(c)) \/ Tick

Spec == Init /\ [][Next]_vars

\* A client that never stops asking, calls that end, and a running clock.
HammeringSpec ==
    /\ Spec
    /\ \A c \in Callers : WF_vars(Begin(c)) /\ SF_vars(Consume(c))
    /\ WF_vars(Tick)

-----------------------------------------------------------------------------
\* Every variable keeps its type and its bound.
TypeOK ==
    /\ count \in 0 .. MaxCount
    /\ age \in 0 .. MaxAge
    /\ begun \subseteq Callers
    /\ behind \in [Callers -> 0 .. Delay]
    /\ inWindow \in 0 .. Limit
    /\ recent \in [0 .. Span - 1 -> Nat]

\* The header of migration 0015: concurrent callers hold distinct tickets, so
\* of the calls of one window exactly Limit are admitted, or all if fewer came;
\* neither a lost update nor a refused call shifts that number.
ExactAdmission == inWindow = IF count <= Limit THEN count ELSE Limit

\* At most two windows can share a span this long, so never more than twice
\* the limit is admitted inside it, the burst across the boundary included.
SpanHoldsTwoWindows == Span + Delay <= Window + 1

BurstBounded == recent[Span - 1] <= 2 * Limit

\* Hammering does not lock the user out: refusals do not move the window.
NotLockedOut == (count > Limit) ~> (count <= Limit)
=============================================================================
