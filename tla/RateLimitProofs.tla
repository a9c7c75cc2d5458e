--------------------------- MODULE RateLimitProofs ---------------------------
(***************************************************************************)
(* The budget of one window, for any limit, window length and number of    *)
(* concurrent callers.                                                     *)
(***************************************************************************)
EXTENDS RateLimit, TLAPS

\* What one call does to the window's books.
LEMMA ConsumeStep ==
    ASSUME TypeOK, ExactAdmission, NEW c \in Callers, Consume(c)
    PROVE  TypeOK' /\ ExactAdmission'
<1> USE ConstantsAssumption
<1>0. c \in begun /\ behind[c] \in 0 .. Delay /\ 0 \in 0 .. Span - 1
    BY DEF Consume, OpenWindow, Increment, TypeOK
<1>1. PICK n \in 0 .. MaxCount : Admit(c, n) /\ count' = n
    <2>1. CASE OpenWindow(c)
        BY <2>1 DEF OpenWindow
    <2>2. CASE Increment(c)
        <3>1. count' \in 0 .. MaxCount /\ Admit(c, count')
            BY <2>2 DEF Increment, TypeOK
        <3>2. QED
            BY <3>1
    <2>3. QED
        BY <2>1, <2>2 DEF Consume
<1>2. recent' \in [0 .. Span - 1 -> Nat] /\ begun' \subseteq Callers /\ behind' = behind
    BY <1>0, <1>1 DEF Admit, TypeOK
<1>3. age' \in 0 .. MaxAge
    BY <1>0 DEF Consume, OpenWindow, Increment, TypeOK, MaxAge
<1>4. inWindow' = IF count' <= Limit THEN count' ELSE Limit
    <2>1. CASE OpenWindow(c)
        <3>1. count' = 1 /\ inWindow' = 1
            BY <2>1 DEF OpenWindow, Admit
        <3>2. QED
            BY <3>1
    <2>2. CASE Increment(c)
        <3>1. /\ count \in 1 .. MaxCount
              /\ count' = IF count < MaxCount THEN count + 1 ELSE count
              /\ count' # 1 => inWindow' = inWindow + IF count' <= Limit THEN 1 ELSE 0
            BY <2>2 DEF Increment, Admit, TypeOK
        <3>2. inWindow = IF count <= Limit THEN count ELSE Limit
            BY DEF ExactAdmission
        <3>3. count' # 1 /\ (count' = count + 1 \/ (count' = count /\ count > Limit))
            BY <3>1
        <3>4. QED
            BY <3>1, <3>2, <3>3
    <2>3. QED
        BY <2>1, <2>2 DEF Consume
<1>5. QED
    BY <1>1, <1>2, <1>3, <1>4 DEF TypeOK, ExactAdmission

\* Type and budget are kept together.
LEMMA BooksKept == Spec => [](TypeOK /\ ExactAdmission)
<1>1. Init => TypeOK /\ ExactAdmission
    BY ConstantsAssumption DEF Init, TypeOK, ExactAdmission, MaxAge
<1>2. TypeOK /\ ExactAdmission /\ [Next]_vars => TypeOK' /\ ExactAdmission'
    <2> SUFFICES ASSUME TypeOK, ExactAdmission, [Next]_vars
                 PROVE  TypeOK' /\ ExactAdmission'
        OBVIOUS
    <2>1. ASSUME NEW c \in Callers, Begin(c) \/ Abort(c)
          PROVE  TypeOK' /\ ExactAdmission'
        BY <2>1, ConstantsAssumption DEF Begin, Abort, TypeOK, ExactAdmission
    <2>2. ASSUME NEW c \in Callers, Consume(c) PROVE TypeOK' /\ ExactAdmission'
        BY <2>2, ConsumeStep
    <2>3. CASE Tick
        <3>1. behind' \in [Callers -> 0 .. Delay]
            BY <2>3, ConstantsAssumption DEF Tick, TypeOK
        <3>2. recent' \in [0 .. Span - 1 -> Nat]
            BY <2>3, ConstantsAssumption DEF Tick, TypeOK
        <3>3. age' \in 0 .. MaxAge
            BY <2>3, ConstantsAssumption DEF Tick, TypeOK, MaxAge
        <3>4. QED
            BY <2>3, <3>1, <3>2, <3>3 DEF Tick, TypeOK, ExactAdmission
    <2>4. CASE UNCHANGED vars
        BY <2>4 DEF vars, TypeOK, ExactAdmission
    <2>5. QED
        BY <2>1, <2>2, <2>3, <2>4 DEF Next
<1>3. QED
    BY <1>1, <1>2, PTL DEF Spec

\* However many calls race for the row, exactly Limit of a window are admitted.
THEOREM ExactAdmissionTheorem == Spec => []ExactAdmission
    BY BooksKept, PTL

-----------------------------------------------------------------------------
(***************************************************************************)
(* What a span of ticks can admit.  A call waits Delay ticks at most, so a *)
(* window is Delay old at most when it is opened: what was admitted in the *)
(* last age - Delay ticks, this one included, belongs to it, and m windows *)
(* more take m windows of time.                                            *)
(***************************************************************************)

\* Each further window of time lets in the limit once more; and nobody is
\* admitted to a window that is over for all.
BurstInv ==
    /\ \A m \in Nat, i \in 0 .. Span - 1 :
         i + Delay <= age + m * Window => recent[i] <= inWindow + m * Limit
    /\ age = MaxAge => recent[0] = 0
    /\ count = 0 => \A i \in 0 .. Span - 1 : recent[i] = 0

\* One window less.
LEMMA Products ==
    ASSUME NEW m \in Nat
    PROVE  /\ m * Window \in Nat /\ m * Limit \in Nat
           /\ m # 0 => /\ m - 1 \in Nat
                       /\ m * Window = (m - 1) * Window + Window
                       /\ m * Limit = (m - 1) * Limit + Limit
           /\ m = 0 => m * Window = 0 /\ m * Limit = 0
BY ConstantsAssumption

LEMMA OpenBurst ==
    ASSUME TypeOK, ExactAdmission, BurstInv, NEW c \in Callers, OpenWindow(c)
    PROVE  BurstInv'
<1> USE ConstantsAssumption
<1>1. behind[c] \in 0 .. Delay /\ 0 \in 0 .. Span - 1 /\ 1 <= Limit
    BY DEF TypeOK
<1>2. /\ count' = 1 /\ age' = behind[c] /\ inWindow' = 1
      /\ \A i \in 0 .. Span - 1 : recent'[i] = recent[i] + 1
    BY <1>1 DEF OpenWindow, Admit
<1>3. inWindow \in 0 .. Limit /\ age \in Nat /\ \A i \in 0 .. Span - 1 : recent[i] \in Nat
    BY DEF TypeOK, MaxAge
<1>4. behind[c] = Delay => recent[0] = 0
    <2>1. CASE count = 0
        BY <1>1, <2>1 DEF BurstInv
    <2>2. CASE WindowOver(c)
        BY <2>2 DEF WindowOver, TypeOK, MaxAge, BurstInv
    <2>3. QED
        BY <2>1, <2>2 DEF OpenWindow
<1>5. ASSUME NEW m \in Nat, NEW i \in 0 .. Span - 1, i + Delay <= behind[c] + m * Window
      PROVE  recent[i] <= m * Limit
    <2>1. CASE m = 0
        <3>1. i = 0 /\ behind[c] = Delay
            BY <1>1, <1>5, <2>1, Products
        <3>2. QED
            BY <1>4, <2>1, <3>1, Products
    <2>2. CASE count = 0
        BY <2>2, Products DEF BurstInv
    <2>3. CASE m # 0 /\ WindowOver(c)
        <3>1. i + Delay <= age + (m - 1) * Window
            BY <1>1, <1>3, <1>5, <2>3, Products DEF WindowOver
        <3>2. recent[i] <= inWindow + (m - 1) * Limit
            BY <2>3, <3>1, Products DEF BurstInv
        <3>3. (m - 1) * Limit \in Nat
            BY <2>3, Products
        <3>4. QED
            BY <1>3, <2>3, <3>2, <3>3, Products
    <2>4. QED
        BY <2>1, <2>2, <2>3 DEF OpenWindow
<1>6. ASSUME NEW m \in Nat, NEW i \in 0 .. Span - 1, i + Delay <= age' + m * Window
      PROVE  recent'[i] <= inWindow' + m * Limit
    <2>1. recent[i] <= m * Limit /\ recent[i] \in Nat /\ m * Limit \in Nat
        BY <1>2, <1>3, <1>5, <1>6, Products
    <2>2. QED
        BY <1>2, <2>1
<1>7. age' # MaxAge /\ count' # 0
    BY <1>1, <1>2 DEF MaxAge
<1>8. QED
    BY <1>6, <1>7 DEF BurstInv

LEMMA IncrementBurst ==
    ASSUME TypeOK, ExactAdmission, BurstInv, NEW c \in Callers, Increment(c)
    PROVE  BurstInv'
<1> USE ConstantsAssumption
<1>1. /\ count \in 1 .. MaxCount /\ behind[c] \in 0 .. Delay /\ age < Window + behind[c]
      /\ count' = IF count < MaxCount THEN count + 1 ELSE count
      /\ age' = age
    BY DEF Increment, WindowOver, TypeOK
<1>2. count' # 1 /\ count' \in Nat /\ count' # 0
    BY <1>1
<1>3. PICK one \in {0, 1} :
        inWindow' = inWindow + one /\ \A i \in 0 .. Span - 1 : recent'[i] = recent[i] + one
    BY <1>2 DEF Increment, Admit
<1>4. inWindow \in Nat /\ age \in Nat /\ \A i \in 0 .. Span - 1 : recent[i] \in Nat
    BY DEF TypeOK, MaxAge
<1>5. age' # MaxAge
    BY <1>1 DEF MaxAge, TypeOK
<1>6. ASSUME NEW m \in Nat, NEW i \in 0 .. Span - 1, i + Delay <= age' + m * Window
      PROVE  recent'[i] <= inWindow' + m * Limit
    <2>1. recent[i] <= inWindow + m * Limit /\ m * Limit \in Nat
        BY <1>1, <1>6, Products DEF BurstInv
    <2>2. QED
        BY <1>3, <1>4, <2>1
<1>7. QED
    BY <1>2, <1>5, <1>6 DEF BurstInv

LEMMA TickBurst ==
    ASSUME TypeOK, BurstInv, Tick
    PROVE  BurstInv'
<1> USE ConstantsAssumption
<1>1. /\ age \in 0 .. MaxAge /\ age' = IF age < MaxAge THEN age + 1 ELSE age
      /\ count' = count /\ inWindow' = inWindow /\ inWindow \in Nat /\ MaxAge \in Nat
    BY DEF Tick, TypeOK, MaxAge
<1>2. \A i \in 0 .. Span - 1 : /\ recent[i] \in Nat
                               /\ recent'[i] = IF i = 0 THEN 0 ELSE recent[i - 1]
                               /\ i # 0 => i - 1 \in 0 .. Span - 1
    BY DEF Tick, TypeOK
<1>3. ASSUME NEW m \in Nat, NEW i \in 0 .. Span - 1, i + Delay <= age' + m * Window
      PROVE  recent'[i] <= inWindow' + m * Limit
    <2>1. m * Window \in Nat /\ m * Limit \in Nat
        BY Products
    <2>2. CASE i = 0
        BY <1>1, <1>2, <2>1, <2>2
    <2>3. CASE i # 0
        <3>1. i - 1 \in 0 .. Span - 1 /\ (i - 1) + Delay <= age + m * Window
            BY <1>1, <1>3, <2>1, <2>3
        <3>2. recent[i - 1] <= inWindow + m * Limit
            BY <3>1 DEF BurstInv
        <3>3. QED
            BY <1>1, <1>2, <2>3, <3>2
    <2>4. QED
        BY <2>2, <2>3
<1>4. recent'[0] = 0 /\ (count' = 0 => \A i \in 0 .. Span - 1 : recent'[i] = 0)
    BY <1>1, <1>2 DEF BurstInv
<1>5. QED
    BY <1>3, <1>4 DEF BurstInv

\* Kept whatever the span and the delay are.
LEMMA BurstKept == Spec => []BurstInv
<1>1. Init => BurstInv
    <2> SUFFICES ASSUME Init PROVE BurstInv
        OBVIOUS
    <2>1. inWindow = 0 /\ \A i \in 0 .. Span - 1 : recent[i] = 0
        BY DEF Init
    <2>2. 0 \in 0 .. Span - 1 /\ \A m \in Nat : m * Limit \in Nat
        BY ConstantsAssumption, Products
    <2>3. QED
        BY <2>1, <2>2 DEF BurstInv
<1>2. TypeOK /\ ExactAdmission /\ BurstInv /\ [Next]_vars => BurstInv'
    <2> SUFFICES ASSUME TypeOK, ExactAdmission, BurstInv, [Next]_vars
                 PROVE  BurstInv'
        OBVIOUS
    <2>1. ASSUME NEW c \in Callers, Begin(c) \/ Abort(c) PROVE BurstInv'
        BY <2>1 DEF Begin, Abort, BurstInv
    <2>2. ASSUME NEW c \in Callers, Consume(c) PROVE BurstInv'
        BY <2>2, OpenBurst, IncrementBurst DEF Consume
    <2>3. CASE UNCHANGED vars
        BY <2>3 DEF vars, BurstInv
    <2>4. QED
        BY <2>1, <2>2, <2>3, TickBurst DEF Next
<1>3. QED
    BY <1>1, <1>2, BooksKept, PTL DEF Spec

\* The whole span, when it is no longer than m windows less what a call may wait.
LEMMA SpanBounded ==
    ASSUME TypeOK, BurstInv, NEW m \in Nat, Span + Delay <= m * Window + 1
    PROVE  recent[Span - 1] <= (m + 1) * Limit
<1>1. /\ Span - 1 \in 0 .. Span - 1 /\ inWindow \in 0 .. Limit /\ Limit \in Nat
      /\ age \in Nat /\ m * Window \in Nat /\ m * Limit \in Nat
    BY ConstantsAssumption, Products DEF TypeOK, MaxAge
<1>2. Span - 1 + Delay <= age + m * Window
    BY <1>1, ConstantsAssumption
<1>3. recent[Span - 1] \in Nat /\ recent[Span - 1] <= inWindow + m * Limit
    BY <1>1, <1>2 DEF BurstInv, TypeOK
<1>4. (m + 1) * Limit = m * Limit + Limit
    BY <1>1
<1>5. QED
    BY <1>1, <1>3, <1>4

\* Over any span of ticks, however long: as many limits are admitted in it as
\* windows fit, and one more.  It is what the paid calls of a day or a month can
\* come to, with callers that wait for the row lock and so bring an old clock.
THEOREM SpendTheorem ==
    ASSUME NEW m \in Nat, Span + Delay <= m * Window + 1
    PROVE  Spec => [](recent[Span - 1] <= (m + 1) * Limit)
<1>1. TypeOK /\ BurstInv => recent[Span - 1] <= (m + 1) * Limit
    BY SpanBounded
<1>2. QED
    BY <1>1, BurstKept, BooksKept, PTL

\* Wherever a span of ticks lies, no more than twice the limit is admitted in it,
\* if it is no longer than a window less what a call may wait.
THEOREM BurstTheorem ==
    ASSUME SpanHoldsTwoWindows
    PROVE  Spec => []BurstBounded
<1>1. Span + Delay <= 1 * Window + 1
    BY ConstantsAssumption DEF SpanHoldsTwoWindows
<1>2. TypeOK /\ BurstInv => BurstBounded
    BY <1>1, SpanBounded, ConstantsAssumption DEF BurstBounded
<1>3. QED
    BY <1>2, BurstKept, BooksKept, PTL
=============================================================================
