\* Three concurrent callers that never stop asking, against a window of four ticks;
\* a call may wait one tick for the row lock.
CONSTANTS
    c1 = c1  c2 = c2  c3 = c3
    Callers <- ThreeCallers
    Limit = 2
    Window = 4
    Delay = 1
    Span = 4
    MaxCount = 4
SPECIFICATION HammeringSpec
INVARIANTS ExactAdmission BurstBounded
PROPERTIES NotLockedOut
