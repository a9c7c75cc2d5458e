\* Three requests race on one photo; every step of a claimed request keeps its
\* time bound.
CONSTANTS
    u1 = u1  p1 = p1  p2 = p2  r1 = r1  r2 = r2  r3 = r3
    Users <- OneUser
    Photos <- OnePhoto
    Requests <- ThreeRequests
    TeaserCap = 1
    CallTime = 1
    DbTime = 1
    Lease = 6
    Timely = TRUE
SPECIFICATION Spec
SYMMETRY Interchangeable
INVARIANTS TypeOK SingleFlight AnswerCarriesGarments
PROPERTIES DoneIsFinal ImplementsParseOnce
