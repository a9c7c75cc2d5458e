\* Requests may outlive the lease: which promises do not rest on timing.
CONSTANTS
    u1 = u1  p1 = p1  p2 = p2  r1 = r1  r2 = r2  r3 = r3
    Users <- OneUser
    Photos <- TwoPhotos
    Requests <- TwoRequests
    TeaserCap = 1
    CallTime = 0
    DbTime = 0
    Lease = 1
    Timely = FALSE
SPECIFICATION Spec
SYMMETRY Interchangeable
INVARIANTS TeaserCapHeld
PROPERTIES GarmentsSurvive
