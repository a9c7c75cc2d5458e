\* One photo, one client that retries for ever; crashes and outages included.
CONSTANTS
    u1 = u1  p1 = p1  p2 = p2  r1 = r1  r2 = r2  r3 = r3
    Users <- OneUser
    Photos <- OnePhoto
    Requests = {r1}
    TeaserCap = 1
    CallTime = 1
    DbTime = 1
    Lease = 6
    Timely = TRUE
SPECIFICATION RetryingSpec
PROPERTIES EventuallyDone
