CONSTANTS
    p1 = p1  p2 = p2  c1 = c1  c2 = c2
    Photos <- TwoPhotos
    Scanned <- OneScanned
    Runs <- TwoRuns
    None = None
SPECIFICATION Spec
SYMMETRY Interchangeable
INVARIANTS RefusedNotShown OnlyConfirmedSent NothingSkipped
