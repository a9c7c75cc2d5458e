\* Three requests over two garments, one outfit and one tap.
CONSTANTS
    g1 = g1  g2 = g2  o1 = o1  t1 = t1  r1 = r1  r2 = r2  r3 = r3
    Garments <- TwoGarments
    Outfits <- OneOutfit
    Taps <- OneTap
    Requests <- ThreeRequests
    Merges <- Agreed
    NoOutfit = NoOutfit
    NoRow = NoRow
    NoJob = NoJob
SPECIFICATION Spec
SYMMETRY Interchangeable
INVARIANTS WearHistoryKept NoStrangers RetriedTapAnswered DirtiedOnce
