\* One deletion, sent twice by the phone, among three inserts; a listing of pages
\* of two.
CONSTANTS
    anna = anna  bea = bea
    j = j  g1 = g1  g2 = g2  g3 = g3  g4 = g4
    pal = pal  s1 = s1  o2 = o2  m2 = m2  m3 = m3  w2 = w2
    parse = parse  outfit = outfit  wear = wear  d1 = d1  d2 = d2
    Nobody = Nobody
    Rows <- MCRows
    Table <- MCTable
    Owner <- MCOwner
    Refs <- MCRefs
    Stored <- MCStored
    Place <- MCPlace
    CreatedAt <- MCCreatedAt
    Id <- MCId
    Discards = {g2}
    Writers = {parse, outfit, wear}
    Batch <- MCBatch
    Deleters = {d1, d2}
    Tokens <- MCTokens
    Readers = {anna}
    Limits = {9}
    MaxPageSize = 2
    MaxPages = 5
SPECIFICATION Spec
SYMMETRY Retries
INVARIANTS TypeOK NoOrphans ListingIsExact
PROPERTIES DeletionIsWhole QuietDeletionSucceeds OnlyOnHerWord
