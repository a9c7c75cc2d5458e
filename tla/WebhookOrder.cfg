\* Three events of one user, in any order of stamps, ties included, and two
\* deliveries at a time.
CONSTANTS
    u1 = u1  e1 = e1  e2 = e2  e3 = e3  d1 = d1  d2 = d2  d3 = d3
    Users <- OneUser
    Events <- ThreeEvents
    MaxStamp = 2
    Deliveries <- TwoDeliveries
    NoRow = NoRow
SPECIFICATION Spec
SYMMETRY Interchangeable
INVARIANTS NewestStands ConsumedOnce
PROPERTIES ImplementsEntitlementOnce
