\* Three feeds, pages of one and two, two cache writes in flight.
SPECIFICATION Spec
CONSTANTS
    Ids <- ThreeIds
    Limits = {1, 2}
    DefaultLimit = 1
    Clients = {c1}
    MaxFills = 2
INVARIANTS
    WalkOrdered
    WalkComplete
