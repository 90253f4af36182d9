\* The same instance: a feed that was added before the walk began.
SPECIFICATION Spec
CONSTANTS
    Ids <- ThreeIds
    Limits = {1, 2}
    DefaultLimit = 1
    Clients = {c1}
    MaxFills = 2
INVARIANTS
    PostedIsListed
