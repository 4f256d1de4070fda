\* Every request ends, the promise is kept, and no call outlives the staleness bound.
CONSTANTS
    c1 = c1  c2 = c2
    i1 = i1  i2 = i2  i3 = i3
    Clients <- TwoClients
    Ids <- ThreeIds
    MaxStore = 1
    MaxModel = 0
    AgeCap = 5
    StoreTTL = 1
    CallTimeout = 1
    PinnedStore = 0
    PinnedModel = 0
SPECIFICATION FairSpec
INVARIANT BoundedStaleness
PROPERTIES RequestEnds PromiseKept
CHECK_DEADLOCK TRUE
