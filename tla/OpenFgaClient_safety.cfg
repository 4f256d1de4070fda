\* Two requests share a cache while stores and models come and go, whatever is pinned.
CONSTANTS
    c1 = c1  c2 = c2
    i1 = i1  i2 = i2  i3 = i3
    Clients <- TwoClients
    Ids <- ThreeIds
    MaxStore = 2
    MaxModel = 2
    AgeCap = 0
    StoreTTL = 1
    CallTimeout = 1
    PinnedStore = 0
    PinnedModel = 0
SYMMETRY Symmetry
SPECIFICATION PinsSpec
INVARIANTS TypeOK LookupIsAwaited GoneNotReused CallBudget
PROPERTIES FreshTargetKept FailureNotCached
CHECK_DEADLOCK TRUE
