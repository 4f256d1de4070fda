\* The cached pair is not always dropped when it is reported gone.
CONSTANTS
    c1 = c1  c2 = c2
    i1 = i1  i2 = i2  i3 = i3
    Clients <- TwoClients
    Ids <- ThreeIds
    MaxStore = 2
    MaxModel = 2
    AgeCap = 0
    StoreTTL = 1
    CallTimeout = 1
    PinnedStore = 0
    PinnedModel = 0
SYMMETRY Symmetry
SPECIFICATION Spec
PROPERTY GonePairDropped
CHECK_DEADLOCK TRUE
