\* Teams and folders that may nest in a circle, and a cache of one entry.
CONSTANTS
    Orgs <- TwoOrgs
    Teams <- TwoTeams
    Folders <- TwoFolders
    Projects <- OneProject
    TupleSets <- Stores
    Roots <- Checks
    MaxDepth = 5
    MaxCached = 1
SPECIFICATION Spec
INVARIANTS TypeOK CacheExact DecisionsRight AcyclicDecides CyclesResolve
