\* What an intersection comes to when the request is cancelled is cached.
CONSTANTS
    Orgs <- TwoOrgs
    Teams <- TwoTeams
    Folders <- TwoFolders
    Projects <- OneProject
    TupleSets <- Stores
    Roots <- Checks
    MaxDepth = 5
    MaxCached = 1
SPECIFICATION Spec
INVARIANT SharesDue
