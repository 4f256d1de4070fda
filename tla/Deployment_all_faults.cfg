\* Everything can go wrong: what every exit 0 still means, and that scripts end.
CONSTANTS
    Faults <- AllFaults
    MaxAttempts = 2
    MaxModels = 2
    MaxEdits = 2
SPECIFICATION FairSpec
INVARIANTS TypeOK MigratedFirst
PROPERTIES DeployKeepsWord GoneUnlessMissed SeedRecordsLatest WrittenIfChanged ScriptsEnd
CHECK_DEADLOCK TRUE
