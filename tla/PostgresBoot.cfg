\* Up to five crashes, failed steps and deletions of the volume.  A server that
\* nothing disturbs any more takes no step.
CONSTANT
    MaxCrashes = 5
SPECIFICATION FairSpec
INVARIANTS TypeOK ServesWhole
PROPERTIES BootAsPromised ComesBack
CHECK_DEADLOCK FALSE
