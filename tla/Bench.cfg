\* Three callers compete for the permit; n is below, inside and above its range.
CONSTANTS
    c1 = c1  c2 = c2  c3 = c3
    Callers <- ThreeCallers
    BenchMax = 3
    WarmUps = 3
    RawHalves <- Halves
SPECIFICATION FairSpec
INVARIANTS TypeOK PermitHeld WorkBounded
PROPERTIES RefusedForARun FreeAgain
CHECK_DEADLOCK TRUE
