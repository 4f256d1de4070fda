\* The volume deleted by hand: the recorded model is one that went with it.
CONSTANTS
    Faults <- HandFaults
    MaxAttempts = 2
    MaxModels = 3
    MaxEdits = 1
SPECIFICATION Spec
INVARIANT PinAlive
CHECK_DEADLOCK TRUE
