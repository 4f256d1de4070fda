\* Two senders and two receivers; the queue doubles once, or never, and grows.
CONSTANTS
    s1 = s1  s2 = s2  r1 = r1  r2 = r2
    Senders <- TwoSenders
    Receivers <- TwoReceivers
    Capacity = 2
    Extensions = {0, 1}
    GrowTo = {4}
    Cancellable <- TwoReceivers
    MaxSends = 3
SYMMETRY Symmetry
SPECIFICATION Spec
INVARIANTS TypeOK NobodyStuck
PROPERTIES FifoKept DrainedFirst
CHECK_DEADLOCK TRUE
