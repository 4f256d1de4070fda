\* A TTL shorter than the step, and a check with a problem below it: what
\* is saved again outlives its TTL within the step.
CONSTANTS
    r1 = r1
    r2 = r2
    Requests <- TwoRequests
    Chain = 1
    TTL = 1
    Step = 3
    MaxTime = 4
SPECIFICATION Spec
SYMMETRY Symmetry
INVARIANTS TypeOK AnswerWithinStep FreshWhenAsked
