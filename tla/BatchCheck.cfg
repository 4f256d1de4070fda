\* Three items at most, two checks: items that share a check and items that
\* do not, and a batch one item too long.
CONSTANTS
    i1 = i1  i2 = i2  i3 = i3  k1 = k1  k2 = k2
    Ids <- ThreeIds
    Checks <- TwoChecks
    MaxItems = 3
SPECIFICATION Spec
SYMMETRY Symmetry
INVARIANTS AnswersItsOwn OutcomeForEvery
