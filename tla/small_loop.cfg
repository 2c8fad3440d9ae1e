CONSTANTS
    e1 = e1  o1 = o1
    Cases <- SmallCases
    Patches <- ScopeSamples
    Errors = {e1}
    ErrorsOutside = {o1}
    Costs = {0, 1}
SPECIFICATION Spec
CHECK_DEADLOCK FALSE
INVARIANTS TypeOK GoesOnForNoReason TriagedForAReason StagnationIsReal
