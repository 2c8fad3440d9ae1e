CONSTANTS
    Names <- SomeNames
    Problems <- FourProblems
    Trees <- BothTrees
    Plans <- OnePlan
    ForcedLists <- NoList
    Modules <- TwoModules
    Scopes <- Everything
    Allowed <- ListOk
    Places <- TwoPlaces
    MaxEdits = 1
    MaxScans = 2
    Operator = "diligent"
SPECIFICATION Spec
INVARIANT NoDuplicatePromoted
CHECK_DEADLOCK FALSE
