CONSTANTS
    Names <- SomeNames
    Problems <- FourProblems
    Trees <- SomeTrees
    Plans <- SomePlans
    ForcedLists <- SomeLists
    Modules <- TwoModules
    Scopes <- AllOrToolbox
    Allowed <- ListOk
    Places <- TwoPlaces
    MaxEdits = 1
    MaxScans = 2
    Operator = "any"
SPECIFICATION Spec
INVARIANT PassedHolds
CHECK_DEADLOCK FALSE
