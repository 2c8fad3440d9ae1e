CONSTANTS
    r1 = r1  r2 = r2  w1 = w1  w2 = w2
    mathlib = mathlib
    Runners = {r1, r2}
    WorkspaceOf <- OwnWorkspace
    Packages = {mathlib}
    Required = {mathlib}
    Files <- TwoFiles
    Donors <- RepoThenWorkspace
    CrossDevice = {}
    MayCrash = TRUE
SPECIFICATION Spec
INVARIANTS TypeOK OkMeansHydrated SharedIsWhole
PROPERTY SeededStays
