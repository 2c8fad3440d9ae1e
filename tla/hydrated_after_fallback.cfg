CONSTANTS
    r1 = r1  r2 = r2  w1 = w1  w2 = w2
    mathlib = mathlib
    Runners = {r1}
    WorkspaceOf <- OneWorkspace
    Packages = {mathlib}
    Required = {mathlib}
    Files <- TwoFiles
    Donors <- OnlyRepo
    CrossDevice = {"repo"}
    MayCrash = FALSE
SPECIFICATION Spec
INVARIANT OkMeansHydrated
