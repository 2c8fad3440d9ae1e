CONSTANTS
    Modules <- ModelModules
    Hub = "Hub"
    Problems <- OneProblem
    TaskVariants <- Variants
    Scenarios <- FourShapes
    Repo <- HubOnly
    MaxRuns = 3
    Operator = "careful"
SPECIFICATION Spec
INVARIANTS BreachesFail BlameIsReal EvidenceIsOwn ReuseIsReal GoodAgentsPass LibraryConverges
CHECK_DEADLOCK FALSE
