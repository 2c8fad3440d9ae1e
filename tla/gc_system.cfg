CONSTANTS
    s1 = s1  s2 = s2  p1 = p1  p2 = p2  d1 = d1  unknown = unknown  r1 = r1  r2 = r2
    Seeds <- TwoSeeds
    Problems <- TwoProblems
    Domains <- DomainsAndUnknown
    DomainOf <- AllInOneDomain
    Unknown = unknown
    Reconcilers <- OneReconciler
    Overlapping = FALSE
    SlugOrder <- TwoSlugs
    SeedImports <- Chain
    ToolboxRoots <- NoSeeds
    KActive = 1
    KSuccess = 1
    KTriaged = 1
    ImportChoices <- FirstOrNone
    PinChoices <- PinSecond
    RunIds <- OneOrTwo
    MaxAttempts <- TwoAndOne
    GraceNewSeed = 0
    QuarantineAfter = 2
    ArchiveAfter = 2
    RevivalGrace = 0
    RevivalPendingWindow = 1
SPECIFICATION MCSpec
INVARIANT CountersAgree
PROPERTIES SuccessIsForGood RevivalsSpaced SweepsLikeLifecycle LastRunIsSafe
