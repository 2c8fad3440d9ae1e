CONSTANTS
    s1 = s1  p1 = p1  p2 = p2  d1 = d1
    Seeds <- OneSeed
    Problems <- TwoProblems
    Domains <- OneDomain
    DomainOf <- OneDomainOf
    GraceNewSeed = 2
    QuarantineAfter = 3
    ArchiveAfter = 6
    RevivalGrace = 1
    RevivalPendingWindow = 4
    MaxClock = 13
SPECIFICATION FairSpec
INVARIANTS Inductive Settles
PROPERTIES RevivalSpacing ImplementsLifecycle EventuallyRevived EventuallyArchived
