CONSTANTS
    s1 = s1  p1 = p1  d1 = d1
    Seeds <- OneSeed
    Problems <- OneProblem
    Domains <- OneDomain
    DomainOf <- OneDomainOf
    Plans = {pl1}
    Maintainers = {m1, m2}
    GraceNewSeed = 0
    QuarantineAfter = 1
    ArchiveAfter = 1
    RevivalGrace = 0
    RevivalPendingWindow = 0
    Reaching <- PinnedOrNot
    MaxClock = 1
SPECIFICATION MCSpec
PROPERTIES PinnedSeedsRecover IdleSeedsAreArchived RecoveredStays
