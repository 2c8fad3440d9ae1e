CONSTANTS
    f1 = f1  f2 = f2  f3 = f3  r1 = r1
    Items = {f1, f2, f3}
    Order <- ByName
    Untraced = {f2}
    Runners = {r1}
    MaxFaults = 2
SPECIFICATION FairSpec
INVARIANTS OnceEach AppendedAreRecorded
PROPERTIES RecordedStays FeedbackIsDeposited NewItemsReachTheAdvisor
