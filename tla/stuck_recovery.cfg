CONSTANTS
    t1 = t1  t2 = t2  a1 = a1  r1 = r1  r2 = r2
    Threads = {t1, t2}
    Automations = {a1}
    AutomationOf <- BothOfOne
    Recoveries = {r1, r2}
    Threshold = 2
    MaxNow = 4
SPECIFICATION FairSpec
CHECK_DEADLOCK FALSE
INVARIANTS TypeOK RepairedOnce
PROPERTIES ResultsStay StalledIsRecovered
