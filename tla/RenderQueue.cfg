CONSTANTS
    t1 = t1
    t2 = t2
    c1 = c1
    Ticks = {t1, t2}
    Callers = {c1}
    Settings <- AllSettings
    MaxAttempts = 2
    MaxJobs = 2
    MaxDeaths = 2
    Slow = FALSE
SPECIFICATION FairSpec
INVARIANTS TypeOK OneTickPerJob AttemptsBounded
PROPERTIES KeepsRenderPromise StopsForGood EveryJobEnds
CHECK_DEADLOCK FALSE
