CONSTANTS
    t1 = t1
    t2 = t2
    c1 = c1
    Ticks = {t1, t2}
    Callers = {c1}
    Settings <- OverlapOnly
    MaxAttempts = 2
    MaxJobs = 1
    MaxDeaths = 0
    Slow = FALSE
SPECIFICATION Spec
PROPERTY CancelIsFinal
CHECK_DEADLOCK FALSE
