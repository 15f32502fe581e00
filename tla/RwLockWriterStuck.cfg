SPECIFICATION FairSpec
CONSTANTS
    Threads = {t1, t2}
    MAX = 9
    OverflowChecks = TRUE
    MaxCalls = 1
PROPERTY WritersGetIn
CHECK_DEADLOCK FALSE
