SPECIFICATION FairSpec
CONSTANTS
    Threads = {t1, t2}
    NoThread = NoThread
    SpinLimit = 1
    MaxCalls = 1
    MaxSpurious = 0
PROPERTY EveryLockReturns
CHECK_DEADLOCK FALSE
