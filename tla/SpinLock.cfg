SPECIFICATION FairSpec
CONSTANTS
    Threads = {t1, t2, t3}
    NoThread = NoThread
    MaxCalls = 3
INVARIANT OwnerInWord
PROPERTIES ImplementsMutex EveryLockReturns
CHECK_DEADLOCK FALSE
