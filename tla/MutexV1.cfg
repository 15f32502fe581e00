SPECIFICATION FairSpec
CONSTANTS
    Threads = {t1, t2, t3}
    NoThread = NoThread
    SpinLimit = 1
    MaxCalls = 2
    MaxSpurious = 1
INVARIANTS TypeOK OwnerInState QueueExclusive ParkedIsReachable
PROPERTIES ImplementsMutex EveryDropReturns
CHECK_DEADLOCK FALSE
