SPECIFICATION FairSpec
CONSTANTS
    Threads = {t1, t2, t3}
    SpinLimit = 1
    MaxCalls = 2
INVARIANTS TypeOK Exclusion AcquiredMatchesGuard NoLostWakeup
PROPERTIES ImplementsMutex EveryLockReturns
CHECK_DEADLOCK FALSE
