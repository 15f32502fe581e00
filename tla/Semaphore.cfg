SPECIFICATION FairSpec
CONSTANTS
    Threads = {t1, t2, t3}
    Modulus = 4
    InitialCount = 0
    MaxCalls = 2
INVARIANTS PermitsConserved PermitsExact WaitersCounted NoLostSignal
PROPERTY PermitsReachWaiters
CHECK_DEADLOCK FALSE
