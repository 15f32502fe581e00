SPECIFICATION FairSpec
CONSTANTS
    Threads = {t1, t2, t3}
    Modulus = 4
    MaxCalls = 2
INVARIANTS WaitingCounted NoLostNotification
PROPERTY NotifyAllEndsWaits
CHECK_DEADLOCK FALSE
