SPECIFICATION FairSpec
CONSTANTS
    Threads = {t1, t2, t3}
    USIZE_MAX = 7
    MaxHandles = 6
INVARIANTS TypeOK CountsExact NoUseAfterFree UniqueAccess NothingLeaks
PROPERTY LockIsReleased
CHECK_DEADLOCK FALSE
