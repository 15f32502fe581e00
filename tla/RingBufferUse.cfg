SPECIFICATION Spec
CONSTANTS
    Threads = {t1, t2, t3}
    N = 2
    NoValue = NoValue
    MaxCalls = 2
INVARIANTS WithinCapacity QueueUntilTorn
CHECK_DEADLOCK FALSE
