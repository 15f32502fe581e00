SPECIFICATION Spec
CONSTANTS
    Threads = {t1, t2, t3}
    MAX = 5
    OverflowChecks = TRUE
    MaxCalls = 2
INVARIANTS StateMatchesGuards AcquiredMatchesGuard WaitingWritersCounted NoReaderForgotten
PROPERTIES WriterFirst ImplementsRwLock
SYMMETRY Symmetry
CHECK_DEADLOCK FALSE
