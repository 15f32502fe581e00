SPECIFICATION FairSpec
CONSTANTS
    Threads = {s1, r}
    Senders = {s1}
    Receiver = r
    N = 2
    NoValue = NoValue
    MaxSends = 1
    MaxReceives = 1
PROPERTY CallsReturn
CHECK_DEADLOCK FALSE
