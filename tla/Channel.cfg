SPECIFICATION Spec
CONSTANTS
    Threads = {s1, s2, r}
    Senders = {s1, s2}
    Receiver = r
    N = 2
    NoValue = NoValue
    MaxSends = 2
    MaxReceives = 2
INVARIANTS LaterSendWakes DisconnectedIsFinal DepartureIsSeen
CHECK_DEADLOCK FALSE
