CONSTANTS
    p1 = p1
    p2 = p2
    p3 = p3
    f1 = f1
    f2 = f2
    NoFilter = NoFilter
    NoTask = NoTask
    Subs = {}
    Filters = {f1}
    PriosOf <- PriosNone
    Closable = {}
    Pubs <- PubsThree
    PubPrio <- PrioThree
    Hints = {2}
    Jitter <- JitterNone
    MaxAttempt = 1
    Backoff <- Doubling
    QueueTimeout = 2
    MaxPending = 2
    MaxNet = 1
    CloseAck = "never"
    RelayClasses = {}
    LegacyNotice = TRUE
    SendCanFail = FALSE
    CanBeDenied = TRUE
SPECIFICATION Spec
INVARIANTS
    QueuesSound
PROPERTIES
    KeepsThePort
CHECK_DEADLOCK FALSE
