CONSTANTS
    p1 = p1
    p2 = p2
    p3 = p3
    f1 = f1
    f2 = f2
    NoFilter = NoFilter
    NoTask = NoTask
    Subs = {1}
    Filters = {f1, f2}
    PriosOf <- PriosOne
    Closable = {1}
    Pubs = {}
    PubPrio <- PrioNone
    Hints = {1, 2}
    Jitter <- JitterOne
    MaxAttempt = 1
    Backoff <- Doubling
    QueueTimeout = 2
    MaxPending = 2
    MaxNet = 3
    CloseAck = "always"
    RelayClasses = {"rate", "retry", "terminal"}
    LegacyNotice = FALSE
    SendCanFail = TRUE
    CanBeDenied = FALSE
SPECIFICATION RecoverySpec

    
PROPERTIES
    GateHonoured
    SubscriptionRestored
CHECK_DEADLOCK FALSE
