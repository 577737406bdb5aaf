CONSTANTS
    p1 = p1
    p2 = p2
    p3 = p3
    f1 = f1
    f2 = f2
    NoFilter = NoFilter
    NoTask = NoTask
    Subs = {}
    Filters = {f1}
    PriosOf <- PriosNone
    Closable = {}
    Pubs <- PubsTwo
    PubPrio <- PrioSame
    Hints = {1}
    Jitter <- JitterNone
    MaxAttempt = 1
    Backoff <- Doubling
    QueueTimeout = 1
    MaxPending = 2
    MaxNet = 1
    CloseAck = "never"
    RelayClasses = {}
    LegacyNotice = TRUE
    SendCanFail = FALSE
    CanBeDenied = TRUE
    Records = {"outcome", "usage", "timing"}
    Emitters = {1, 2}
    NoRecord = NoRecord
    Shutdown = Shutdown
    Estimate <- SizeOfRecord
    Routine = {"usage", "timing"}
    QueueRecords = 3
    RoutineLimit = 2
    QueueBytes = 4
    BatchRecords = 2
    BatchBytes = 2
    Attempts = 2
    Calls = {1, 2}
    EventOf <- OneEvent
    CommandCapacity = 2
    EventCapacity = 1
    Flood = 1
    MostRequests = 2
    FloodsRequests = FALSE
SPECIFICATION ProgressSpec
INVARIANTS
    RecordsAccounted
PROPERTIES
    
    NobodyWaitsForever
    QueuedLeaves
CHECK_DEADLOCK FALSE
