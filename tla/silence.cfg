CONSTANTS
    Calls = {1}
    EventOf <- OneEvent
    CommandCapacity = 3
    EventCapacity = 1
    Flood = 2
    MostRequests = 1
    FloodsRequests = TRUE
SPECIFICATION SessionSpec
PROPERTY SilenceIsNoticed
CHECK_DEADLOCK FALSE
