CONSTANTS
    Events = {1, 2, 3}
    Second <- SecondOf
    Referred = {2}
    Late = {}
    Passes = {"p"}
    PageSize = 1
    MaxPages = 4
    LiveLimit = 1
    Contexts = {1, 2}
    MaxRead = 1
    Capacity = 1
    MaxSlots = 2
    Slots = {1, 3, 4}
    ForeignSlot = 2
    MaxTime = 2
    Channels = {"r"}
    DirectRooms = {"d"}
    Revisions = 1
    Retractable = FALSE
    FirstRecords <- OpenToAnyone
    Roots = {"t", "u"}
    ChannelOf <- ChannelOfRoot
    Replies = {1}
    RootOfReply <- RootOf
    Memory = 2
    MostSummaries = 2
    MostBreaks = 1
    MostOnWire = 2
SPECIFICATION SyncSpec
INVARIANTS
    
    MarksSound
    StreamExact

    
CHECK_DEADLOCK FALSE
