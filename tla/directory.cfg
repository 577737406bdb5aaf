CONSTANTS
    me = me
    you = you
    them = them
    relay = relay
    dmRoom = dmRoom
    t1 = t1
    Keys <- TheKeys
    Channels <- TheChannels
    Self = me
    Relay = relay
    Ids <- TheIds
    Event <- TheEvents
    Spawned <- TheTasks
    DirectoryTask = DirectoryTask
    Conversations = {here, there}
    Parents = {m1, m2}
    Limit = 2
    AttachmentIds = {1, 2}
    ContentOf <- Distinct
    Rooms = {"a", "b"}
    Posts = {1, 2, 3, 4, 5}
    AlreadyStored = {1, 3, 5}
    RoomOf <- RoomOfPost
    ThreadOf <- ThreadOfPost
    OwnPost <- WrittenHere
    PageSize = 2
SPECIFICATION ChannelsSpec
SYMMETRY SameTargets
INVARIANTS
    HeadsFollowRelay
    RightIfCoalesced
    AttachmentsSound
    ActsOnVisible
PROPERTIES
    ReaderIsFollowed
CHECK_DEADLOCK FALSE
