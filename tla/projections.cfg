CONSTANTS
    me = me
    you = you
    relay = relay
    room = room
    Keys <- TheKeys
    Channels <- TheChannels
    Self = me
    Relay = relay
    Ids <- TheIds
    Event <- TheEvents
    Friends = {"x", "y"}
    Myself = "s"
    MaxRecipients = 1
    Commands = 2
    AtOnce = 2
    Tries = 1
SPECIFICATION ConversationsSpec
INVARIANTS
    DeletedIffAuthorised
    
    HeadsStand
    MembershipSound
    OpenedIsExact
PROPERTIES
    NothingGoesBack
