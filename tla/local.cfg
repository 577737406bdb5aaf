CONSTANTS
    MediaScopes = {"c1", "c2"}
    NoScope = NoScope
    Keys <- TwoKeys
    Avatars = {"face"}
    FileOf <- FileOfKey
    SizeOf <- OneUnit
    Broken = {}
    WeightOf <- Weights
    MemoryLimit = 2
    DiskLimit = 1
    MaxInFlight = 1
    Jobs = {"j1", "j2"}
    NoJob = NoJob
    Keypairs = {"k", "l"}
    Relays = {"r"}
    Backend = "keychain"
    MostIds = 3
    KeyChanges = 1
    Openers = {"tui", "cli"}
    FirstSchema = 1
    LastSchema = 3
    LastSecond = 2
    MostKills = 1
    Typists = {"fizz"}
    TypingRooms = {"a", "b"}
    NoRoom = "none"
    Threads = {"t"}
    TopLevel = "top"
    Lifetime = 2
    Quiet = 1
    Entries = 2
    Seconds = 2
    Switches = 1
SPECIFICATION LocalSpec
INVARIANTS
    
    NamedHasSecret
    SchemaSound
    
CHECK_DEADLOCK FALSE
