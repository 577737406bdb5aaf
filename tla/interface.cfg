CONSTANTS
    InboxPosts = {1, 2}
    Talks = {"dm", "thread"}
    Direct = {"dm"}
    Scope <- TalkOf
    Mine <- NotMine
    MentionsMe <- Mentions
    DraftTimes = {2}
    MostTouched = 2
    Texts = {"", "from"}
    Empty = ""
    Notes = {"n1"}
    People = {"bob", "rob"}
    Me = "rob"
    Writer <- WriterOf
    NameOf <- Names
    Anyone = "anyone"
    From <- Authors
    Hits <- HitsOf
    Short <- TooShort
    Online = TRUE
    Openings = 2
    Chords = {"q", "esc", "i", "space", "n", "o", "enter", "?"}
    Printable = {"q", "i", "space", "n", "o"}
    Builtin <- Bindings0
    Files <- Keymaps
    LeaderTicks = 1
    Channels = {1, 2}
    DmChannels = {2}
    Homes = {"a", "b", "c"}
    Owner <- IdentityOf
    MostSigners = 3
    MostMail = 1
    MostMarks = 1
    Alphabet = {"x", "blank", "at", "newline", "tick"}
    Pastes <- Texts2
    Tagged = {"ann", "bo"}
    LabelOf <- Labels
    MentionCap = 2
    Cells = 2
    MostText = 4
SPECIFICATION InterfaceSpec
INVARIANTS
    FreshWhenClean
    ResultsAnswerField
    SwitchSound
    ComposerSound
PROPERTIES
    
    KeysSound
CHECK_DEADLOCK FALSE
