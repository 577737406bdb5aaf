CONSTANTS
    e1 = e1
    e2 = e2
    t1 = t1
    t2 = t2
    r1 = r1
    r2 = r2
    Empty = Empty
    Closed = Closed
    NoText = NoText
    NoEvent = NoEvent
    NoDraft = NoDraft
    Events = {e1}
    Reactions = {e1}
    Texts = {t1}
    Flushers <- TwoReconciliations
    DuplicateOk = TRUE
    SplitInsert = FALSE
SPECIFICATION FairSpec
INVARIANTS
    AuxiliaryWaits
PROPERTIES
    EverythingSettles
CHECK_DEADLOCK FALSE
