CONSTANTS
    e1 = e1
    e2 = e2
    t1 = t1
    t2 = t2
    r1 = r1
    r2 = r2
    Empty = Empty
    Closed = Closed
    NoText = NoText
    NoEvent = NoEvent
    NoDraft = NoDraft
    Events <- Messages
    Reactions = {}
    Texts = {t1, t2}
    Flushers <- OneReconciliation
    DuplicateOk = TRUE
    SplitInsert = FALSE
SPECIFICATION Spec
SYMMETRY DraftSymmetry
INVARIANTS
    ShownDeliveredIsTrue
    HiddenDraftHasSender
    SubmissionsSound
PROPERTIES
    DraftDeletedExactly
CHECK_DEADLOCK FALSE
