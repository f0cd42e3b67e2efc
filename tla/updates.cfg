SPECIFICATION Spec
CONSTANTS
    i1 = i1
    i2 = i2
    p1 = p1
    p2 = p2
    NoThread = NoThread
    NoPosition = NoPosition
    Origin = Origin
    NThreads = 1
    Id <- OneId
    Position <- OnePosition
    MaxSeeks = 0
    MaxUpdates = 2
    EarlySeek = FALSE
INVARIANTS
    RefusedOnlyWhileUpdating
CHECK_DEADLOCK FALSE
