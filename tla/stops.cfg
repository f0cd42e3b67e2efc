SPECIFICATION Spec
CONSTANTS
    i1 = i1
    i2 = i2
    p1 = p1
    p2 = p2
    NoThread = NoThread
    NoPosition = NoPosition
    Origin = Origin
    NThreads = 2
    Id <- OneId
    Position <- OnePosition
    MaxSeeks = 2
    MaxUpdates = 1
    EarlySeek = FALSE
PROPERTIES
    StopReturns
    SeekServed
CHECK_DEADLOCK FALSE
