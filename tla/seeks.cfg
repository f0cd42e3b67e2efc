SPECIFICATION Spec
CONSTANTS
    i1 = i1
    i2 = i2
    p1 = p1
    p2 = p2
    NoThread = NoThread
    NoPosition = NoPosition
    Origin = Origin
    NThreads = 2
    Id <- TwoIds
    Position <- TwoPositions
    MaxSeeks = 2
    MaxUpdates = 1
    EarlySeek = FALSE
SYMMETRY Symmetric
INVARIANTS
    TypeOK
    KnownThreads
    ParserAlone
    RunsOn
    FreshSamples
    LastSeekWins
    SeekAnswered
CHECK_DEADLOCK FALSE
