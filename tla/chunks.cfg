SPECIFICATION Spec
CONSTANTS
    Thread = {"video", "audio"}
    MaxChunk = 3
    MaxRestarts = 1
INVARIANTS
    TypeOK
    UseLive
    OneAside
    NoOrphan
PROPERTIES
    LostOnlySilently
    InOrder
    EndIsEnd
CHECK_DEADLOCK FALSE
