SPECIFICATION Spec
CONSTANTS
    Encoding = {"none", "x", "y", "s"}
    Old <- Olds
    New <- News
    OldEncoding = "x"
INVARIANTS
    SwitchDecodable
    NoHole
    OneFrameAtMost
    StillAscending
    NothingBehind
CHECK_DEADLOCK FALSE
