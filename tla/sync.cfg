SPECIFICATION Spec
CONSTANTS
    W = 100
    Duration = {4, 6}
    Margin = 1
    Least = 5
    First = 1
    Step = {2, 8}
    Back = {}
    Position = {2}
    Horizon = 8
    MaxStarts = 1
    MaxDrops = 0
    Absent = TRUE
INVARIANTS
    NoMutualWait
    NoSelfWait
    WaitInReach
    Skew
CHECK_DEADLOCK FALSE
