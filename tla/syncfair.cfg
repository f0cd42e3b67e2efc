SPECIFICATION FairSpec
CONSTANTS
    W = 100
    Duration = {1}
    Margin = 1
    Least = 2
    First = 1
    Step = {1, 3}
    Back = {}
    Position = {1}
    Horizon = 3
    MaxStarts = 2
    MaxDrops = 1
    Absent = FALSE
PROPERTIES
    WaitEnds
    StopJoins
CHECK_DEADLOCK FALSE
