SPECIFICATION Spec
CONSTANTS
    MaxLines = 3
    MaxTime = 6
    MaxRestarts = 2
    Metrics <- OddLines
    Overlap = 2
    PublishGap = 0
    MaxLag = 2
    MidReplay = FALSE
INVARIANTS
    NoLineLost
    SeriesInOrder
CHECK_DEADLOCK FALSE
