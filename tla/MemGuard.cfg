SPECIFICATION FairSpec
CONSTANTS
    single = single  pooled = pooled
    Engine = {single, pooled}
    Container <- Containers
    Size <- Sizes
    Total = 7
    Threshold = 2
    Machine <- Machines
    Cooldown = 2
    Lag = 2
    MaxStarts = 3
    MaxSwings = 2
    MaxCrashes = 1
INVARIANTS
    NoKillOnKilled
    DiesWhole
PROPERTY
    Calms
CHECK_DEADLOCK FALSE
