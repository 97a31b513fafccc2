SPECIFICATION FairSpec
CONSTANTS
    t1 = t1
    t2 = t2
    Client = {t1, t2}
    MaxLines = 2
    QueueSize = 2
    MaxDrops = 1
INVARIANTS
    TypeOK
    FollowsWithoutGap
    LostAreOldest
PROPERTIES
    EndReachesSubscribers
CHECK_DEADLOCK FALSE
