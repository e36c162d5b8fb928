CONSTANTS
    t1 = t1
    t2 = t2
    t3 = t3
    t4 = t4
    d1 = d1
    Tasks <- MCTasks
    SyncTasks <- MCSyncTasks
    NativeTasks <- MCNativeTasks
    Drains <- MCDrains
    Limit = 2
    MaxDepth = 2
SPECIFICATION FairSpec
INVARIANTS TypeOK Slots
PROPERTIES GivesUpOnlyOnStragglers WaitingEnds
CHECK_DEADLOCK FALSE
