CONSTANTS
    c1 = c1
    c2 = c2
    Children <- MCChildren
    Ignored <- MCIgnored
    IdleTimeout = 1
    ChildSpanTimeout = 2
    FinalTimeout = 3
    TrimEnd = TRUE
    MaxNow = 5
    Given = {0, 2, 5}
SPECIFICATION FairSpec
INVARIANTS TypeOK NeverWithoutTimer KeptChildrenFit
PROPERTIES EndsForItsReason FinallyEnds
CHECK_DEADLOCK FALSE
