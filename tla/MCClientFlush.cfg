CONSTANTS
    tx = tx
    err = err
    err2 = err2
    r1 = r1
    r2 = r2
    f1 = f1
    Events <- TwoEvents
    Direct <- OneDirect
    Errors <- OneError
    MayThrow = {tx}
    BufferSize = 1
    MaxDepth = 2
    Sampling = FALSE
    Reports = {r1}
    Flushes = {f1}
    Closes = {f1}
    Timeout = 2
    Lateness = 1
SPECIFICATION FairSpec
INVARIANTS FlushTrueCovers FlushKeepsItsTime
PROPERTIES TimedFlushAnswers
CHECK_DEADLOCK FALSE
