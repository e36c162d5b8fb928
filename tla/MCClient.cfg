CONSTANTS
    tx = tx
    err = err
    err2 = err2
    r1 = r1
    r2 = r2
    f1 = f1
    Events <- ThreeEvents
    Direct <- OneDirect
    Errors <- TwoErrors
    MayThrow = {tx, err}
    BufferSize = 1
    MaxDepth = 3
    Sampling = TRUE
    Reports = {r1, r2}
    Flushes = {}
    Closes = {}
    Timeout = 1
    Lateness = 0
SPECIFICATION Spec
INVARIANTS TypeOK NumProcessingIsExact OutcomesConserved
PROPERTIES UsesPromiseBuffer
CHECK_DEADLOCK FALSE
