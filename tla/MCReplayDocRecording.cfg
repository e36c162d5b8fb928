CONSTANTS
    MaxEvents = 2
    MaxReplays = 2
    MaxReloads = 0
    MaxWaiters = 2
    MaxRetries = 1
    ContinueRecording = {TRUE}
    Samples = {"buffer"}
    StickySession = TRUE
SPECIFICATION Spec
INVARIANTS
    DocRecordsUnlessPaused
