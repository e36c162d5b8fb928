CONSTANTS
    MaxEvents = 2
    MaxReplays = 2
    MaxReloads = 1
    MaxWaiters = 1
    MaxRetries = 1
    ContinueRecording = {TRUE, FALSE}
    Samples = {"session", "buffer"}
    StickySession = TRUE
SPECIFICATION Spec
INVARIANTS
    TypeOK
    StorageIsCurrent
PROPERTIES
    SegmentsAreAStream
