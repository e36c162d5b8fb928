CONSTANTS
    MaxEvents = 2
    MaxReplays = 2
    MaxReloads = 0
    MaxWaiters = 1
    MaxRetries = 1
    ContinueRecording = {TRUE, FALSE}
    Samples = {"session"}
    StickySession = TRUE
SPECIFICATION Spec
PROPERTIES
    HeldEventsAreFlushed
