CONSTANTS
    r1 = r1
    r2 = r2
    event = event
    report = report
    Envelopes <- MCEnvelopes
    Replays <- MCReplays
    Reports <- MCReports
    HasShouldSend = TRUE
    FlushAtStartup = TRUE
    MaxQueueSize = 2
    MinDelay = 1
    StartDelay = 2
    MaxDelay = 3
    RetryAfters = {3}
    MaxRestarts = 1
SPECIFICATION Spec
INVARIANTS TypeOK StoredOnce InOrder
PROPERTY NeverLeftUnwatched
