CONSTANTS
    error = error
    session = session
    bucket = bucket
    all = all
    Categories <- MCCategories
    All = all
    MetricBucket = bucket
    DefaultDelay = 2
    Responses <- MCResponses
    MaxNow = 5
    MaxResponses = 3
SPECIFICATION LogSpec
INVARIANTS TableIsTheLoops ServerIsObeyed
CHECK_DEADLOCK FALSE
