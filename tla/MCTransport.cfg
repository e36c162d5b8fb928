CONSTANTS
    error = error
    session = session
    internal = internal
    bucket = bucket
    all = all
    e1 = e1
    e2 = e2
    e3 = e3
    i1 = i1
    i2 = i2
    i3 = i3
    i4 = i4
    f1 = f1
    f2 = f2
    Categories <- MCCategories
    All = all
    MetricBucket = bucket
    DefaultDelay = 2
    Envelopes <- MCEnvelopes
    Items <- MCItems
    ItemsOf <- MCItemsOf
    CategoryOf <- MCCategoryOf
    ReportItems <- MCReportItems
    Responses <- MCResponses
    Limit = 1
    MaxDepth = 2
    Flushes = {f1}
    MaxNow = 2
    MaxResponses = 3
SPECIFICATION Spec
INVARIANTS TypeOK OutcomesAreExact FlushCoversEarlierSends
PROPERTIES DeliversEnvelopes UsesPromiseBuffer LimitsAreHeeded
CHECK_DEADLOCK FALSE
