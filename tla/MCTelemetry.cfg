CONSTANTS
    Log = {"a", "b", "c", "heavy"}
    NoLog = "none"
    LogSize <- MCLogSize
    MaxLogBuffer = 2
    MaxWeight = 4
    FlushInterval = 1
    Span = {"x", "y", "z", "big", "other"}
    NoSpan = "none"
    Trace = {"t", "u"}
    TraceOf <- MCTraceOf
    SpanSize <- MCSpanSize
    MaxSpanLimit = 3
    MaxTraceWeight = 4
    Request = {"p", "q"}
    Minutes = 2
    HasRelease = TRUE
    User = {"ann", "guest"}
    Identified = {"ann"}
    NoUser = "nobody"
    MaxSessions = 2
    FeatureSets <- MCFeatureSets
    HandlerLogs = {"c", "heavy"}
    HandlerSpans = {"x", "y", "other"}
SPECIFICATION Spec
INVARIANTS
    TypeOK
    EveryItemHasOnePlace
    LimitsHold
    SessionsAreTruthful
    CloseLosesOnlyLatecomers
PROPERTIES
    BuffersAreBatched
    SessionsAreReported
CHECK_DEADLOCK FALSE
