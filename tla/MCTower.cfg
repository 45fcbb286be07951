CONSTANTS
    Tasks = {t1, t2, t3}
    Callers = {c1, c2}
    Capacity = 2
    ServiceTimes = {1, 3}
    Timeout = 1
    RetryDelay = 1
    MaxRetries = 1
    FailureThreshold = 2
    RecoveryTimeout = 2
    MaxRecoveries = 3
    Services = {s1, s2}
    Max = 1
    GlobalMax = 2
    MaxDropped = 1
    SharesPerToken = 2
    Rate = 1
    Burst = 2
    CallsOutside = FALSE
    MaxTime = 6
    Handles = {h1, h2}
    First = h1
    Backends = 2
    Strategies = {"RoundRobin", "Random", "LeastConnections"}
    MaxCalls = 3
SPECIFICATION Spec
INVARIANTS LoadExact AnswerIsOwn NothingStuck AdmittedWithinRate
PROPERTIES CallsAsDue CallsEnd
CHECK_DEADLOCK FALSE
