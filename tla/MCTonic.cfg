CONSTANTS
    MaxTime = 1000
    Fifo = TRUE
    Endpoints = {cl, s1, s2}
    Client = cl
    Servers = {s1, s2}
    Hosts = {s1}
    Target = s1
    Waiters = {c1, c2}
    Pinned = {c2}
    Uses = {"grpc", "http", "transport", "registry", "stream", "typed", "wire"}
    Models = {"simple", "jitter"}
    Base = 1
    Jittered = {1, 2}
    ByteDelay = 0
    Lossy = TRUE
    MaxMessages = 2
    MaxSubmitted = 1
    MaxRemovals = 1
    MaxPicks = 5
    Timeout = 3
    HandlerTimes = {1}
    Nil = Nil
    Modes = {"Client", "Server", "Bidi", "Unknown"}
    MaxItems = 2
    Ends = {"send requests", "hear requests", "send replies", "hear replies"}
    MaxTyped = 3
    TypedCap = 1
    Texts <- MCTexts
    Payloads <- MCPayloads
    Metadata <- MCMetadata
    MaxSeq = 70000
    Codes = {0, 16}
    Cap = 1
    MaxReorder = 2
    HasTimeout = TRUE
SPECIFICATION MCSpec
INVARIANTS TransportExact DiscoverySound AnswersHonest WireExact
PROPERTIES ImplementsNetwork ImplementsPipes EveryCallReturns
CHECK_DEADLOCK FALSE
