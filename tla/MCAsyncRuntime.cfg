CONSTANTS
    MaxTime = 3
    Slot = {s1}
    Delay = {1, 2}
    Fifo = FALSE
    FifoReady = FALSE
    BetweenSteps = FALSE
    MaxTask = 2
    MaxCalls = 5
    Nil = Nil
SPECIFICATION Spec
INVARIANTS QueuedFlagExact CancelledIsGone SpawnedIsPolled
PROPERTIES ClockWaitsForWork
CHECK_DEADLOCK FALSE
