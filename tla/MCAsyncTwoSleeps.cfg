CONSTANTS
    MaxTime = 3
    Slot = {s1, s2}
    Delay = {1, 2}
    Fifo = TRUE
    FifoReady = FALSE
    BetweenSteps = FALSE
    MaxTask = 1
    MaxCalls = 5
    Nil = Nil
SPECIFICATION Spec
INVARIANTS SleepHasTimer
CHECK_DEADLOCK FALSE
