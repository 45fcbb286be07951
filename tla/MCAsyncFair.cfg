CONSTANTS
    MaxTime = 3
    Slot = {s1}
    Delay = {1, 2}
    Fifo = TRUE
    FifoReady = FALSE
    BetweenSteps = FALSE
    MaxTask = 2
    MaxCalls = 5
    Nil = Nil
SPECIFICATION FairSpec
INVARIANT SleepHasTimer
PROPERTIES SleepersWake
CHECK_DEADLOCK FALSE
