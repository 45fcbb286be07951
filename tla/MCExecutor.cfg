CONSTANTS
    MaxTime = 3
    Component = {c1}
    Delay = {0, 2}
    NewTask <- MCForever
    Fifo = TRUE
    MaxCount = 3
    MaxEventId = 4
    MaxTaskId = 2
    MaxDeferred = 1
    TimeLimit = {1}
    StepLimit = {2}
    Nil = Nil
SPECIFICATION ExecutorSpec
INVARIANT FifoOrder
PROPERTIES RunEndsWithWorkDone
CHECK_DEADLOCK FALSE
