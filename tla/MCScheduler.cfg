CONSTANTS
    MaxTime = 3
    Component = {c1}
    Delay = {0, 2}
    NewTask <- MCNewTask
    Fifo = FALSE
    MaxCount = 3
    MaxEventId = 4
    MaxTaskId = 2
    MaxDeferred = 1
    Nil = Nil
SPECIFICATION Spec
INVARIANTS TypeOK EntriesMatchTasks CancelIsFinal
PROPERTIES ClockMovesOnlyToWork ImplementsEventQueue
CHECK_DEADLOCK FALSE
