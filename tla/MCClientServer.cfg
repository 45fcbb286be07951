CONSTANTS
    MaxTime = 40
    Fifo = FALSE
    ThreadCapacity = 1
    QueueCapacity = 1
    ServiceTimes = {2}
    Latency = 1
    Nil = Nil
    Policy <- MCPolicy
    Clients = {"c1", "c2"}
    Sends <- MCSends
    SendTimes = {0}
    Timeout = 3
SPECIFICATION FairSpec
INVARIANTS ServerExact ClientExact AttemptsConserved
PROPERTY RequestsSettle
CHECK_DEADLOCK FALSE
