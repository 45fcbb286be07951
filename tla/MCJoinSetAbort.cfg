CONSTANTS
    Tasks = {t1, t2, t3}
    Nil = Nil
    MaxPermits = 4
    MaxWakers = 4
    Receiver = rx
    Capacity = 2
    MaxId = 3
    MaxOrder = 3
    LateAbort = TRUE
    Parties = 2
    MaxGeneration = 2
    Receivers = {r1, r2}
    MaxVersion = 2
    MaxSenders = 2
    Permits = 3
    Amounts = {1, 2, 3}
    MaxAdded = 1
    MaxForgotten = 1
    MayClose = TRUE
    MaxReaders = 4
    Durations = {0, 2}
    Period = 2
    Horizon = 6
SPECIFICATION Spec
PROPERTY JoinReturns
CHECK_DEADLOCK FALSE
