CONSTANTS
    Nil = Nil
    Values = {0, 1}
    Queues = {q1}
    Lengths = {0, 2}
    Window = 2
    Warmup = 1
    Hold = 2
    Persist = 2
    RecoveryLimit = 5
    SpikeEnds = {1, 7}
    Counted = {"drop"}
    MaxEnd = 6
    MaxObservations = 3
    BudgetPolicies = 2
    TrialsPerPolicy = 2
    HoldoutTrials = 1
    MaxFailureTraces = 3
    Methods = {"find", "estimate", "monte carlo"}
    Loads = {0, 1, 2}
    Particles = 2
    BranchFactor = 3
    Horizon = 3
SPECIFICATION Spec
INVARIANTS ReplayExact ControlExact MonitorExact SearchSound
CHECK_DEADLOCK FALSE
