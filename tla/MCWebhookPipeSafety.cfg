\* Every kind of fault, two dispatchers on the same rows, two workers.
CONSTANTS
    NULL = NULL
    Subscriptions = {s1}
    Events = {e1}
    Materializers = {m1, m2}
    Tasks = {t1, t2}
    MaxAttempts = 2
    BaseDelay = 1
    BatchSize = 2
    MaxStalledCount = 1
    Faults = {"publish", "restart", "record", "throw", "die", "stall"}
    MaxFaults = 1
SPECIFICATION PipelineSpec
SYMMETRY Symmetry
INVARIANTS
    PipelineTypeOK
    PublishedMeansDone
    WaitingWorkNotCompleted
    FanoutReachesSubscribers
PROPERTIES
    ImplementsDelivery
