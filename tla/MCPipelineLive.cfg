\* One payment and two workers: a job may be taken over while it still runs.
CONSTANTS
    NULL = NULL
    Payments = {p1}
    Tasks = {t1, t2}
    Dispatchers = {d1}
    MaxAttempts = 3
    BaseDelay = 1
    BatchSize = 2
    MaxStalledCount = 1
    Faults = {"publish", "restart", "throw", "die", "stall"}
    MaxFaults = 2
SPECIFICATION FairPipelineSpec
PROPERTIES
    SettledOrLeft
