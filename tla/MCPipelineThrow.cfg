\* One database error escapes a job handler.
CONSTANTS
    NULL = NULL
    Payments = {p1}
    Tasks = {t1}
    Dispatchers = {d1}
    MaxAttempts = 2
    BaseDelay = 1
    BatchSize = 1
    MaxStalledCount = 1
    Faults = {"throw"}
    MaxFaults = 1
SPECIFICATION PipelineSpec
INVARIANTS
    UnclaimedWorkRemainsAvailable
