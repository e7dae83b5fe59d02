\* Three attempts, two workers, one fault of any kind.
CONSTANTS
    NULL = NULL
    Subscriptions = {s1}
    Events = {e1}
    Materializers = {m1}
    Tasks = {t1, t2}
    MaxAttempts = 3
    BaseDelay = 1
    BatchSize = 2
    MaxStalledCount = 1
    Faults = {"publish", "restart", "record", "throw", "die", "stall"}
    MaxFaults = 1
SPECIFICATION FairPipelineSpec
PROPERTIES
    EveryEventIsMaterialized
    SettledOrLeft
