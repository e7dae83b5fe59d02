\* A subscription is disabled while a claim is under way; nothing fails.
CONSTANTS
    NULL = NULL
    Subscriptions = {s1}
    Events = {e1}
    Materializers = {m1}
    Tasks = {t1}
    MaxAttempts = 1
    BaseDelay = 1
    BatchSize = 1
    MaxStalledCount = 1
    Faults = {}
    MaxFaults = 0
SPECIFICATION FairPipelineSpec
PROPERTIES
    DisabledWorkIsStopped
