\* Every documented reference, every kind of fault, two dispatchers on the same rows, two workers.
CONSTANTS
    NULL = NULL
    Payments = {p1}
    Tasks = {t1, t2}
    Dispatchers = {d1, d2}
    MaxAttempts = 3
    BaseDelay = 1
    BatchSize = 2
    MaxStalledCount = 1
    References = {{}, {"PERM_FAIL"}, {"TEMP_FAIL"},
                  {"TEMP_FAIL", "TEMP_FAIL_ONCE"}, {"TEMP_FAIL", "TEMP_FAIL_TWICE"}}
    Faults = {"publish", "restart", "throw", "die", "stall"}
    MaxFaults = 2
SPECIFICATION SimulatedSpec
SYMMETRY Symmetry
INVARIANTS
    PipelineTypeOK
    PublishedMeansQueued
    WaitingWorkNotCompleted
    SettlesAsDocumented
PROPERTIES
    ImplementsProcessing
