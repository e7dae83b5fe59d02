\* One delivery, one worker, one attempt.
CONSTANTS
    NULL = NULL
    Subscriptions = {s1}
    Events = {e1}
    Materializers = {m1}
    Tasks = {t1}
    MaxAttempts = 1
    BaseDelay = 1
SPECIFICATION Spec
SYMMETRY Symmetry
INVARIANTS
    AcknowledgedNeverFails
