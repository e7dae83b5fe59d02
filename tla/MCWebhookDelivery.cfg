\* One delivery, two workers, two dispatchers, three attempts.
CONSTANTS
    NULL = NULL
    Subscriptions = {s1}
    Events = {e1}
    Materializers = {m1, m2}
    Tasks = {t1, t2}
    MaxAttempts = 3
    BaseDelay = 1
SPECIFICATION Spec
SYMMETRY Symmetry
INVARIANTS
    AttemptExclusive
    PostedOncePerAttempt
    OutcomeIsTruthful
    WaitingDeliveryHasTicket
PROPERTIES
    ImplementsLifecycle
    AttemptsAreAllowed
