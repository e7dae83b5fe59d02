\* One payment, three concurrent calls, three attempts.
CONSTANTS
    NULL = NULL
    Payments = {p1}
    Tasks = {t1, t2, t3}
    MaxAttempts = 3
    BaseDelay = 1
SPECIFICATION Spec
SYMMETRY Symmetry
INVARIANTS
    ClaimExclusive
    BankCalledOncePerAttempt
    AuditTrailComplete
    WaitingPaymentHasTicket
    CompletedMeansExecuted
PROPERTIES
    TerminalIsFinal
    RetryWaitsForDelay
    ImplementsLifecycle
