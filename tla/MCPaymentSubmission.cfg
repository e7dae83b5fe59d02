\* Two handlers, two customers using one key for two contents.
CONSTANTS
    NULL = NULL
    MaxAttempts = 1
    BaseDelay = 1
    Handlers = {h1, h2}
    Customers = {c1, c2}
    Keys = {k1}
    Contents = {pay10, pay20}
    Formats = {plain, padded}
    PaymentIds = {p1, p2, p3}
SPECIFICATION Spec
SYMMETRY Symmetry
INVARIANTS
    TypeOK
    AnswersAgree
    AcceptedIsDurable
    ConflictIsGenuine
    EveryPaymentHasItsKey
    LoserFindsWinner
