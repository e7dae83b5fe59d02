\* Every spelling of one field, twice with the same key; the run stops after two requests.
CONSTANTS
    Base = 2
    IntegerLimit = 4
    MaxLength = 2
    Fields = {"customerId", "reference"}
    Requests <- MCRequests
    Rounded <- MCRounded
    MaxRequests = 2
    Absent = Absent

SPECIFICATION Spec
CHECK_DEADLOCK FALSE
INVARIANTS
    SameMeaningSamePayment
    RefusedIffRuleBroken
    ShownAsSubmitted
