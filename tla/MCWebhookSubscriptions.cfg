\* Every spelling of a subscription; two handlers serve requests for two.
CONSTANTS
    Handlers = {h1, h2}
    SubscriptionIds = {s1, s2}
    Creations <- MCCreations
    Customers <- MCCustomers
    MaxLength = 3
    MaxParam = 2
    MaxUrl = 1
    MinSecret = 2
    MaxSecret = 3
    Production = FALSE
    NULL = NULL

SPECIFICATION Spec
SYMMETRY Symmetry
INVARIANTS
    StoredIsAllowed
    AllowedIsAccepted
    UpdateShowsItsValue
PROPERTY ListingIsExact
