SPECIFICATION FairSpec
CONSTANTS
    Users = {"one", "two"}
    Products = {"p"}
    MaxQuantity = 3
    Faults = TRUE
    Pending = 3
INVARIANTS
    StorefrontTypeOK
PROPERTIES
    OptimismConfirmed
    FailureIsContained
    ClicksAreSettled
