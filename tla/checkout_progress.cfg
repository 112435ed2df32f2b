SPECIFICATION FairCheckoutSpec
CONSTANTS
    k1 = k1
    k2 = k2
    p1 = p1
    p2 = p2
    p3 = p3
    u1 = u1
    r1 = r1
    r2 = r2
    e1 = e1
    e2 = e2
    w1 = w1
    NoProduct = NoProduct
    Requests = {r1, r2}
    Keys = {k1, k2}
    DirectKeys = {}
    Calls <- AllCalls
    Products = {p1}
    Missing = {}
    Stock <- OneUnitEach
    Free = {}
    CurrencyOf <- OneCurrency
    Workers = {w1}
    BatchSize = 1
    ProviderOutcomes = {"ok", "declined"}
    Faults = TRUE
    Users = {u1}
    MaxQuantity = 2
    Edits = {e1}
    EditCalls <- AddOne
    Owner <- OneUser
PROPERTY
    EveryCheckoutAnswered
