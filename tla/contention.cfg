SPECIFICATION Spec
CONSTANTS
    k1 = k1
    k2 = k2
    d1 = d1
    p1 = p1
    p2 = p2
    p3 = p3
    r1 = r1
    r2 = r2
    r3 = r3
    w1 = w1
    w2 = w2
    NoProduct = NoProduct
    Requests <- ThreeRequests
    Keys = {k1, k2}
    DirectKeys = {}
    Calls <- ContentionCalls
    Products <- TwoProducts
    Missing = {}
    Stock <- OneUnitEach
    Free = {}
    CurrencyOf <- OneCurrency
    Workers = {w1}
    BatchSize = 1
    ProviderOutcomes = {"ok", "declined"}
    Faults = FALSE
SYMMETRY RequestSymmetry
INVARIANTS
    StockConserved
    SoldWithinStock
    AbortedHoldsNothing
    TimelyPaymentLands
    LostPaymentExplained
