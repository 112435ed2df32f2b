SPECIFICATION Spec
CONSTANTS
    Requests = {r1, r2, r3, r4}
    Browsers = {"one", "two"}
    Emails = {"a", "A", "b", ""}
    Normal <- Lower
    Blank = ""
    Passwords = {"pa", "pb", ""}
    BadPasswords = {""}
    Orders = {"o"}
    Calls <- SomeCalls
    Faults = TRUE
    None = None
SYMMETRY Symmetric
INVARIANTS
    AccountsTypeOK
    OneAccountPerEmail
    SessionIsEarned
    ServedToOwner
PROPERTIES
    AccountUsable
CHECK_DEADLOCK FALSE
