SPECIFICATION SessionSpec
CONSTANTS
    Requests = {r1, r2}
    Accounts = {alice, bob}
    Owner = alice
    Addresses = {a1, a2}
    AccountLimit = 2
    IpLimit = 3
    MaxEntries = 2
    Window = 2
    SessionTTL = 2
    Passwords = {1, 2}
    RecoveryCodes = {1}
    RequireAdminMFA = TRUE
    MaxFactors = 2
    MaxGenerations = 2
    MaxTime = 3
    MaxRequests = 4
SYMMETRY Symmetry
CHECK_DEADLOCK FALSE
INVARIANTS
    SessionSafety
    AttemptsLimited
PROPERTIES
    FactorStays
