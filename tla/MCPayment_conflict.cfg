SPECIFICATION Spec
CONSTANTS
    Wallets = {w1}
    Requests = {}
    Credits = {}
    Orders = {o1}
    ExternalRefunds = {}
    Disputes = {}
    References = {}
    Amounts = {1}
    MaxMinor = 1
    MaxAttempts = 2
    MaxActiveOrders = 1
    KeyConflicts = TRUE
VIEW View
CHECK_DEADLOCK FALSE
INVARIANTS
    ReleasedOnlyIfNotMade
