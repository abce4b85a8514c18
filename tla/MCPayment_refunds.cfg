SPECIFICATION Spec
CONSTANTS
    Wallets = {w1}
    Requests = {}
    Credits = {}
    Orders = {o1}
    ExternalRefunds = {x1, x2}
    Disputes = {d1}
    References = {x1, x2, d1}
    Amounts = {1, 2}
    MaxMinor = 2
    MaxAttempts = 1
    MaxActiveOrders = 1
    KeyConflicts = FALSE
SYMMETRY Symmetry
VIEW View
CHECK_DEADLOCK FALSE
INVARIANTS
    DisputeMatchesLiability
    RefundsExact
PROPERTIES
    WalletSpec
