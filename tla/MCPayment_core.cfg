SPECIFICATION Spec
CONSTANTS
    Wallets = {w1}
    Requests = {}
    Credits = {c1}
    Orders = {o1}
    ExternalRefunds = {x1}
    Disputes = {}
    References = {x1}
    Amounts = {1}
    MaxMinor = 2
    MaxAttempts = 2
    MaxActiveOrders = 1
    KeyConflicts = TRUE
VIEW View
CHECK_DEADLOCK FALSE
INVARIANTS
    CreditedForMoney
    NoPaymentLost
    ReleasedRefundIsNotMade
PROPERTIES
    WalletSpec
    TransitionsAllowed
