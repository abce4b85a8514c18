SPECIFICATION LiveSpec
CONSTANTS
    Wallets = {w1}
    Requests = {}
    Credits = {}
    Orders = {o1}
    ExternalRefunds = {}
    Disputes = {}
    References = {}
    Amounts = {1}
    MaxMinor = 2
    MaxAttempts = 2
    MaxActiveOrders = 1
    KeyConflicts = TRUE
CHECK_DEADLOCK FALSE
PROPERTIES
    OrderDecided
