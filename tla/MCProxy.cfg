SPECIFICATION LiveSpec
CONSTANTS
    Wallets = {w1}
    Requests = {r1}
    Credits = {c1, c2}
    Orders = {}
    References = {}
    Amounts = {1, 2}
    MaxMinor = 3
    Handlers = {h1, h2}
    Workers = {k1, k2}
    Prices <- AllPrices
    MaxFailures = 1
    MaxCrashes = 1
CHECK_DEADLOCK FALSE
INVARIANTS
    ChargeMatchesEvent
    AnsweredIsCharged
PROPERTIES
    ImplementsWallet
    RequestsEnd
    PendingRecovered
