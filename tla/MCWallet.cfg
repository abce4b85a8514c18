SPECIFICATION Spec
CONSTANTS
    Wallets = {w1}
    Requests = {r1, r2}
    Credits = {c1}
    Orders = {o1}
    References = {l1, l2}
    Amounts = {1, 2}
    MaxMinor = 3
SYMMETRY Symmetry
CHECK_DEADLOCK FALSE
INVARIANTS
    TypeOK
    FinancialHoldExact
    BooksBalance
    ChargesExact
PROPERTIES
    NoReservationInDebt
    OldestDebtFirst
    FactsAreFinal
