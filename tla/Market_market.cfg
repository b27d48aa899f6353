CONSTANTS
    a1 = a1
    a2 = a2
    Accounts = {a1, a2}
    INIT_BAL <- MCInitBal
    MAX_AMOUNT = 2
    PRICES <- MCPrices
    MAX_ORDERS = 3
    MAX_CONVERTS = 1
    MAX_TIME = 3
    CONVERSION_DELAY = 1
    MEDIAN <- MCMedian
    null = null
    NULL = null
    MAX_WITHDRAWS = 2
    MAX_TRANSFERS = 1
    MAX_OPS = 3
    SAVINGS_WITHDRAW_TIME = 1
    SAVINGS_WITHDRAW_REQUEST_LIMIT = 1
    HF14_TIME = 1
SYMMETRY Symmetry
SPECIFICATION Spec
INVARIANTS
    SupplyMatchesHoldings
    BookNotCrossed
    NoFillForNothing
    WithdrawRequestsCounted
CHECK_DEADLOCK FALSE
