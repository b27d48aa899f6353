CONSTANTS
    a1 = a1
    a2 = a2
    c1 = c1
    c2 = c2
    Accounts = {a1, a2}
    AccountOrder <- MCAccountOrder
    Comments = {c1, c2}
    CommentOrder <- MCCommentOrder
    CURRENT_WITNESS = a1
    RSHARES <- MCRShares
    BENEFICIARY_ROUTES <- MCBeneficiaryRoutes
    PERCENT_EUSD_OPTIONS = {10000}
    INFLATION_RATE_START_PERCENT = 978
    INFLATION_RATE_STOP_PERCENT = 95
    INFLATION_NARROWING_PERIOD = 2
    BLOCKS_PER_YEAR = 1
    MAX_WITNESSES = 5
    SCHEDULE_WEIGHT = 1
    PAY_NORMALIZATION_FACTOR = 5
    RECENT_RESCOR_DECAY_RATE = 3
    CASHOUT_WINDOW_SECONDS = 2
    REVERSE_AUCTION_WINDOW_SECONDS = 2
    MEDIAN_EUSD = 1
    MEDIAN_ECO = 2
    EUSD_PRINT_RATE = 10000
    INITIAL_ESCOR = 400
    INITIAL_FUND = 400
    ESCOR_PER_ECO_EMPTY = 1
    UINT128 = 65536
    LO_BITS = 16
    MAX_TIME = 3
    MAX_GAP = 2
SPECIFICATION Spec
INVARIANTS
    SupplyMatchesHoldings
    EScoreMatchesHoldings
    RewardFundNotOverdrawn
    ApproxSqrtBounded
CHECK_DEADLOCK FALSE
