CONSTANTS
    a1 = a1
    a2 = a2
    a3 = a3
    a4 = a4
    w1 = w1
    w2 = w2
    Accounts = {a1, a2, a3, a4}
    AccountOrder <- MCAccountOrder
    Witnesses = {w1, w2}
    INITIAL_ESCOR <- MCInitialESCOR
    MAX_PROXY_RECURSION_DEPTH = 2
    WITHDRAW_AMOUNTS = {5}
    WITHDRAWERS = {a1}
    ROUTE_PERCENTS = {5000}
    ESCOR_WITHDRAW_INTERVALS = 2
    ESCOR_WITHDRAW_INTERVAL_SECONDS = 1
    DECLINE_VOTING_RIGHTS_DELAY = 1
    MAX_WITHDRAW_ROUTES = 1
    MAX_TIME = 3
    MAX_GAP = 2
    MAX_OPS = 4
    PRODUCER = a2
    PRODUCER_REWARD = 0
SPECIFICATION Spec
INVARIANTS
    VoteWeightsMatchTotal
    WitnessVotesTallied
    ProxiedMatchesChains
    WithdrawnWithinRequest
CHECK_DEADLOCK FALSE
