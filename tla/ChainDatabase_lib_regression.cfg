CONSTANTS
    Genesis = 0
    Blocks <- MCBlocks
    Parent <- MCParent
    Producer <- MCProducer
    w1 = w1
    w2 = w2
    w3 = w3
    Witnesses = {w1, w2, w3}
    Fates = {"valid", "invalid"}
    MAX_WITNESSES = 5
    START_MINER_VOTING_BLOCK = 0
    MAX_UNDO_HISTORY = 10000
    FORK_DB_MAX_SIZE = 1024
    KEEP_BELOW = 1
    CRASHES = {}
SPECIFICATION Spec
INVARIANT
    LibNotBelowCommitted
CHECK_DEADLOCK FALSE
