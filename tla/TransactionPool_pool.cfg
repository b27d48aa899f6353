CONSTANTS
    t1 = t1
    t2 = t2
    Txs = {t1, t2}
    Exp <- MCExp
    MAX_TIME = 5
    MAX_HEIGHT = 3
    MAX_TIME_UNTIL_EXPIRATION = 2
    MAX_BLOCK_TXS = 3
    HF9_TIME = 3
    RING = 2
    REF <- MCRef
SPECIFICATION Spec
INVARIANTS
    NoDuplicateOnChain
    PendingMirrorsSession
    TaposOnChain
PROPERTIES
    NoValidTransactionLost
