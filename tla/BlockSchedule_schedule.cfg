CONSTANTS
    w1 = w1
    w2 = w2
    w3 = w3
    Witnesses = {w1, w2, w3}
    SCHEDULE <- MCSchedule
    WINDOW = 4
    MAX_TIME = 6
    BLOCKS_PER_DAY = 1
    NUM_HARDFORKS = 3
    HF_VOTED = 1
    HF_SHUTDOWN = 2
    HF_TIMES <- MCTimes
    HF_VERSIONS <- MCVersions
SPECIFICATION Spec
INVARIANTS
    ParticipationCountMatches
    ParticipationNotOverstated
    HardforksInOrder
PROPERTIES
    HardforkOnlyWhenDue
    ShutdownOnlyWhenAbsent
CHECK_DEADLOCK FALSE
