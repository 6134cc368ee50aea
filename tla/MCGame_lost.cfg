SPECIFICATION Spec
CONSTANTS
    N = 3
    Id <- ThreePlayers
    MaxProcs = 5
    MAX_CHAMPIONS = 4
    CYCLE_TO_DIE = 5
    CYCLE_DELTA = 2
    NBR_LIVE = 2
    NUKED_CYCLES = 2
    Cycles <- AllCycles
    MaxCost = 3
    Dump = 0
INVARIANT NoProcessLost
CHECK_DEADLOCK FALSE
