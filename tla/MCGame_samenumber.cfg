SPECIFICATION Spec
CONSTANTS
    N = 4
    Id <- MiddleTwoAlike
    MaxProcs = 6
    MAX_CHAMPIONS = 4
    CYCLE_TO_DIE = 4
    CYCLE_DELTA = 2
    NBR_LIVE = 2
    NUKED_CYCLES = 2
    Cycles <- AllCycles
    MaxCost = 3
    Dump = 0
INVARIANT OnlyLostHang
PROPERTIES ForkRewiresOwn IsTournament
CHECK_DEADLOCK FALSE
