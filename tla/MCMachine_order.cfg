SPECIFICATION MachineSpec
CONSTANTS
    N = 3
    Id <- ThreePlayers
    MaxProcs = 9
    MAX_CHAMPIONS = 4
    CYCLE_TO_DIE = 60
    CYCLE_DELTA = 15
    NBR_LIVE = 6
    NUKED_CYCLES = 2
    Cycles <- Costs
    MaxCost = 8
    Dump = 0
    MEM_SIZE = 63
    IDX_MOD = 16
    REG_NUMBER = 16
    IntBits = 16
    Programs <- SmallPrograms
    Fill <- Pattern
    Filled = 20
    Stray <- Strays
INVARIANTS MachineTypeOK ProgramOrder OnlyClonesCrash
PROPERTIES OwnFieldsOnly StuckForGood
CHECK_DEADLOCK FALSE
