SPECIFICATION FairSpec
CONSTANTS
    N = 3
    Id <- ThreePlayers
    MaxProcs = 6
    MAX_CHAMPIONS = 4
    CYCLE_TO_DIE = 6
    CYCLE_DELTA = 2
    NBR_LIVE = 2
    NUKED_CYCLES = 2
    Cycles <- AllCycles
    MaxCost = 3
    Dump = 4
INVARIANTS TypeOK CheckPunctual NoLoneSurvivor LivesAccounted SearchTerminates CurrentReachable
PROPERTIES ForkRewiresOwn LostForGood StarvedForGood IsTournament GameEnds IsFairTournament
CHECK_DEADLOCK FALSE
