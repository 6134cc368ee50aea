SPECIFICATION Spec
CONSTANTS
    MEM_SIZE = 10
    MAX_CHAMPIONS = 3
    Tokens <- AllTokens
    MaxArgs = 5
    Garbage <- AnyGarbage
INVARIANTS TypeOK StartsOnOwnCode FarApart NumbersAsGiven AllInSlots
CHECK_DEADLOCK FALSE
