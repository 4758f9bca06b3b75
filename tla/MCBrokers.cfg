CONSTANTS
    d1 = d1
    d2 = d2
    Calls = {c1, c2}
    Destinations = {d1, d2}
    Operations <- AllOperations
    Limit <- TightLimit
    MaxSingleWrite = 2
SPECIFICATION FairSpec
CHECK_DEADLOCK FALSE
INVARIANTS
    LedgerBalances
    EffectIsHeld
    DestinationsPaidOnce
PROPERTIES
    EndedSessionDrains
    EveryHoldSettles
