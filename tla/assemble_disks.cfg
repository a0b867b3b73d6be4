SPECIFICATION Spec
CONSTANTS
    RaidDisks = 3
    Level = 5
    Near = 1
    Order <- Listed
    KernelAsks = TRUE
    MaxEvents = 5
    MaxWrites = 2
    MaxCrashes = 1
    Happens = {}
INVARIANTS
    NothingStale
    ForceStarts
PROPERTIES
    NewestUsed
CHECK_DEADLOCK FALSE
