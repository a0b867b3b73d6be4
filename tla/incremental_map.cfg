SPECIFICATION FairSpec
CONSTANTS
    d1 = d1
    d2 = d2
    d3 = d3
    p1 = p1
    Device = {d1, d2, d3}
    Other = {p1}
    Md = {1, 2}
    Level <- Levels
    RaidDisks <- Slots
    Boots <- AllBoots
    MaxKills = 1
    None = None
    Happens = {"kill", "timer"}
INVARIANTS
    LockExcludes
    OneArray
    NoRival
PROPERTIES
    IsStarted
CHECK_DEADLOCK FALSE
