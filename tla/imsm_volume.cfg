SPECIFICATION FairSpec
CONSTANTS
    Volumes <- MirrorAndPairs
    Spares = 1
    Size = 2
    None = None
    Happens = {"fail", "powerloss", "absent", "kill", "stop"}
INVARIANTS
    NoStaleUsed
    NoTornForgotten
PROPERTIES
    RebuildEnds
CHECK_DEADLOCK FALSE
