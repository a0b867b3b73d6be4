SPECIFICATION FairSpec
CONSTANTS
    c1 = c1
    c2 = c2
    Client = {c1, c2}
    PerFlush = 2
    Happens = {"slow", "sigterm", "kill"}
INVARIANTS
    FlushedIsWritten
    AckedIsKept
    AppliedInOrder
    ManagerAlone
PROPERTIES
    FlushReturns
CHECK_DEADLOCK FALSE
