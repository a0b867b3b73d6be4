SPECIFICATION FairSpec
CONSTANTS
    m1 = m1
    m2 = m2
    MaxAa = 4
    Member = {m1, m2}
    Happens = {{"level", "reshape", "raid0"}, {"level", "reshape", "stopidle"}, {"spare", "stopidle"}, {"spare", "company"}, {"level", "company"}, {"stop"}}
INVARIANTS
    NothingFreedInUse
    FilesStayOpen
PROPERTIES
    CustodyKept
    ReplacementCompletes
    StaysWatched
CHECK_DEADLOCK FALSE
