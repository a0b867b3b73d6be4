SPECIFICATION DirtyFairSpec
CONSTANTS
    s1 = s1
    s2 = s2
    Slot = {s1, s2}
    Size = 1
    MayBeMissing = {}
    Events = {"fail", "stop"}
PROPERTIES
    WritesResume
    FailuresReleased
    StopRecorded
CHECK_DEADLOCK FALSE
