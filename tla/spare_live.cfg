SPECIFICATION DegradedFairSpec
CONSTANTS
    s1 = s1
    s2 = s2
    Slot = {s1, s2}
    Size = 1
    MayBeMissing = {}
    Events = {"fail", "badspare"}
    MaxSpares = 1
PROPERTIES
    Thawed
    SpareIsUsed
CHECK_DEADLOCK FALSE
