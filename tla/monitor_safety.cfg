SPECIFICATION HealthySpec
CONSTANTS
    s1 = s1
    s2 = s2
    Slot = {s1, s2}
    Size = 1
    MayBeMissing = {s1, s2}
    Events = {"fail", "powerloss", "kill", "readonly", "check", "sigterm"}
INVARIANTS
    TypeOK
    NoTornClean
    DirtyBeforeWrite
    FailureRecorded
SYMMETRY SlotSymmetry
CHECK_DEADLOCK FALSE
