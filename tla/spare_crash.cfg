SPECIFICATION DegradedSpec
CONSTANTS
    s1 = s1
    s2 = s2
    Slot = {s1, s2}
    Size = 1
    MayBeMissing = {}
    Events = {"kill", "powerloss", "sigterm"}
    MaxSpares = 1
INVARIANTS
    NoStaleOnline
    NoStaleInSync
SYMMETRY SlotSymmetry
CHECK_DEADLOCK FALSE
