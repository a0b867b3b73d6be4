SPECIFICATION FairSpec
CONSTANTS
    d1 = d1
    d2 = d2
    d3 = d3
    Mdmon = {d1, d2, d3}
    NoProc = NoProc
    Happens = {"kill", "stop"}
INVARIANTS
    OneActs
    Reachable
PROPERTIES
    Watched
CHECK_DEADLOCK FALSE
