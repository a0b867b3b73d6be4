SPECIFICATION FairSpec
CONSTANTS
    c1 = c1
    c2 = c2
    v1 = v1
    v2 = v2
    v3 = v3
    n1 = n1
    h1 = h1
    h2 = h2
    Container = {c1, c2}
    VolumesOf <- MCVolumes
    Native = {n1}
    Spare = {h1, h2}
    RaidDisks = 2
    Rank <- MCRank
    Scenario <- MCScenario
    Nowhere = Nowhere
    NoVolume = NoVolume
    NoSpare = NoSpare
    Happens = {}
INVARIANTS
    FrozenIsQuiet
    OneOwner
    NotForNothing
PROPERTIES
    SpareArrives
