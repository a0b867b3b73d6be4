SPECIFICATION FairSpec
CONSTANTS
    Slide = 4
    Larger = 2
    Depth = 2
    MaxCrashes = 2
    Shapes <- ShapesAll
    Migrations <- Volumes1
    Happens = {"sigterm", "kill"}
INVARIANTS
    NothingLost
PROPERTIES
    ReshapeEnds
CHECK_DEADLOCK FALSE
