SPECIFICATION FairSpec
CONSTANTS
    Weights = {20, 60}
    MaxEdits = 2
    MaxAsks = 4
    MaxFailures = 1
INVARIANTS
    TypeOK
    ResetSticks
PROPERTIES
    Converges
    KeepsContract
CHECK_DEADLOCK FALSE
