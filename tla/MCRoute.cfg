SPECIFICATION FairSpec
CONSTANTS
    Weights = {10, 60, 100}
    UserRoutes <- MCUserRoutes
    MaxEdits = 3
    MaxAsks = 3
    MaxFailures = 2
INVARIANTS
    TypeOK
    UserEditsSurvive
    ResetSticks
    SharesAreWhole
    StatusReportsNear
    RouteInv
PROPERTIES
    Converges
    KeepsContract
CHECK_DEADLOCK FALSE
