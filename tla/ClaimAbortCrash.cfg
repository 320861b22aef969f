SPECIFICATION FairSpec
CONSTANTS
    Strategies <- MCManual
    Readings = {}
    InitialAnnotations = {"other"}
    UserAnnotations = {"abort"}
    MaxRevision = 2
    MaxGeneration = 1
    MaxPromotes = 0
    MaxFailures = 1
PROPERTY AbortRollsBack
