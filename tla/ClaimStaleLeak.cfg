SPECIFICATION StaleFairSpec
CONSTANTS
    Strategies <- MCManual2
    Readings = {}
    InitialAnnotations = {"other"}
    UserAnnotations = {"abort"}
    MaxRevision = 2
    MaxGeneration = 1
    MaxPromotes = 0
    MaxFailures = 0
    MaxRecreations = 0
    MaxStaleReads = 1
PROPERTY LeaksAreCleared
