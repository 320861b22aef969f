SPECIFICATION StaleFairSpec
CONSTANTS
    Strategies <- MCManual2
    Readings = {}
    InitialAnnotations = {"other"}
    UserAnnotations = {"promote", "abort"}
    MaxRevision = 2
    MaxGeneration = 1
    MaxPromotes = 1
    MaxFailures = 1
    MaxRecreations = 1
    MaxStaleReads = 2
PROPERTIES
    StableNeverReverts
    AbortOnlyByRollback
    AbortAnsweredLate
