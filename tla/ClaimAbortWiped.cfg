SPECIFICATION Spec
CONSTANTS
    Strategies <- MCManual
    Readings = {}
    InitialAnnotations = {}
    UserAnnotations = {"promote", "abort"}
    MaxRevision = 2
    MaxGeneration = 1
    MaxPromotes = 1
    MaxFailures = 0
PROPERTY AbortOnlyByRollback
