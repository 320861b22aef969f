SPECIFICATION Spec
CONSTANTS
    Strategies <- MCProgressive
    Readings = {"inRange", "outOfRange"}
    InitialAnnotations = {"other"}
    UserAnnotations = {}
    MaxRevision = 2
    MaxGeneration = 1
    MaxPromotes = 0
    MaxFailures = 0
INVARIANT AnalyzedStepIsRouted
