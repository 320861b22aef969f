SPECIFICATION MonitorSpec
CONSTANTS
    Strategies <- MCPlans
    Metrics <- MCMetrics
    Providers = {"prometheus", "dynatrace"}
    Answers <- MCAnswers
    Readings = {"inRange", "outOfRange", "nan", "infinite", "error"}
    InitialAnnotations = {"other"}
    UserAnnotations = {"promote", "abort", "paused"}
    MaxRevision = 3
    MaxGeneration = 1
    MaxPromotes = 1
    MaxFailures = 1
INVARIANTS
    TypeOK
    NoLeak
    LeakInv
    StatusCoherent
    TrafficWithinReach
    PromotesPaidFor
    PromoteAccount
    AtRest
    FailuresBounded
    AbortHeld
    GaugeTellsStatus
    EndsAreCounted
PROPERTIES
    AbortOnlyByRollback
    KeepsLifecycle
    ImplementsReconciler
