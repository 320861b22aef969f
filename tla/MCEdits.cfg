SPECIFICATION FairSpec
CONSTANTS
    Strategies <- MCEdited
    Readings = {"inRange", "outOfRange", "infinite", "error"}
    InitialAnnotations = {"other"}
    UserAnnotations = {"promote", "abort"}
    MaxRevision = 3
    MaxGeneration = 2
    MaxPromotes = 2
    MaxFailures = 1
PROPERTIES
    TrafficOnlyRises
    OverrunEnds
    Settles
    FollowsTarget
    AbortAnswered
