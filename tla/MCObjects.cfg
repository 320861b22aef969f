SPECIFICATION FairSpec
CONSTANTS
    Targets <- MCTargets
    Ports <- MCPorts
    MaxCanaries = 2
    MaxEdits = 2
    MaxFailures = 1
INVARIANTS
    TypeOK
    CleanedUp
PROPERTIES
    StableServiceIsKept
    Collected
    Converges
CHECK_DEADLOCK FALSE
