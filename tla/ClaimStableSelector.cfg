SPECIFICATION Spec
CONSTANTS
    Targets <- MCTargets
    Ports <- MCPorts
    MaxCanaries = 1
    MaxEdits = 0
    MaxFailures = 0
INVARIANT StableServiceSelectsStable
CHECK_DEADLOCK FALSE
