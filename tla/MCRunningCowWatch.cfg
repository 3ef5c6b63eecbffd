CONSTANTS
    Mote = {1, 2}
    defaultGateway = 0
    Runners = {1}
    Heads <- MCHeads
    RUNNING_MAX = 1
    RUNNING_CAP = 1
    EMERGENCY_DATA_MAX = 1
    MaxQueued = 1
    MaxInFlight = 2
SPECIFICATION Spec
INVARIANTS
    WatchesRunningCow
