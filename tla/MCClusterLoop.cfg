CONSTANTS
    Mote <- MCMotes
    register_cows <- MCRegister
    defaultGateway = 0
    RUNNING_MAX = 5
    RUNNING_CAP = 255
    EMERGENCY_DATA_MAX = 100
    CLUSTERS_REFRESH_INTERVAL = 4
    CLUSTERS_RETRY_INTERVAL = 2
    CLUSTER_INTERVAL = 2
    Reports <- MCReports
    Weak = {2}
    Garbage = {0, 255}
    MaxLeft = 1
SPECIFICATION Spec
INVARIANTS
    NoForwardingLoop
