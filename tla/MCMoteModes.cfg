CONSTANTS
    Mote = {1, 2, 3}
    MY_ADDRESS_1 = 1
    defaultGateway = 0
    RUNNING_MAX = 2
    RUNNING_CAP = 3
    EMERGENCY_DATA_MAX = 2
    MaxAcks = 1
SPECIFICATION Spec
INVARIANTS
    TypeOK
    GatewayMatchesRole
    FullPowerOutsideCluster
    AlarmOnlyWhileRunning
PROPERTIES
    ReturnsToDefault
