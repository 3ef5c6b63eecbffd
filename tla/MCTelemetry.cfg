CONSTANTS
    MOTION_MAX = 8
    MAX_NEIGHBOURS = 2
    node_id = 1
    Neighbour = {2, 3, 5}
    Motion = {0, 2}
    Temperature <- MCTemperature
    MESSAGE_BYTE_SIZE_MAX = 10
    IDS_KEPT = 19
SPECIFICATION TelemetrySpec
INVARIANTS
    TelemetryTypeOK
    WireRoundTrip
    PacketFits
    NewestMotions
    NeighboursDistinct
    IdsRecur
