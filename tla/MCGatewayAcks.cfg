CONSTANTS
    NUM_ACK_ENTRIES = 3
    NUM_OF_RETRIES = 2
    MAX_ID = 2
    MaxCommands = 5
    Addr <- MCAddr
    Id <- MCId
    Msg = {cmd}
SPECIFICATION GatewaySpec
INVARIANTS
    GatewayTypeOK
    ListIsPool
PROPERTIES
    BacklogDrains
