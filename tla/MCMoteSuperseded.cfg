CONSTANTS
    NUM_ACK_ENTRIES = 2
    NUM_OF_RETRIES = 2
    Msg <- MCMsg
    Addr <- MCAddr
    Id <- MCId
    IdOf <- MCIds
    ToOf <- MCTo
    Forwarded = {"member"}
SPECIFICATION DSpec
INVARIANTS
    NeverSuperseded
CHECK_DEADLOCK FALSE
