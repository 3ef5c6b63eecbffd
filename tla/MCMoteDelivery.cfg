CONSTANTS
    NUM_ACK_ENTRIES = 2
    NUM_OF_RETRIES = 2
    Msg <- MCMsg
    Addr <- MCAddr
    Id <- MCId
    IdOf <- MCIds
    ToOf <- MCTo
    Forwarded = {"member"}
SPECIFICATION FairDSpec
INVARIANTS
    AckTypeOK
    ListIsPool
    UniqueKeys
    RetryLeft
    CursorRetryLeft
    ConfirmedWasReceived
PROPERTIES
    GivesUpCounted
    Implements
    BacklogDrains
CHECK_DEADLOCK FALSE
