CONSTANTS
    RANGE = 8
    PACKETBUF_SIZE = 7
    MaxTaken = 12
    MaxAir = 1
SPECIFICATION Spec
INVARIANTS
    TypeOK
    QueueHoldsNewest
    EveryMeasurementAccounted
    OnlyDoubtfulAnswersLose
