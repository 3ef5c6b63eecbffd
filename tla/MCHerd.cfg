CONSTANTS
    NUMBER_OF_COWS = 3
    register_cows <- MCCows
    Unregistered = {9}
    COWS_SEEN_ALARM_WINDOW = 3
    COUNTER_RANGE = 3
SPECIFICATION Spec
INVARIANTS
    TypeOK
    
    SeenIsNotMissing
PROPERTIES
    CancelFollowsAlarm
    AlarmEnds
    SilentCowAlarms
