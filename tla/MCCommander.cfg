CONSTANTS
    COMMANDER_BUFF_SIZE = 7
    Mote <- MCMote
    Target <- MCTarget
    NUMBER_OF_COWS = 2
    register_cows <- MCCows
SPECIFICATION FairSpec
INVARIANTS
    TypeOK
    MisreadOnlyWhenTorn
PROPERTIES
    ImplementsQueue
