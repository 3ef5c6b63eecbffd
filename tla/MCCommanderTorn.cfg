CONSTANTS
    COMMANDER_BUFF_SIZE = 8
    Mote <- MCMote
    Target <- MCTarget
    NUMBER_OF_COWS = 2
    register_cows <- MCCows
SPECIFICATION Spec
INVARIANT ReadsWhatWasWritten
