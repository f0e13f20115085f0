SPECIFICATION Spec
CONSTANTS
    Modes <- MCModes
    CommandLimit = 2
    LastExponent = 1
    DeathLimit = 1
INVARIANT OffMeansNotTranscribed
CHECK_DEADLOCK FALSE
