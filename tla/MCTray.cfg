SPECIFICATION Spec
CONSTANTS
    Modes <- MCModes
    CommandLimit = 2
    DeathLimit = 2
    LastExponent = 0
INVARIANTS
    ControlTypeOK
    IconTellsTheTruth
    NoStrayWorker
    HoldEndsItsOwn
PROPERTIES
    WorkerComesBack
    QuitLeavesNoWorker
CHECK_DEADLOCK FALSE
