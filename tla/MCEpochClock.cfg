SPECIFICATION Spec
CONSTANTS
    InitialHeight = 0
    EpochBlocks = {2, 3}
    EpochDurations = {1, 5}
    TimeSteps = {1, 2}
    MaxHeight = 12
INVARIANTS
    TypeOK
    ValidatorSetAligned
    UpdatesNextUnsentSet
    EpochLookup
    DecidingOffsetCountsBlocks
    EpochsLongEnough
CHECK_DEADLOCK FALSE
