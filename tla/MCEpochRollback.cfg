SPECIFICATION RollbackSpec
CONSTANTS
    InitialHeight = 0
    EpochBlocks = {2, 3}
    EpochDurations = {1, 5}
    TimeSteps = {1, 2}
    MaxHeight = 8
INVARIANTS
    ValidatorSetAligned
CHECK_DEADLOCK FALSE
