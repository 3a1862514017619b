SPECIFICATION Spec
CONSTANTS
    NumVps = 4
    Answers = {"accept", "reject"}
    GasCosts = {1, 20}
    GasLeft = 35
INVARIANTS
    ConsistentVpsResult
CHECK_DEADLOCK FALSE
