SPECIFICATION Spec
CONSTANTS
    NumVps = 4
    Answers = {"accept", "invalid_sig", "error"}
    GasCosts = {5, 32}
    GasLeft = 35
INVARIANTS
    OutcomeIndependentOfSchedule
CHECK_DEADLOCK FALSE
