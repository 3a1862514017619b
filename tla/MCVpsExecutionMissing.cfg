SPECIFICATION Spec
CONSTANTS
    NumVps = 4
    Answers = {"accept", "missing"}
    GasCosts = {1, 40}
    GasLeft = 35
INVARIANTS
    OutcomeIndependentOfSchedule
CHECK_DEADLOCK FALSE
