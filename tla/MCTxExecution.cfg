SPECIFICATION ExecSpec
CONSTANTS
    b1 = b1
    b2 = b2
    p1 = p1
    c1 = c1
    NoVal = NoVal
    Keys <- MCKeys
    VpKey <- MCVpKey
    MaxAccounts = 1
    Payers = {b1, b2}
    proposer = b2
    Codes = {c1}
    TempValues = {c1, 1}
    Values <- MCValues
    Events <- MCEvents
    MaxAmount = 2
    Fees = {2, 3}
    MaxTxs = 2
INVARIANTS
    FailedLeavesNothing
    ChargedPaysFee
    AddressesFresh
    AcceptedEventsReported
