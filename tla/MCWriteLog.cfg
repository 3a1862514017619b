SPECIFICATION Spec
CONSTANTS
    d = d
    p1 = p1
    v1 = v1
    e1 = e1
    NoVal = NoVal
    Keys <- MCKeys
    VpKey <- MCVpKey
    Values = {v1}
    Events = {e1}
    MaxAccounts = 1
INVARIANTS
    TypeOK
    NoTempInBlock
    NoVpDeletion
    IterAgreesWithRead
PROPERTIES
    VpNeverRemoved
    ImplementsTxStore
