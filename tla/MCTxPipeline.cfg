SPECIFICATION FairSpec
CONSTANTS
    w1 = w1
    w2 = w2
    w3 = w3
    x1 = x1
    x2 = x2
    Hashes <- MCHashes
    Wrappers <- MCWrappers
    Inners <- MCInners
    Inner <- MCInner
    Bytes <- MCBytes
    Gas <- MCGas
    VoteBytes = {4}
    ProposalBytes = {13, 15}
    MaxTxBytes = 4
    MaxBlockGas = 2
    MaxVotes = 2
    MaxCrashes = 2
INVARIANTS
    TypeOK
    NoPanic
    AppliedOnce
    ChargedOnce
    ChargedIsRefused
    QueuedNotInAll
    HonestProposalsAccepted
PROPERTIES
    InnerHashKept
    QueueDrains
