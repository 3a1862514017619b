SPECIFICATION RollbackSpec
CONSTANTS
    w1 = w1
    w2 = w2
    w3 = w3
    x1 = x1
    x2 = x2
    Hashes <- MCHashes
    Wrappers <- MCWrappers
    Inners <- MCInners
    Inner <- MCInner
    Bytes <- MCBytes
    Gas <- MCGas
    VoteBytes = {4}
    ProposalBytes = {13, 15}
    MaxTxBytes = 4
    MaxBlockGas = 3
    MaxVotes = 1
    MaxCrashes = 1
SYMMETRY Symmetry
INVARIANTS
    NoPanic
    ChargedOnce
