\* Threshold 2 of 3; two nonces, four signatures in circulation.
SPECIFICATION PauseSpec
CONSTANTS
    k1 = k1
    k2 = k2
    k3 = k3
    k4 = k4
    Proposals = {p1}
    Keys = {k1, k2, k3, k4}
    Positions = {1, 2, 3}
    Committees <- MCCommittees
    InitialCommittee <- Before
    Threshold = 2
    MaxNonce = 1
    MaxSignatures = 4
INVARIANTS
    NoReplay
    ChainOfAuthority
    DistinctSigners
CHECK_DEADLOCK FALSE
