SPECIFICATION FairMergeSpec
CONSTANTS
    N = 5
    MergeConcurrency = 3
    NoProof = NoProof
    MaxMergeFaults = 3
INVARIANTS
    StoredCoversItsId
    RootIsComplete
    NeverStalls
PROPERTIES
    Proved
CHECK_DEADLOCK FALSE
