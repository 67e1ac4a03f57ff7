SPECIFICATION FairSpec
CONSTANTS
    Lifecycles = {0, 1}
    Hashes = {h1, h2}
    N = 3
    Intervals = {0, 2}
    Unprovable = {1}
    NoHash = NoHash
    NoDb = NoDb
    Nobody = Nobody
    MaxFaults = 2
INVARIANTS
    DoneIsComplete
    CheckpointsTagged
    ProvenIsDone
PROPERTIES
    MarkedAsPointed
    EveryLifecycleProven
CHECK_DEADLOCK FALSE
