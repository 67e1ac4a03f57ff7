SPECIFICATION Spec
CONSTANTS
    Lifecycles = {0, 1}
    Hashes = {h1, h2}
    N = 3
    Intervals = {0, 2}
    Unprovable = {}
    NoHash = NoHash
    NoDb = NoDb
    Nobody = Nobody
    MaxFaults = 1
INVARIANTS
    CheckpointsConsistent
CHECK_DEADLOCK FALSE
