\* A worker and the operator's command, pages shorter than the feed.
SPECIFICATION MCSpec
CONSTANTS
    Workers = {worker}
    Operators = {operator}
    Events = {e1, e2}
    BatchSize = 2
    MaxAttempts = 2
    MaxSequence = 3
    MaxFaults = 2
INVARIANTS
    InOrder
PROPERTIES
    BlockedHolds
    SettledForCause
    NothingSkipped
    CatchesUp
