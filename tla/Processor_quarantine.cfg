SPECIFICATION Spec
CONSTANTS
    Workers = {worker}
    Operators = {operator}
    Events = {e1, e2}
    BatchSize = 2
    MaxAttempts = 2
    MaxSequence = 2
    MaxFaults = 0
INVARIANTS
    Accounted
