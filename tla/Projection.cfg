SPECIFICATION MCSpec
CONSTANTS
    Blocks <- MCBlocks
    Root = "g"
    Parent <- MCParent
    Height <- MCHeight
    EventsIn <- MCEventsIn
    Events <- MCEvents
    Type <- MCType
    Payload <- MCPayload
    Undecodable = {"odd"}
    PayoutLimit = 3
    Workers = {w1, w2}
    BatchSize = 2
    None = None
    MaxObservations = 1
    MaxCrashes = 1
INVARIANTS
    Sound
    ProjectionCurrent
PROPERTIES
    ReplayWhole
    CatchesUp
CHECK_DEADLOCK FALSE
