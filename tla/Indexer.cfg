SPECIFICATION FairSpec
CONSTANTS
    Blocks <- MCBlocks
    Events = {"x", "y", "z"}
    Root = "g"
    Parent <- MCParent
    Height <- MCHeight
    EventsIn <- MCEventsIn
    Malformed <- MCMalformed
    StartHeight = 0
    BlockBatchSize = 2
    CanonicalOverlap = 1
    OrphanDepth = 1
INVARIANTS
    Sound
    OneBranch
    CursorCovered
PROPERTIES
    Converges
