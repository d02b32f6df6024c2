SPECIFICATION Spec
CONSTANTS
    t1 = t1
    t2 = t2
    NoThread = NoThread
    Threads <- OneThread
    Blocks <- HeavyBlocks
    Genesis = 0
    Parent <- HeavyParent
    Height <- HeavyHeight
    Work <- HeavyWork
    Rank <- HeavyRank
    InvalidBody <- NoBlocks
    InvalidScripts <- Block4
    HeaderFirst <- NoBlocks
    InvalidateTargets <- NoBlocks
    ReconsiderTargets <- NoBlocks
    PruneMode = TRUE
    MinBlocksToKeep = 1
    PruneAfterHeight = 1
    MaxCalls = 0
    MaxRestarts = 1
    MaxErrors = 0
    MaxSeq = 9
INVARIANTS
    MissingDataTracked
    
    ActiveChainVerified
    DiskCoherent
    CandidateLeft
    LinkedSound
CHECK_DEADLOCK FALSE
