SPECIFICATION Spec
CONSTANTS
    t1 = t1
    t2 = t2
    NoThread = NoThread
    Threads <- TwoThreads
    Blocks <- SmallBlocks
    Genesis = 0
    Parent <- SmallParent
    Height <- SmallHeight
    Work <- SmallWork
    Rank <- SmallRank
    InvalidBody <- NoBlocks
    InvalidScripts <- NoBlocks
    HeaderFirst <- NoBlocks
    InvalidateTargets <- Block1
    ReconsiderTargets <- Block1
    PruneMode = FALSE
    MinBlocksToKeep = 2
    PruneAfterHeight = 2
    MaxCalls = 2
    MaxRestarts = 0
    MaxErrors = 1
    MaxSeq = 9
INVARIANTS
    ActiveChainNotFailed
    TipIsBest
SYMMETRY TwoAlike
CHECK_DEADLOCK FALSE
