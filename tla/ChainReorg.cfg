SPECIFICATION FairSpec
CONSTANTS
    t1 = t1
    t2 = t2
    NoThread = NoThread
    Threads <- TwoThreads
    Blocks <- HeavyBlocks
    Genesis = 0
    Parent <- HeavyParent
    Height <- HeavyHeight
    Work <- HeavyWork
    Rank <- HeavyRank
    InvalidBody <- NoBlocks
    InvalidScripts <- Block4
    HeaderFirst <- Block3
    InvalidateTargets <- NoBlocks
    ReconsiderTargets <- NoBlocks
    PruneMode = FALSE
    MinBlocksToKeep = 2
    PruneAfterHeight = 2
    MaxCalls = 0
    MaxRestarts = 0
    MaxErrors = 0
    MaxSeq = 9
INVARIANTS
    BlockIndexConsistent
PROPERTIES
    NoWorseTip
    BestChainActivated
CHECK_DEADLOCK FALSE
