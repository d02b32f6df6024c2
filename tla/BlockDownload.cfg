SPECIFICATION Spec
CONSTANTS
    p1 = p1
    p2 = p2
    NoPeer = NoPeer
    NoBlock = NoBlock
    Blocks <- SmallBlocks
    Genesis = 0
    Parent <- SmallParent
    Height <- SmallHeight
    Work <- SmallWork
    Rank <- SmallRank
    Peers <- BothPeers
    Preferred <- BothPeers
    Bad <- Block3
    MaxInTransit = 2
    Window = 1
    KeepBlocks = 1
    InvBlocks <- Block2
    MaxConnects = 1
INVARIANTS
    DownloadExact
    StallerOwesBlock
    NeverIdle
CHECK_DEADLOCK FALSE
SYMMETRY Symmetry
