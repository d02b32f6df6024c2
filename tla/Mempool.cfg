SPECIFICATION RelaySpec
CONSTANTS
    Blocks <- MCBlocks
    Genesis = 0
    Parent <- MCParent
    Height <- MCHeight
    Work <- MCHeight
    Rank <- MCRank
    Txs <- MCTxs
    Vtx <- MCVtx
    Vin <- MCVin
    Outs <- MCOuts
    Fee <- MCFee
    LockTime <- MCLockTime
    OptIn <- MCOptIn
    Maturity = 2
    LimitAncestors = 4
    LimitDescendants = 3
    MaxVisit = 0
    MaxReplace = 2
    RelayFee = 1
    MaxPool = 4
    Prioritised <- MCPrioritised
    FeeDelta = 2
    None = None
    Peers = {p1, p2}
    MaxOrphans = 2
INVARIANTS
    PoolConsistent
    DescendantStateExact
    PoolMinable
    OrphansConsistent
    NoOrphanLeftBehind
PROPERTIES
    ReplacementPays
SYMMETRY Symmetry
