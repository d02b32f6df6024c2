SPECIFICATION IndexedSpec
CONSTANTS
    Blocks <- MCBlocks
    Genesis = 0
    Parent <- MCParent
    Height <- MCHeight
    Work <- MCHeight
    Rank <- MCRank
    Txs <- MCTxs
    Vtx <- MCVtx
    Vin <- MCVin
    Outs <- MCOuts
    Addressed <- MCAddressed
    Time <- MCTime
    MaxFaults = 1
INVARIANTS
    LayersSound
    SpendsAvailable
    DisconnectClean
    IndexesExact
PROPERTIES
    RejectionJustified
    ImplementsUtxoSet
