SPECIFICATION AddrSpec
CONSTANTS
    a1 = a1
    a2 = a2
    a3 = a3
    s1 = s1
    s2 = s2
    s3 = s3
    NoAddr = NoAddr
    Addrs <- MCAddrs
    Sources <- MCSources
    Buckets <- MCBuckets
    Positions <- MCPositions
    TriedSlots <- MCTried
    NewBucket <- MCNewBucket
    NewPosition <- MCNewPosition
    TriedSlot <- MCTriedSlot
    MaxRefs = 2
    MaxPct = 70
INVARIANTS
    TableConsistent
PROPERTIES
    LoadRestores
