SPECIFICATION FairSpec
CONSTANTS
    w1 = w1
    w2 = w2
    r1 = r1
    r2 = r2
    r3 = r3
    NoRequest = NoRequest
    Workers <- MCWorkers
    Requests <- MCRequests
    MaxDepth = 1
INVARIANTS
    QueueSafe
PROPERTIES
    EveryRequestAnswered
    ShutdownEnds
CHECK_DEADLOCK FALSE
