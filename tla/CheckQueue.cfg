SPECIFICATION FairSpec
CONSTANTS
    w1 = w1
    w2 = w2
    m = m
    MaxChecks = 4
    Workers <- MCWorkers
    Master = m
    Checks <- MCChecks
    BadChecks <- MCBadChecks
    BatchSize = 2
    MaxSessions = 2
INVARIANTS
    ControlFindsIdle
    VerdictCorrect
PROPERTIES
    WaitReturns
CHECK_DEADLOCK FALSE
