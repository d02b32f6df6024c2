SPECIFICATION FairSpec
CONSTANTS
    s1 = s1
    s2 = s2
    once = once
    again = again
    NoTask = NoTask
    Freed = Freed
    Threads <- MCThreads
    Tasks <- MCTasks
    Period <- MCPeriod
    MaxTime = 2
INVARIANTS
    AccountsExact
    NotBeforeItsTime
    DrainLeavesNothing
PROPERTIES
    QueuedTaskIsTaken
    
CHECK_DEADLOCK FALSE
