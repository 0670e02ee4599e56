CONSTANTS
    Threads = {1, 2, 3}
    MaxThreads = 3
    MaxCalls = 2
SPECIFICATION FairPoolSpec
INVARIANTS
    PoolTypeOK
    TakesTurns
PROPERTIES
    DestroyIsDone
CHECK_DEADLOCK FALSE
