CONSTANTS
    Conns = {x1}
    NoConn = none
    Clients = {k}
    Kept = {x1}
    MaxBytes = 4
    MaxStarts = 2
    InitialSize = 3
    Lengths = {3}
SPECIFICATION FairSpec
INVARIANTS
    TypeOK
    WatchedIsAlive
    ClosedOnce
    BacklogIsWatched
    InOrder
    EndsOnlyOnReset
PROPERTIES
    UsesRegistry
    ImplementsSessions
    ShutdownCompletes
    PeerCloseEndsIt
CHECK_DEADLOCK FALSE
