CONSTANTS
    Clients = {main, other}
    Owner = main
    Functors = {f1, f2}
    IoChannels = {io}
    WakeupChannel = w
SPECIFICATION FairThreadSpec
INVARIANTS
    ThreadTypeOK
    PointerIsLive
PROPERTIES
    ImplementsLoopThread
    StartLoopReturns
    HandedOverRuns
    JoinCompletes
CHECK_DEADLOCK FALSE
