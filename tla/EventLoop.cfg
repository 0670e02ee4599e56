CONSTANTS
    Clients = {c1, c2}
    Functors = {f1, f2, f3}
    IoChannels = {io}
    WakeupChannel = w
SPECIFICATION FairSpec
INVARIANTS
    TypeOK
    NoLostWakeup
    QuitIsSeen
PROPERTIES
    ImplementsQueue
    FunctorsRun
    TimeoutRunsEarly
    QuitStopsLoop
