CONSTANTS
    Clients = {main, other}
    Owner = main
    Functors = {f1}
    IoChannels = {io}
    WakeupChannel = w
SPECIFICATION ThreadSpec
INVARIANT
    WakeupFindsLoop
CHECK_DEADLOCK FALSE
