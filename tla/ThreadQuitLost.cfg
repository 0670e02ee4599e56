CONSTANTS
    Clients = {main, other}
    Owner = main
    Functors = {f1}
    IoChannels = {io}
    WakeupChannel = w
SPECIFICATION FairThreadSpec
PROPERTY
    QuitThenJoin
CHECK_DEADLOCK FALSE
