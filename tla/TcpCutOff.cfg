CONSTANTS
    Conns = {x1}
    NoConn = none
    Clients = {k}
    Kept = {x1}
    MaxBytes = 4
    MaxStarts = 2
    InitialSize = 3
    Lengths = {3}
SPECIFICATION KeepingSpec
INVARIANT
    NothingIsCutOff
CHECK_DEADLOCK FALSE
