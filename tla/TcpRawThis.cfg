CONSTANTS
    Conns = {x1}
    NoConn = none
    Clients = {k}
    Kept = {x1}
    MaxBytes = 1
    MaxStarts = 1
    InitialSize = 3
    Lengths = {3}
SPECIFICATION Spec
INVARIANT
    CallsFindConnection
CHECK_DEADLOCK FALSE
