CONSTANTS
    Bytes = {0, 1}
    MaxLen = 3
    Messages <- MCMessages
    InitialSize = 3
    MaxSize = 7
SPECIFICATION FairSpec
INVARIANT
    RingTypeOK
PROPERTIES
    ImplementsByteQueue
    Drains
