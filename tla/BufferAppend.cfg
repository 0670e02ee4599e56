CONSTANTS
    Bytes = {0, 1}
    MaxLen = 3
    Messages <- MCMessages
    InitialSize = 3
    MaxSize = 6
SPECIFICATION FreeSpec
INVARIANT
    AppendsFollow
