CONSTANTS
    chA = chA
    chB = chB
    chC = chC
    chD = chD
    Channels = {chA, chB, chC, chD}
    FdOf <- MCFdOf
    MaxActive = 2
SPECIFICATION Spec
INVARIANTS
    TypeOK
    EntriesMatch
    NothingIsLeftBehind
PROPERTY
    ImplementsRegistry
SYMMETRY MCSymmetry
