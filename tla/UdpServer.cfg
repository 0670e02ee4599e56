CONSTANTS
    Clients = {c}
    Functors = {l, f}
    IoChannels = {a}
    WakeupChannel = w
    AcceptChannel = a
    Listens = {l}
    MaxDatagrams = 3
SPECIFICATION FairUdpSpec
INVARIANTS
    UdpTypeOK
    WaitsOnlyForDiscarded
    HandedInOrder
PROPERTIES
    DatagramsAreHanded
    StartTakesEffect
    ServesItsLoop
