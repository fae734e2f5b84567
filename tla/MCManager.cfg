SPECIFICATION Spec
CONSTANTS
    Key = {0, 1, 2}
    NumSlots = 2
    SendWindow = 1
    RecvWindow = 2
    PeerSession = {1}
    MaxMade = 3
    MaxSeq = 2
INVARIANTS
    TypeOK
    PendingExact
    OneSlotPerKey
PROPERTIES
    KeyedDelivery
