SPECIFICATION Spec
CONSTANTS
    A = a
    B = b
    SendWindow = 2
    RecvWindow = 2
    MaxQueue = 3
    AckBits = 2
    MaxRetransmits = 0
    DupThreshold = 3
    NonceMod = 64
    NonceStart = 0
    ReplayBits = 8
    SeqMod = 32
    MtuFits = FALSE
    SendsA = 3
    SendsB = 1
    MaxFaults = 0
    MaxSend <- MCMaxSend
INVARIANTS
    TypeOK
    PendingExact
    RecvBufferSound
PROPERTIES
    OrderedDelivery
