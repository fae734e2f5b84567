SPECIFICATION FairSpec
CONSTANTS
    A = a
    B = b
    SendWindow = 2
    RecvWindow = 2
    MaxQueue = 3
    AckBits = 2
    MaxRetransmits = 1
    DupThreshold = 3
    NonceMod = 64
    NonceStart = 0
    ReplayBits = 8
    SeqMod = 32
    MtuFits = TRUE
    SendsA = 2
    SendsB = 0
    MaxFaults = 1
    MaxSend <- MCMaxSend
INVARIANTS
    AckedIsRetained
    
PROPERTIES
    EveryAcceptedDelivered
    QueueDrains
