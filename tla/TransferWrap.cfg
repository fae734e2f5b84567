SPECIFICATION Spec
CONSTANTS
    A = a
    B = b
    SendWindow = 1
    RecvWindow = 2
    MaxQueue = 3
    AckBits = 2
    MaxRetransmits = 2
    DupThreshold = 2
    NonceMod = 64
    NonceStart = 0
    ReplayBits = 2
    SeqMod = 4
    MtuFits = TRUE
    SendsA = 5
    SendsB = 0
    MaxFaults = 0
    MaxSend <- MCMaxSend
INVARIANTS
    InOrder
    AckedIsRetained
CONSTRAINT NothingGivenUp
