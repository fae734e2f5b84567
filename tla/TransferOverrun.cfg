SPECIFICATION Spec
CONSTANTS
    A = a
    B = b
    SendWindow = 2
    RecvWindow = 2
    MaxQueue = 3
    AckBits = 2
    MaxRetransmits = 1
    DupThreshold = 3
    NonceMod = 64
    NonceStart = 0
    ReplayBits = 8
    SeqMod = 32
    MtuFits = TRUE
    SendsA = 3
    SendsB = 0
    MaxFaults = 0
    MaxSend <- MCMaxSend
INVARIANTS
    AckedIsRetained
CONSTRAINT NothingGivenUp
