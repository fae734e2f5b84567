SPECIFICATION FairSpec
CONSTANTS
    A = a
    B = b
    Active = {a}
    SendWindow = 2
    RecvWindow = 2
    AckBits = 2
    MaxRetransmits = 2
    MaxConnectRetries = 1
    ReplayBits = 8
    SeqMod = 16
    Prompt = TRUE
    SendsA = 0
    SendsB = 1
    MaxPings = 1
    Calls = {"disconnect"}
    MaxCalls = 4
    MaxFaults = 1
    Traffic <- MCTraffic
    NonceBase <- MCNonceBase
PROPERTIES
    HandshakeCompletes
    
CHECK_DEADLOCK FALSE
