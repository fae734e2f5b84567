SPECIFICATION Spec
CONSTANTS
    A = a
    B = b
    Active = {a}
    SendWindow = 2
    RecvWindow = 2
    AckBits = 2
    MaxRetransmits = 1
    MaxConnectRetries = 1
    ReplayBits = 8
    SeqMod = 16
    Prompt = TRUE
    SendsA = 2
    SendsB = 2
    MaxPings = 0
    Calls = {"disconnect", "restart", "idle"}
    MaxCalls = 4
    MaxFaults = 1
    Traffic <- MCTraffic
    NonceBase <- MCNonceBase
INVARIANTS
    TypeOK
    InOrder
    
    
CHECK_DEADLOCK FALSE
