SPECIFICATION FairSpec
CONSTANTS
    Sender = {app}
    Receiver = {r1}
    Ticker = ticker
    Nobody = nobody
    NumSlots = 1
    SendWindow = 1
    MaxRetransmits = 1
    MaxConnectRetries = 0
    Pacing = 1
    MaxBudget = 1
    IdleTimeout = FALSE
    Sends = 1
    PeerSends = 2
    MaxFails = 1
INVARIANTS
    InOrder
PROPERTIES
    NewestAcked
    
