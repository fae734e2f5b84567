SPECIFICATION Spec
CONSTANTS
    Sender = {app}
    Receiver = {r1, r2}
    Ticker = ticker
    Nobody = nobody
    NumSlots = 2
    SendWindow = 2
    MaxRetransmits = 1
    MaxConnectRetries = 1
    Pacing = 1
    MaxBudget = 2
    IdleTimeout = TRUE
    Sends = 2
    PeerSends = 2
    MaxFails = 0
SYMMETRY ReceiverSymmetry
INVARIANTS
    TypeOK
    MarkedIsSent
    DrainedOnce
    PendingExact
