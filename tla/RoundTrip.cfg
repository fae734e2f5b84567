SPECIFICATION FairSpec
CONSTANTS
    Delay = {4, 14, 25, 30, 100, 300}
    MinRto = 15
    MaxRto = 200
    MaxRetransmits = 15
INVARIANTS
    TypeOK
    Bounded
PROPERTIES
    KeepsCovering
    ComesDown
