SPECIFICATION Spec
CONSTANTS
    A = a
    B = b
    KeyId = {1, 2}
    Target = {1, 2}
    Lead = 1
    MinLead = 2
    Postpone = 2
    MaxRetries = 0
    Manual = {b}
    NoncesA = 4
    NoncesB = 3
    RotationsA = 1
    RotationsB = 1
    MaxNonce <- MCMaxNonce
    MaxRotations <- MCMaxRotations
INVARIANTS
    TypeOK
    SwitchAgreed
    
    SwitchedFrameTaken
    
