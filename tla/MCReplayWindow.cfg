SPECIFICATION Spec
CONSTANTS
    ReplayBits = 3
    Nonce <- MCNonce
INVARIANTS
    TypeOK
    BitmapMatchesHistory
    RefusedForCause
PROPERTY
    AtMostOnce
