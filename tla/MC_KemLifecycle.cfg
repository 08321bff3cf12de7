CONSTANTS
    h1 = h1
    h2 = h2
    NoKey = NoKey
    JunkCt = JunkCt
    JunkPub = JunkPub
    Handles <- MCHandles
    KemVariants <- MCKemVariants
    MaxDraws <- MCMaxDraws
SYMMETRY MCSymmetry
SPECIFICATION Spec
INVARIANTS
    RoundTrip
    CiphertextLengthMatchesCatalog
PROPERTIES
    KeyExchangeRefined
    
