CONSTANTS
    h1 = h1
    h2 = h2
    m1 = m1
    m2 = m2
    NoKey = NoKey
    NoMsg = NoMsg
    Handles <- MCHandles
    DsaVariants <- MCDsaVariants
    SlhVariants <- MCSlhVariants
    Msgs <- MCMsgs
    MaxDraws <- MCMaxDraws
SYMMETRY MCSymmetry
SPECIFICATION Spec
INVARIANT KeyLengthsMatchCatalog
