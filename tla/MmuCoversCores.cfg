CONSTANTS
    b1 = b1
    b2 = b2
    Block <- MCBlock
    NumCores = 2
    WordBits = 2
    Sources <- PartnerSources
    MmuExports <- MCMmuExports

SPECIFICATION Spec

INVARIANT MmuCoversCores

CHECK_DEADLOCK FALSE
