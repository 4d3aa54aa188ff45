\* Every private shape of one block on two cores, beside a second block.
CONSTANTS
    b1 = b1
    b2 = b2
    Block <- MCBlock
    NumCores = 2
    WordBits = 2
    Sources <- MCSources
    MmuExports <- MCMmuExports

SPECIFICATION Spec

INVARIANTS
    TypeOK
    ChecksNeverFire
    RestoredCoherent
    RestoredExactly
    BackingMatchesStaged
    SharersMatchL1

\* A conversion ends: accepted or stopped by an error.
CHECK_DEADLOCK FALSE
