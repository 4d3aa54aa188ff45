\* Two branches each, logs of up to three lines.
CONSTANTS
    Threshold = 2
    MaxLines = 3

SPECIFICATION FairSpec

INVARIANTS
    TypeOK
    OneAtATime
    ComparedIsEnough
    LeftBehind

PROPERTY Terminates

\* The collector ends.
CHECK_DEADLOCK FALSE
