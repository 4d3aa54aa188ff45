\* Two logs of up to two lines, with and without a threshold.
CONSTANTS
    Cores <- MCCores
    Thresholds <- MCThresholds
    MaxLog = 4

SPECIFICATION FairSpec

INVARIANTS
    TypeOK
    CounterExact
    StagedIsFinal
    CompletedIsEnough
    Concluded

PROPERTY Ends

\* The collector ends.
CHECK_DEADLOCK FALSE
