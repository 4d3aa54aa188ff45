CONSTANTS
    Cores <- MCCores
    Thresholds <- MCThresholds
    MaxLog = 4

SPECIFICATION Spec

INVARIANT ExitedMeansShort

CHECK_DEADLOCK FALSE
