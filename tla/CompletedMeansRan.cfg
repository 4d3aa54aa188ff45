CONSTANTS
    Cores <- MCCores
    Thresholds <- MCThresholds
    MaxLog = 4

SPECIFICATION Spec

INVARIANT CompletedMeansRan

CHECK_DEADLOCK FALSE
