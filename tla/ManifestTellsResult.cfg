CONSTANTS
    Threshold = 2
    MaxLines = 3

SPECIFICATION Spec

INVARIANT ManifestTellsResult

CHECK_DEADLOCK FALSE
