SPECIFICATION FairSpec
CONSTANTS
    Options <- MCOptions
    Workspaces <- MCWorkspaces
    Allowances <- MCAllowances
    MaxRuns = 2
INVARIANTS
    TypeOK
    PassedIsFresh
    PassedHasStats
    CopiesAgree
    LegacyTrails
PROPERTIES
    RecordPromise
    Concludes
CHECK_DEADLOCK FALSE
