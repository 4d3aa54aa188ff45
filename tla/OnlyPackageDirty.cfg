SPECIFICATION FairSpec
CONSTANTS
    Options <- MCOptions
    Workspaces <- MCWorkspaces
    Allowances <- MCAllowances
    MaxRuns = 1
PROPERTY OnlyPackageDirty
CHECK_DEADLOCK FALSE
