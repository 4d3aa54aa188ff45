\* Two conversions in one snapshot directory, killed anywhere.
CONSTANTS
    wide = wide
    narrow = narrow
    unfit = unfit
    barren = barren
    Protocols <- MCProtocols
    Plan <- MCPlan
    Input <- MCInput
    Index <- MCIndex
    Parts <- MCParts
    Rejected <- MCRejected
    Refused <- MCRefused
    TooWide <- MCTooWide
    MaxRuns = 2

SPECIFICATION FairSpec

INVARIANTS
    TypeOK
    SuccessIsExact
    ManifestVouches
    RefusedEarly

PROPERTIES
    KeepsWithoutOverwrite
    OverwriteRecovers

\* After MaxRuns conversions nothing more happens.
CHECK_DEADLOCK FALSE
