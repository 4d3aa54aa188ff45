SPECIFICATION ToolsSpec
CONSTANTS
    Tokens = {0, 1}
    MaxTrace = 5
    Base = 3
    Modulus = 4
    Accesses <- MCAccesses
    LineSize = 2
    Assoc = 2
    CacheSize = 8
    MaxAccesses = 4
    Blocks = {0, 1, 2, 4, 6}
    Ages = {1, 2, 3}
    SourceSets = 2
    Geometries <- MCGeometries
    MaxCores = 2
    MaxMoment = 3
    MaxAttempts = 2
    NumTables = 3
    HistoryLength <- MCHistoryLength
    MaxHistory = 6
    LogEntries = 2
    LogBimodal = 1
    TagBits = 3
    PathBits = 4
    Period = 4
    PcBits = 4
    Pc <- MCPc
    MaxBranches = 6
INVARIANTS
    SearchIsSound
    ComparisonExact
    ReplayExact
    SummariesAgree
    RecencyRestored
    SnapshotIsOneState
    TypeOK
    FoldsExact
PROPERTIES
    VictimIsUseless
    BaselineSaturates
CHECK_DEADLOCK FALSE
