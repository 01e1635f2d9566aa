\* A log directory and two files, one of them in the directory or beside it,
\* with one power cut anywhere.
SPECIFICATION MCSpec
CONSTANTS
    NoSector = NoSector
    NoName = NoName
    SubDir = SubDir
    Files = {f1, f2}
    Slots = 3
    cluster_count = 12
    num_fats = 2
    RootLabels = 2
    FirstLba = 1
    MaxLines = 4
    RootFiles = {f1}
    MaxCuts = 1
INVARIANTS
    UpdatesTypeOK
    NeverStale
    EntriesBehindData
    Durable
    ChainsApart
    CopiesOneApart
    DirectoriesCleared
PROPERTIES
    CallsEnd
CHECK_DEADLOCK FALSE
