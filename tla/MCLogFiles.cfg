SPECIFICATION MCFilesSpec
CONSTANTS
    Direct = 1
    Slots = 2
    IdMod = 4
    MaxLogs = 5
    MaxRows = 2
INVARIANTS
    FilesTypeOK
    ShortNamesUnique
    NewestFirst
PROPERTIES
    FirstLogsSurvive
CHECK_DEADLOCK FALSE
