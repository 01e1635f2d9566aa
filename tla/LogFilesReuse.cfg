\* No more logs than names: what remains is the restart.
SPECIFICATION MCFilesSpec
CONSTANTS
    Direct = 1
    Slots = 2
    IdMod = 4
    MaxLogs = 3
    MaxRows = 2
PROPERTIES
    NewLogStartsEmpty
CHECK_DEADLOCK FALSE
