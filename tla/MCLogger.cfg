SPECIFICATION MCSpec
CONSTANTS
    Direct = 1
    Slots = 1
    IdMod = 3
    Timeout = 2
    MaxFrames = 3
    MaxBoots = 1
    MaxLogs = 4
    UseModes = {1, 2}
    UseBuses = {0}
    UseUsb = {FALSE}
INVARIANTS
    LoggerTypeOK
    LogWellFormed
PROPERTIES
    NewFileAfterQuiet
    GapStartsFile
CHECK_DEADLOCK FALSE
