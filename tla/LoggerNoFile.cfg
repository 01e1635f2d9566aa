SPECIFICATION MCSpec
CONSTANTS
    Direct = 1
    Slots = 1
    IdMod = 3
    Timeout = 2
    MaxFrames = 3
    MaxBoots = 1
    MaxLogs = 3
    UseModes = {1, 2}
    UseBuses = {0}
    UseUsb = {FALSE}
INVARIANTS
    WritesToOpenFile
CHECK_DEADLOCK FALSE
