SPECIFICATION MCFairSpec
CONSTANTS
    Direct = 1
    Slots = 1
    IdMod = 3
    Timeout = 1
    MaxFrames = 2
    MaxBoots = 0
    MaxLogs = 5
    UseModes = {0, 3, 4}
    UseBuses = {0, 1}
    UseUsb = {TRUE, FALSE}
PROPERTIES
    TrafficEnds
    ActivityShown
CHECK_DEADLOCK FALSE
