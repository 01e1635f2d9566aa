SPECIFICATION Spec
CONSTANTS
    Boots <- MCBoots
    DirentLen = 2
    Fat12Limit = 7
    Fat16Limit = 8
INVARIANTS
    TableTypeOK
    EntriesApart
    CopiesAgree
    RestUntouched
    VolumeCovered
    OnlyTwoWasted
