\* A caller that writes on when the card is full.
SPECIFICATION MCSpec
CONSTANTS
    NoFile = NoFile
    Zero = Zero
    LongName = LongName
    Deleted = Deleted
    Files = {f1, f2}
    Values = {v}
    cluster_count = 8
    SPC = 2
    BPS = 2
    first_data_sector = 2
    Root = 2
    Occupied = {4}
    CallSizes = {1, 4}
    MaxFile = 9
    MaxDir = 4
PROPERTIES
    KeepsPromise
SYMMETRY Alike
