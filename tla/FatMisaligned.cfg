\* The data area starts within a multiple of sectors_per_cluster.
SPECIFICATION MCHeedingSpec
CONSTANTS
    NoFile = NoFile
    Zero = Zero
    LongName = LongName
    Deleted = Deleted
    Files = {f1, f2}
    Values = {v, w}
    cluster_count = 8
    SPC = 2
    BPS = 2
    first_data_sector = 1
    Root = 2
    Occupied = {4}
    CallSizes = {1, 4}
    MaxFile = 6
    MaxDir = 4
PROPERTIES
    KeepsPromise
SYMMETRY Alike
