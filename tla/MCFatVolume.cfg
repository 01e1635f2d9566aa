\* Two files written over and beside each other on a card with three free
\* clusters of two sectors.
SPECIFICATION MCHeedingSpec
CONSTANTS
    NoFile = NoFile
    Zero = Zero
    LongName = LongName
    Deleted = Deleted
    Files = {f1, f2}
    Values = {v, w}
    cluster_count = 7
    SPC = 2
    BPS = 2
    first_data_sector = 2
    Root = 2
    Occupied = {4}
    CallSizes = {3}
    MaxFile = 5
    MaxDir = 6
INVARIANTS
    FatTypeOK
    ChainsDisjoint
    FatHoldsChains
    EntriesIntact
    InPlace
PROPERTIES
    KeepsPromise
SYMMETRY Alike
