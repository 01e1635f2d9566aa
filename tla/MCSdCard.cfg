\* Every kind of card, with three sectors of two bytes.
SPECIFICATION FairSpec
CONSTANTS
    CardSize = 3
    Data = {d, e}
    Token = e
    WithToken <- MCWithToken
    MaxCount = 2
    BlockLen = 2
    AddressLimit = 8
    Closed = Closed
    Deaf = Deaf
INVARIANTS
    SdTypeOK
    Identified
    TransferEnded
PROPERTIES
    KeepsDevicePromise
    CallsReturn
