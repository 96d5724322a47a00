SPECIFICATION Spec
CONSTANTS
    Total = 6
    BlockSize = 4
    SizeMod = 64
    HeapPage = 1
    ImageEntry = 14
    NULL = NULL
    Requests <- MCRequests
INVARIANTS
    TypeOK
    LiveDisjoint
    TableEncodesLive
    ScanIsFirstFit
PROPERTIES
    ZeroesOnlyItsOwn
    KeepsPromise
CHECK_DEADLOCK FALSE
