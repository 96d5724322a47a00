SPECIFICATION Spec
CONSTANTS
    Total = 6
    BlockSize = 4
    SizeMod = 64
    HeapPage = 1
    ImageEntry = 14
    NULL = NULL
    Requests <- MCRequests
INVARIANT InsideHeap
CHECK_DEADLOCK FALSE
