SPECIFICATION LoadSpec
CONSTANTS
    Total = 32
    BlockSize = 4
    SizeMod = 1024
    ImageEntry = 200
    NULL = NULL
    ERR = ERR
    Requests <- MCRequests
    MaxDescriptors = 3
    StructSize = 1
    ItemSize = 2
    Root <- MCRoot
    Deleted = "deleted"
    Calls <- MCCalls
    BootSizes <- MCBootSizes
    MaxOpens = 3
    PagesPerTable = 20
    Tables = 3
    HeapPage = 24
    MaxProcesses = 2
    MaxLoads = 3
    ProcessSize = 5
    StackSize = 8
    ProgramPage = 20
    StackPage = 17
INVARIANT PublishedHasTask
CHECK_DEADLOCK FALSE
