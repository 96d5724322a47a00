SPECIFICATION TrapSpec
CONSTANTS
    Total = 17
    BlockSize = 4
    SizeMod = 1024
    ImageEntry = 200
    NULL = NULL
    ERR = ERR
    Garbage = "garbage"
    Empty = "empty"
    Requests <- MCRequests
    MaxDescriptors = 2
    StructSize = 1
    ItemSize = 2
    Root <- MCRoot
    Deleted = "deleted"
    Calls <- MCCalls
    BootSizes <- MCBootSizes
    MaxOpens = 1
    PagesPerTable = 16
    Tables = 3
    HeapPage = 20
    MaxProcesses = 1
    MaxLoads = 1
    ProcessSize = 5
    StackSize = 8
    ProgramPage = 16
    StackPage = 13
    KernelStackPage = 18
    TmpSize = 1
    Words <- MCWords
    WordMod = 19
    Strings <- MCStrings
INVARIANTS
    TrapTypeOK
    ProgramSeesItself
    PrintsUserString
    SumIsRight
    CommandsDoNotLeak
    LostOnlyIf
PROPERTIES
    TrapsReturn
CHECK_DEADLOCK FALSE
