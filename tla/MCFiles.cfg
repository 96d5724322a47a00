SPECIFICATION FilesSpec
CONSTANTS
    Total = 29
    BlockSize = 4
    SizeMod = 256
    HeapPage = 4
    ImageEntry = 50
    NULL = NULL
    Requests <- MCRequests
    MaxDescriptors = 3
    StructSize = 1
    ItemSize = 2
    Root <- MCRoot
    Deleted = "gone"
    Calls <- MCCalls
    BootSizes <- MCBootSizes
    MaxOpens = 4
INVARIANTS
    FilesTypeOK
    DescriptorsStandAlone
PROPERTIES
    FopenAnswersTheFile
    KeepsNumbers
