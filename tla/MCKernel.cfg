CONSTANTS
    NameLen = 3
    ExtLen = 2
    MaxPath = 12
    SectorItems = 2
    MaxFilesystems = 2
    Images <- MCImages
    VgaWidth = 4
    VgaHeight = 2
    VideoCells = 10
    KernelCell = 14
    RowMod = 5
    Tables <- MCTables
    Paths <- MCPaths
    Messages <- MCMessages
    MaxPrinted = 8
SPECIFICATION Spec
CHECK_DEADLOCK FALSE
INVARIANTS
    KernelTypeOK
    ScreenShowsText
    SegmentsMeanWhatTheySay
    ParsesThePath
    NamesReadAsWritten
    MountsTheDirectory
    OpensByName
PROPERTY
    GoodDiskOpens
