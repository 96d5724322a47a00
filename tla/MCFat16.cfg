SPECIFICATION Spec
CONSTANTS
    SectorSize = 4
    ClusterSectors = 2
    ReservedSectors = 2
    DataSector = 9
    Files <- MCFiles
    Sizes <- MCSizes
    Counts <- MCCounts
    Offsets <- MCOffsets
    MaxPos = 12
    FatMarks <- MCMarks
    EndOfChain = 99
    Elsewhere <- MCElsewhere
    Stack = Stack
INVARIANTS
    TypeOK
    ReadsTheFile
    FillsTheBuffer
PROPERTIES
    ReadsEnd
