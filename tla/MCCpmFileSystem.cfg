SPECIFICATION Spec
CONSTANTS
    File = {f, g}
    TotalBlocks = 6
    DirBlocks = 1
    HiddenBlocks = 1
    MaxDir = 3
    BlocksPerEntry = 2
    RecordsPerBlock = 2
    RecordsPerExtent = 4
    Req = {1, 2}
    Lengths = {0, 4, 5}
    MaxRequests = 3
SYMMETRY Symmetry
 
PROPERTIES
    HiddenDirectoryStays
    
CHECK_DEADLOCK FALSE
