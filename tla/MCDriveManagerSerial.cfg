SPECIFICATION Spec
CONSTANTS
    Drive = {0, 1}
    Image = {a, b}
    Req = {r1}
    Faults <- HandledFaults
    MaxRequests = 4
    MaxWrites = 1
    MaxRetries = 2
SYMMETRY Symmetry
INVARIANTS
    FilesAccounted
    DrivesAgree
PROPERTIES
    NoStaleImage
CHECK_DEADLOCK FALSE
