SPECIFICATION Spec
CONSTANTS
    Drive = {0}
    Image = {a, b}
    Req = {r1, r2}
    Faults <- AllFaults
    MaxRequests = 3
    MaxWrites = 2
    MaxRetries = 2
SYMMETRY Symmetry
INVARIANTS
    RegistryNamesMountedImage
    ProtectedWritesStayOnScratch
PROPERTIES
    MasterChangesOnlyAsAllowed
CHECK_DEADLOCK FALSE
