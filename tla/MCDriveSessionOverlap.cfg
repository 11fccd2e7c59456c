SPECIFICATION Spec
CONSTANTS
    Client = {c1, c2}
    Image = {a, b}
    Conn = {k1, k2}
    Req = {r1, r2}
    WriteMaster = c2
    SelfContained = {}
    Faults <- OtherFaults
    MaxRequests = 2
    MaxWrites = 1
SYMMETRY Symmetry

    
PROPERTIES
    ImagesChangeOnlyAsAllowed
CHECK_DEADLOCK FALSE
