SPECIFICATION Spec
ACTION_CONSTRAINT Apart
CONSTANTS
    Client = {c1}
    Image = {a, b}
    Conn = {k1, k2}
    Req = {r1, r2}
    WriteMaster = nobody
    SelfContained = {}
    Faults <- HandledFaults
    MaxRequests = 2
    MaxWrites = 2
SYMMETRY Symmetry
INVARIANTS
    
    
    FollowsOverrides
CHECK_DEADLOCK FALSE
