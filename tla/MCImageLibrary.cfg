SPECIFICATION Spec
CONSTANTS
    Name = {a, b}
    Ref = {"splinter", "client"}
    Req = {1, 2}
    MaxImages = 2
    MaxSnaps = 1
    MaxRequests = 3
INVARIANTS
    
    RowsFollowTheirImage
    SnapshotsAccounted
    ClientReadsItsImage

    
CHECK_DEADLOCK FALSE
