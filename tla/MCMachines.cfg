SPECIFICATION FairSpec
CONSTANTS
    Id = {i1}
    Req = {1, 2}
    Snap = {s1}
    Mounts = {"none", "same"}
    Faults = {"resolve", "build"}
    MaxStarts = 2
    MaxWrites = 2
INVARIANTS
    NoStrayMachine
    RowTellsStatus
    OverridesFollowMachines
    DriveKeepsPromise
PROPERTIES
    ConnectionsEnd
CHECK_DEADLOCK FALSE
