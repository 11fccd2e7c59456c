SPECIFICATION Spec
CONSTANTS
    Client = {c}
    Controller = c
    Displaces = FALSE
    MaxSockets = 0
    Reconfigures = "settled"
    Track = {t, u}
    Transports = {"serial"}
    CmdSize = 1
    DataSize = 2
    LineFaults <- AllLineFaults
    Timing = "early"
    MaxWrites = 2
    MaxFaults = 1
    MaxChanges = 1
    MaxQueue = 5
SYMMETRY Symmetry
INVARIANTS
    TrackHoldsSentBlock
