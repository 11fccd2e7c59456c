SPECIFICATION LiveSpec
CONSTANTS
    Client = {c, d}
    Controller = c
    Displaces = FALSE
    MaxSockets = 4
    Reconfigures = "never"
    Track = {t, u}
    Transports = {"serial", "ws"}
    CmdSize = 1
    DataSize = 2
    LineFaults = {"drop", "mute"}
    Timing = "timely"
    MaxWrites = 2
    MaxFaults = 2
    MaxChanges = 1
    MaxQueue = 6
INVARIANTS
    AcknowledgedIsOnDisk
    NoUnsolicitedResponse
PROPERTIES
    ReadGetsItsTrack
    EveryCommandAnswered
CHECK_DEADLOCK FALSE
