SPECIFICATION Spec
CONSTANTS
    Sizes = {0, 3}
    MaxRetries = 2
    Modulus = 3
    Chunks = 1
    MaxStarts = 1
    MaxReplays = 1
    MaxEvents = 1
INVARIANT SenderListensWhileItRuns
PROPERTIES
    CompletedMeansReceived
    CancelStopsPackets
    TransferEnds
CHECK_DEADLOCK FALSE
