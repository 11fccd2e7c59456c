SPECIFICATION Spec
CONSTANTS
    Page = {p1, p2}
    Section <- Sections
    Key <- Keys
    KeysOf <- SectionKeys
    Live = {"ws"}
    Reloadable = {"debug"}
    Value = {0, 1}
    Default = 0
    Faults = {"write"}
    Pasts <- Histories
    Meet = FALSE
    MaxRequests = 3
    MaxRestarts = 1
SYMMETRY Symmetry
INVARIANTS
    AcknowledgedConfigSurvives
    BackupsAreHistory
    RuntimeFollowsFile
PROPERTIES
    NoBlindOverwrite
CHECK_DEADLOCK FALSE
