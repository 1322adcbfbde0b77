\* Two users' sessions, one connection, a change of the configuration, midnight.
SPECIFICATION Spec
CONSTANTS
    Peers = {p1}
    Keys = {k1, k2}
    EvtIds = {4106, 4125}
    BrokenIds = {4125}
    Codes = {"0", "9"}
    Schemas <- TwoSchemas
    NoSchema = "none"
    Starts <- OneOrEBSL
    Writes <- FailOrAll
    Default = {"fail"}
    SessionLength = 2
    CloseAfter = 0
    SuspectTimeout = 1
    Day = 3
    MaxNow = 4
    LateTimes = {3}
    MaxEvts = 3
    MaxUnread = 1
    MaxConfigs = 1
SYMMETRY Users
INVARIANTS
    SessionsTellTrue
    NothingLost
    IdleAreWritten
PROPERTIES
    DiesOnlySo
    FilesOnce
    SharedEventsKept
CHECK_DEADLOCK FALSE
