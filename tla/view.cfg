\* Three registrations and goodbyes, beside ticks of a fair view.
SPECIFICATION ViewFairSpec
CONSTANTS
    f1 = f1  f2 = f2  k1 = k1  dSB = dSB  dST = dST  a1 = a1  v1 = v1
    Fds = {f1, f2}
    Conns = {k1}
    Descs = {dSB, dST}
    Attrs = {a1}
    Vals = {v1}
    NoPeer = NoPeer  NoConn = NoConn  NoDesc = NoDesc
    NoCfg = NoCfg  NoVal = NoVal  NoBody = NoBody
    Kind <- MCKind
    Defaults <- MCDefaults
    Said = {"REGISTER_REQ", "SHUTDOWN_ACK"}
    MaxAdmin = 0
    MayClose = FALSE
    MaxMsgs = 3
INVARIANTS
    NoGoneUnitListed
    OneSBOnFirstDefaults
PROPERTIES
    GoneUnitsUnlisted
    MessagesHandled
CHECK_DEADLOCK FALSE
