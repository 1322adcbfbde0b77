\* One descriptor, so that the second program reuses the first one's: they
\* register, say goodbye and go away at any moment.
SPECIFICATION Spec
CONSTANTS
    f1 = f1  f2 = f2  k1 = k1  k2 = k2
    dSB = dSB  dST = dST  a1 = a1  v1 = v1  v2 = v2
    Fds = {f1}
    Conns = {k1, k2}
    Descs = {dSB, dST}
    Attrs = {a1}
    Vals = {v1, v2}
    NoPeer = NoPeer  NoConn = NoConn  NoDesc = NoDesc
    NoCfg = NoCfg  NoVal = NoVal  NoBody = NoBody
    Kind <- MCKind
    DescOf <- MCDescOf
    Defaults <- MCDefaults
    PeerTypes = {"REGISTER_REQ", "SHUTDOWN_REQ", "SHUTDOWN_ACK"}
    MaxSend <- TwoThenOne
    Ends = {"closed", "reset", "lost"}
    MaxAdmin = 0
    MayClose = FALSE
INVARIANTS
    NoGhostUnit
    RightUnit
CHECK_DEADLOCK FALSE
