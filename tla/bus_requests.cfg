\* One program that says anything, and a user who configures and stops it.
SPECIFICATION FairSpec
CONSTANTS
    f1 = f1  f2 = f2  k1 = k1  k2 = k2
    dSB = dSB  dST = dST  a1 = a1  v1 = v1  v2 = v2
    Fds = {f1}
    Conns = {k1}
    Descs = {dSB, dST}
    Attrs = {a1}
    Vals = {v2}
    NoPeer = NoPeer  NoConn = NoConn  NoDesc = NoDesc
    NoCfg = NoCfg  NoVal = NoVal  NoBody = NoBody
    Kind <- MCKind
    DescOf <- MCDescOf
    Defaults <- MCDefaults
    PeerTypes = {"REGISTER_REQ", "CONFIG_SET", "CONFIG_REQ", "CONFIG_REQONLY", "CONFIG_ACK",
                 "PROGRESS", "SHUTDOWN_REQ", "SHUTDOWN_ACK"}
    MaxSend <- TwoThenOne
    Ends = {"closed"}
    MaxAdmin = 1
    MayClose = TRUE
INVARIANTS
    ConfigForUnits
PROPERTIES
    RequestsReachPeer
    ServerStops
CHECK_DEADLOCK FALSE
