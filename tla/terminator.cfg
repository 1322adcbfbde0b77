\* A feed of two records, a session builder that is moved or given other nodes, one that is added.
SPECIFICATION FairSpec
CONSTANTS
    n1 = n1
    n2 = n2
    a1 = a1
    a2 = a2
    Feeds = {f1}
    Nodes = {x}
    Names = {n1, n2}
    Addrs = {a1, a2}
    NodeLists <- AllOrNone
    NumSocks = 3
    Initial <- OneConnected
    MaxRecs = 2
    MaxCalls = 1
    NoSock = NoSock
    NoEntry = NoEntry
INVARIANTS
    StreamsWhole
    InFeedOrder
    NothingLeftBehind
    FeedsCannotKill
PROPERTIES
    OutBufsDrain
CHECK_DEADLOCK FALSE
