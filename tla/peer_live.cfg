\* A unit with defaults and any controller; a crash, a late answer, a SHUTDOWN_REQ, two
\* of them.
SPECIFICATION FairSpec
CONSTANTS
    NConns = 3
    Unasked = {"SHUTDOWN_REQ"}
    MaxUnasked = 1
    MaxCrashes = 1
    MaxLates = 1
    MaxTroubles = 2
    MaxQueued = 0
    Defaults = {TRUE}
    Cleanups = {"silent"}
PROPERTIES
    StartSucceeds
    ReturnsToBus
    StopsWhenTold
CHECK_DEADLOCK FALSE
