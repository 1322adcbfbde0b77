\* Any unit and controller; a crash, a late answer, a message unasked, two of them.
SPECIFICATION Spec
CONSTANTS
    NConns = 3
    Unasked = {"CONFIG_SET", "SHUTDOWN_REQ"}
    MaxUnasked = 1
    MaxCrashes = 1
    MaxLates = 1
    MaxTroubles = 2
    MaxQueued = 1
    Defaults = {TRUE, FALSE}
    Cleanups = {"report", "silent", "raise"}
INVARIANTS
    CcmKnowsPeer
    OneRegistration
    NoSetMissed
CHECK_DEADLOCK FALSE
