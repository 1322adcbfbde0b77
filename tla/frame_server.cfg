\* Empty, short, longest and too long texts, cut anywhere.
SPECIFICATION ServerFairSpec
CONSTANTS
    Hdr = 3
    MaxLen = 2
    Lens = {0, 1, 2, 3}
    MaxMsgs = 4
PROPERTIES
    ServerDeliversInOrder
    ServerDeliversAll
CHECK_DEADLOCK FALSE
