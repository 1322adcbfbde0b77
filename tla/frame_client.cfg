\* Empty, short, longest and too long texts; headers and texts in up to three
\* parts.
SPECIFICATION ClientFairSpec
CONSTANTS
    Hdr = 3
    MaxLen = 9
    Lens = {0, 1, 2, 9, 10}
    MaxMsgs = 3
    MaxCuts = 2
PROPERTIES
    ClientDeliversInOrder
    ClientDeliversAll
CHECK_DEADLOCK FALSE
