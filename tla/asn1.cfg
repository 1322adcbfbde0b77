\* Values at the boundaries, in each other and in a row, cut anywhere.
SPECIFICATION Spec
CONSTANTS
    Calls <- MCCalls
    Enters <- MCEnters
    NotGiven = NotGiven
    NoTag = NoTag
    MaxItems = 3
    MaxCut = 3
INVARIANTS
    ReadsWritten
    WholeItemsAreRead
CHECK_DEADLOCK FALSE
