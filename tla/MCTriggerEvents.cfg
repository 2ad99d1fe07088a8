SPECIFICATION MCSpec
CONSTANTS
    old = old
    new = new
    ann = ann
    ben = ben
    Rules = {old, new}
    Cc <- MCCc
    Limit = 2
    MaxHeads = 2
    MaxMoves = 2
    MaxFaults = 2
INVARIANTS EventsInv ReportedOnce
PROPERTIES WritesAuthorized
CHECK_DEADLOCK FALSE
