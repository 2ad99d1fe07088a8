SPECIFICATION FairSpec
CONSTANTS
    max_retries = 1
    MaxHeads = 2
    MaxRuns = 3
    MaxMoves = 1
    MaxFaults = 1
INVARIANTS IdleInv
PROPERTIES DecisionsKept LatestBuilt
CHECK_DEADLOCK FALSE
