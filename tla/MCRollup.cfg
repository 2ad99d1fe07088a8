SPECIFICATION Spec
CONSTANTS
    p1 = p1
    p2 = p2
    PRs = {p1, p2}
    Unpaired = {p2}
    Commands <- MCCommands
    Home <- MCHome
    Broken = {p2}
    BatchSize = 2
    Moves = {"push", "close", "object", "main", "audit", "branch"}
    MaxHead = 2
    MaxComments = 2
    MaxTime = 2
    MaxBatches = 2
    MaxMoves = 1
    MaxFaults = 1
INVARIANTS RollupInv LandsOnce
PROPERTIES AdvancesApproved
CHECK_DEADLOCK FALSE
