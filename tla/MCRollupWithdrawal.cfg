SPECIFICATION Spec
CONSTANTS
    p1 = p1
    p2 = p2
    PRs = {p1}
    Unpaired = {p1}
    Commands <- LateCommands
    Home <- MCHome
    Broken = {}
    BatchSize = 2
    Moves = {}
    MaxHead = 1
    MaxComments = 3
    MaxTime = 3
    MaxBatches = 1
    MaxMoves = 0
    MaxFaults = 0
PROPERTIES OlderApprovalDies
CHECK_DEADLOCK FALSE
