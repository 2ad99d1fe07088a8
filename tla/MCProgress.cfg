SPECIFICATION MCSpec
CONSTANTS
    p1 = p1
    p2 = p2
    PRs = {p1, p2}
    Unpaired = {p2}
    Commands <- MCCommands
    Home <- MCHome
    Broken = {p2}
    BatchSize = 2
    Moves = {}
    MaxHead = 1
    MaxComments = 2
    MaxTime = 2
    MaxBatches = 3
    MaxMoves = 0
    MaxFaults = 1
    NoBranch = NoBranch
    MaxTroubles = 2
    command = command
    reply = reply
    scope = scope
    d1 = d1
    h1 = h1
    None = None
PROPERTIES QueueResolves QueuedResolves EnvelopeFinishes
CHECK_DEADLOCK FALSE
