SPECIFICATION Spec
CONSTANTS
    PRs <- TwoPRs
    NoBranch = NoBranch
    Methods = {"pr", "ref"}
    ReviewRequired = TRUE
    MaxBatch = 2
    Cleanup = TRUE
    Disturbances = {"crash", "call", "delete", "rename", "rerun"}
    MaxHead = 2
    MaxAsks = 1
    MaxMoves = 2
    MaxFaults = 1
CONSTRAINT FewTroubles
INVARIANTS QueueInv
PROPERTIES AdvancesGreen LandsRecordedHeads
