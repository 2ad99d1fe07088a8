SPECIFICATION FairSpec
CONSTANTS
    issue = issue
    Items = {issue}
    Home <- MCHome
    Comments <- MCComments
    Mentions = {2}
    Reverts = FALSE
    MaxText = 3
    MaxMoves = 2
    MaxFaults = 1
INVARIANTS BridgeInv LanesInOrder SettledAgree
PROPERTIES LanesMove
CHECK_DEADLOCK FALSE
