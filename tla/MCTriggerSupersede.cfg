SPECIFICATION FairSpec
CONSTANTS
    command = command
    reply = reply
    label = label
    review = review
    pr = pr
    None = None
    Deliveries = {d1}
    Keys = {command, reply}
    Heads = {h1, h2}
    Scopes = {pr}
    Logins = {}
    KindOf <- MCKindOf
    ParentOf <- MCParentOf
    ScopeOf <- MCScopeOf
    BudgetCap = 0
    MaxAttempts <- MCLiveAttempts
    MaxLeases = 2
    CommandsOf <- MCCommandsOf
    WritesOf <- ReplyOnly
    Refusable = {}
    MaxWorkers = 2
    MaxEffects = 2
    MaxFaults = 2
PROPERTY SupersedesUnsentWork
CHECK_DEADLOCK FALSE
