SPECIFICATION Spec
CONSTANTS
    command = command
    reply = reply
    label = label
    review = review
    pr = pr
    None = None
    Deliveries = {d1, d2}
    Keys = {command, reply}
    Heads = {h1, h2}
    Scopes = {pr}
    Logins = {}
    KindOf <- MCKindOf
    ParentOf <- MCParentOf
    ScopeOf <- MCScopeOf
    BudgetCap = 0
    MaxAttempts <- MCMaxAttempts
    MaxLeases = 2
    CommandsOf <- MCCommandsOf
    WritesOf <- ReplyOnly
    Refusable = {command}
    MaxWorkers = 2
    MaxEffects = 2
    MaxFaults = 1
INVARIANTS AtMostOnce RuntimeInv NoAbandonedClaim
PROPERTY ImplementsStore
CHECK_DEADLOCK FALSE
