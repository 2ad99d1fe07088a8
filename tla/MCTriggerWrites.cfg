SPECIFICATION Spec
CONSTANTS
    command = command
    reply = reply
    label = label
    review = review
    pr = pr
    None = None
    Deliveries = {d1}
    Keys = {command, label, review, reply}
    Heads = {h1, h2}
    Scopes = {pr}
    Logins = {}
    KindOf <- MCKindOf
    ParentOf <- MCParentOf
    ScopeOf <- MCScopeOf
    BudgetCap = 0
    MaxAttempts <- MCMaxAttempts
    MaxLeases = 2
    CommandsOf <- MCCommandsOf
    WritesOf <- LabelThenReview
    Refusable = {command}
    MaxWorkers = 2
    MaxEffects = 1
    MaxFaults = 2
PROPERTIES ImplementsDurableWrite RequestsKeepSnapshot
CHECK_DEADLOCK FALSE
