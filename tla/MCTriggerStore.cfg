SPECIFICATION MCSpec
CONSTANTS
    plan = plan
    opened = opened
    reply = reply
    notice = notice
    label = label
    ledger = ledger
    pr = pr
    None = None
    Scopes = {pr}
    Keys <- MCKeys
    KindOf <- MCKindOf
    ParentOf <- MCParentOf
    ScopeOf <- MCScopeOf
    BudgetCap = 1
    MaxAttempts <- MCMaxAttempts
    MaxLeases = 2
    Deliveries = {d1}
    Heads = {h1}
    Logins = {u1, u2}
INVARIANTS StoreTypeOK ReservationLive EnvelopeRetained
PROPERTIES GrantsWithinBudget UncertainKeepsReservation ReceiptsFinal
CHECK_DEADLOCK FALSE
