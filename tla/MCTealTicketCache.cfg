SPECIFICATION FairSpec
CONSTANTS
    t1 = t1
    t2 = t2
    k1 = k1
    None = None
    Task <- TwoTasks
    Ticket <- OneTicket
    Offers <- AllOffers
    Depth = 1
    MaxTime = 2
    MaxEpoch = 2
    Half = 4
INVARIANTS BudgetKept EndToldOnce UsedInForce
PROPERTY DeadCollected
