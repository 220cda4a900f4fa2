SPECIFICATION SettledFairLifeSpec
CONSTANTS
    Specs = {"A", "B"}
    None = None
    Clients = {u1}
    Controller = ctl
    MaxHistory = 2
    Availability = {TRUE}
    RetryLimit = 0
    MaxId = 3
    MaxUpdates = 1
    MaxErrors = 1
    History <- HistoryAB
    MaxDeletes = 1
INVARIANTS
    LifeInv
PROPERTIES
    OwnedIsOnlyPruned
    DeletedWithBoot
    EventuallyOwned
CHECK_DEADLOCK FALSE
