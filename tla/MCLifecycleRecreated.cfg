SPECIFICATION LifeSpec
CONSTANTS
    Specs = {"A"}
    None = None
    Clients = {u1}
    Controller = ctl
    MaxHistory = 2
    Availability = {TRUE}
    RetryLimit = 20
    MaxId = 2
    MaxUpdates = 2
    MaxErrors = 0
    History <- HistoryAB
    MaxDeletes = 1
INVARIANTS
    CreatedIsRecorded
CHECK_DEADLOCK FALSE
