SPECIFICATION SettledSpec
CONSTANTS
    Specs = {"A", "B"}
    None = None
    Clients = {u1}
    Controller = ctl
    MaxHistory = 2
    Availability = {TRUE}
    RetryLimit = 0
    MaxId = 4
    MaxUpdates = 2
    MaxErrors = 0
    History <- HistoryAB
INVARIANTS
    PreviousIsRetired
CHECK_DEADLOCK FALSE
