SPECIFICATION EitherFairSpec
CONSTANTS
    Specs = {"A", "B"}
    None = None
    Clients = {u1}
    Controller = ctl
    MaxHistory = 2
    Availability = {TRUE}
    RetryLimit = 0
    MaxId = 6
    MaxUpdates = 1
    MaxErrors = 2
    History <- HistoryAB
PROPERTIES
    ImplementsHistory
    EventuallyRecorded
CHECK_DEADLOCK FALSE
