SPECIFICATION EitherSpec
CONSTANTS
    Specs = {"A", "B"}
    None = None
    Clients = {u1, u2}
    Controller = ctl
    MaxHistory = 2
    Availability = {TRUE}
    RetryLimit = 0
    MaxId = 4
    MaxUpdates = 2
    MaxErrors = 0
    History <- HistoryAB
SYMMETRY UserSymmetry
INVARIANTS
    TypeOK
    HistoryInv
    BootIsBehind
    CopiesCurrent
    RetiredAreSuperseded
    SupersededAreRetired
    HistoryBounded
PROPERTIES
    RetiredStayRetired
    PruneKeepsHistory
    NewestIsKept
    BootRevisionAdvances
CHECK_DEADLOCK FALSE
