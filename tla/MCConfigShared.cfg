SPECIFICATION Spec
CONSTANTS
    Contents = {"room"}
    Bad = "bad"
    Globals = 2
    MountsIn <- SingleMount
    HasProfile = {}
    Boots = {"b1", "b2"}
    TypeOf <- AllFirst
    Profiled = {}
    ClaimsOf <- OneClaim
    Names = {"x", "claim"}
    App = App
    Requests = {r1}
    None = None
    MaxLoads = 1
    MaxRequests = 0
INVARIANTS
    OwnMounts
CHECK_DEADLOCK FALSE
