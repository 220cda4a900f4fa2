SPECIFICATION Spec
CONSTANTS
    Contents = {"room", "full"}
    Bad = "bad"
    Globals = 2
    MountsIn <- RoomOrFull
    HasProfile = {"full"}
    Boots = {"b1", "b3"}
    TypeOf <- AllFirst
    Profiled = {"b3"}
    ClaimsOf <- OneClaim
    Names = {"x", "claim"}
    App = App
    Requests = {r1, r2}
    None = None
    MaxLoads = 3
    MaxRequests = 2
SYMMETRY RequestSymmetry
INVARIANTS
    TypeOK
    IInv
    OneConfiguration
    InUseIsStored
    SharedInRoomOnly
CHECK_DEADLOCK FALSE
