SPECIFICATION Spec
CONSTANTS
    Values = {"a", "b"}
    Registries = {"r1", "r2"}
    Ports = {80, 81}
    NodePorts = {30, 31}
    Paths = {"/h", "/r"}
    Places = {"/x"}
    Stamps = {"t"}
    Metrics <- TwoTargets
    Claims = {"claim"}
    OwnVolumes = {"data"}
    Managed = {"claim", "data"}
    Configs <- BareRichOverriding
    Boots <- EverythingClaiming
    Bypassed = TRUE
    None = None
    MaxDisturbances = 2
INVARIANTS
    TypeOK
    IInv
    RestIsAsAsked
PROPERTIES
    RewritesAreExplained
    ExternalPortStays
    EventuallyQuiet
CHECK_DEADLOCK FALSE
