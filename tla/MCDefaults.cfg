SPECIFICATION FairSpec
CONSTANTS
    None = None
    Names = {"X", "Y"}
    Texts = {"0", "a", "8080", "9090"}
    App = "a"
    Fields = {"port"}
    Kind = "java"
    Configs <- ConfigsABP
    BootSpecs <- SpecsSmallLarge
    MaxEvents = 3
INVARIANTS
    TypeOK
    IInv
    FixedEnvHolds
    OperatorIsAdmitted
    DefaultsAreStable
PROPERTIES
    ReportedWorkloadStays
    EventuallyDefaulted
CHECK_DEADLOCK FALSE
