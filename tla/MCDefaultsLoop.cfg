SPECIFICATION Spec
CONSTANTS
    None = None
    Names = {"X", "Y"}
    Texts = {"0", "a", "8080", "9090"}
    App = "a"
    Fields = {"port"}
    Kind = "java"
    Configs <- ConfigsBare
    BootSpecs <- SpecsSmallLarge
    MaxEvents = 2
INVARIANTS
    DefaultsAreStable
CHECK_DEADLOCK FALSE
