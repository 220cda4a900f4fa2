SPECIFICATION FairSpec
CONSTANTS
    Contents = {"a", "b"}
    Absent = Absent
    Specs <- SpecsPlainFull
    Outsiders = {"workload", "service", "other", "hpa"}
    Strippable = {"workload", "service", "hpa"}
    MaxEdits = 2
    MaxOutside = 1
    MaxFailures = 1
CONSTRAINT Alternatives
INVARIANTS
    IInv
    QuietIsSettled
PROPERTIES
    InPlaceStays
    EventuallySettled
    EventuallyQuiet
CHECK_DEADLOCK FALSE
