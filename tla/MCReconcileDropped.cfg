SPECIFICATION Spec
CONSTANTS
    Contents = {"a", "b"}
    Absent = Absent
    Specs <- SpecsPlainFull
    Outsiders = {"workload", "service", "other", "hpa"}
    Strippable = {"workload", "service", "hpa"}
    MaxEdits = 1
    MaxOutside = 1
    MaxFailures = 1
INVARIANTS
    NothingLeftToCreate
CHECK_DEADLOCK FALSE
