SPECIFICATION Spec
CONSTANTS
    SeqModulus = 3
    MaxNakRanges = 2
    HasClock = TRUE
    Scenarios <- LateDataScenarios
INVARIANTS
    WritesAreOpen
CHECK_DEADLOCK FALSE
