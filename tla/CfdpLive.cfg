SPECIFICATION OrderedSpec
CONSTANTS
    SeqModulus = 3
    MaxNakRanges = 4
    HasClock = TRUE
    Scenarios <- LiveScenarios
PROPERTIES
    DeliversFiles
    RecoveryReleased
    LossesRecovered
CHECK_DEADLOCK FALSE
