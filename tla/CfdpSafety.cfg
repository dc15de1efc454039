SPECIFICATION Spec
CONSTANTS
    SeqModulus = 3
    MaxNakRanges = 2
    HasClock = TRUE
    Scenarios <- SafetyScenarios
INVARIANTS
    CommittedIsIntact
    CompleteIsCommitted
    ReceiverCompleteIsCommitted
    SlotInv
    OneVerdictEach
PROPERTIES
    SlotNotStolen
CHECK_DEADLOCK FALSE
