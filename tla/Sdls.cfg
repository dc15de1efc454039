CONSTANTS
    MaxSa = 6
    MaxKeys = 5
    SessionKeyBase = 2
    ArsnWindow = 2
    ArsnModulus = 16
    IvModulus = 8
    IvStride = 5
    LogCapacity = 2
    OverwriteMax = 2
    SaRole <- MCSaRole
    SaMode <- MCSaMode
    Scenarios <- MCScenarios

SPECIFICATION Spec

INVARIANTS
    NonceUnique
    KeySeparation
    RetiredStaysRetired
    ObjectsBalanced
    MonitoringInv
    EventsAttributed
    RepliesAccepted

PROPERTIES
    NoReplay

CHECK_DEADLOCK FALSE
