SPECIFICATION FairSpec
CONSTANTS
    Modulus = 16
    HalfWindow = 4
    GroundWindows = {3, 5}
    FirstFsns = {14}
    MaxFrames = 5
    MaxInFlight = 2
    MaxLosses = 1
INVARIANTS
    AcceptedInOrder
    NoLockout
    RetransmitIsTrue
    AcknowledgedIsAccepted
PROPERTIES
    AllAccepted
