SPECIFICATION Spec
CONSTANTS
    Modulus = 8
    HalfWindow = 2
    Plans <- MCPlans
    HdrLen = 2
    MaxPacketLen = 4
    ClearMap = 3
    RxWindow = 2
    MaxArsn = 8
INVARIANTS
    ProvenanceIsOwn
