SPECIFICATION FairSpec
CONSTANTS
    MaxVc = 1
    QueueDepth = 7
    HdrLen = 2
    DataLen = 5
    FcModulus = 2
    Writers = {"w1", "w2"}
    Controllers = {"c1"}
    PacketLens = {3, 7}
    Scenarios <- BlockedScenarios
PROPERTIES
    GeneratorKeepsCycling
CHECK_DEADLOCK FALSE
