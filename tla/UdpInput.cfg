SPECIFICATION InputFairSpec
CONSTANTS
    MaxFd = 2
    MaxStarts = 2
    MaxUnits = 2
    Apids = {0, 1, 2, 3}
    ApidMax = 2
    Handlers = {"h1", "h2"}
    Slots = 2
    Scenarios <- InputScenarios
INVARIANTS
    OneReceiver
    SocketsOwned
    CountsOwnUnits
PROPERTIES
    RoutesRefined
    StopReleases
CHECK_DEADLOCK FALSE
