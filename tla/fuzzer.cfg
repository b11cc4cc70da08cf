SPECIFICATION Spec
CONSTANTS
    Replicas = 2
    Steps = 3
    Iterations = 3
    ReseedFrequency = 2
    SeedPopulationSize = 1
    MutPerTrace = 1
    CrashQuota = 2
    NumberRequests = 1
    MaxMessages = 3
    Mutators = {"combined", "skip"}
    CrashSwaps = 1
    NodeSwaps = 2
    MaxSwaps = 2
    NumSkips = 1
    ModelState = {1}
    Draws <- TwoLinks
    LateDraws <- NoServer
    MaxSends = 1
VIEW View
CHECK_DEADLOCK FALSE
INVARIANTS
    FuzzerInv
    ScheduleReplayed
    LinksAreFifo
PROPERTIES
    MutantsRearrange
