SPECIFICATION Spec
CONSTANTS
    MaxTerm = 3
    MaxLog = 3
    Histories <- TwoHistories
    MaxBatch = 2
    MaxApplying = 1
    MaxPending = 2
    MaxKept = 1
    MaxCrashes = 1
    MaxCompactions = 1
CHECK_DEADLOCK FALSE
INVARIANTS
    LogInv
    AckedIsDurable
PROPERTIES
    OneLog
    Settles
