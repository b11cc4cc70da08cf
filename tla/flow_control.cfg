SPECIFICATION Spec
CONSTANTS
    MaxInflight = 2
    MaxInflightBytes = 0
    LeaderLog <- OneEntry
    FollowerLogs <- BehindOrDiverged
    LeaderTerm = 3
    MaxUncommittedSize = 1
    MaxEntries = 1
    MaxLog = 4
    MaxCompactions = 1
    MaxFaults = 1
    MaxNet = 1
INVARIANTS
    FlowInv
    OnlyUnappliedCounts
PROPERTIES
    WindowSlides
    FollowerKeepsCommitted
    CatchesUp
