SPECIFICATION Spec
CONSTANTS
    MaxInflight = 2
    MaxInflightBytes = 1
    LeaderLog <- OneEntry
    FollowerLogs <- Behind
    LeaderTerm = 3
    MaxUncommittedSize = 0
    MaxEntries = 1
    MaxLog = 4
    MaxCompactions = 0
    MaxFaults = 0
    MaxNet = 1
PROPERTIES
    CatchesUp
