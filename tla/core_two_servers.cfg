SPECIFICATION Spec
CONSTANTS
    Server = {s1, s2}
    Value = {v1}
    Nil = Nil
    PreVote = FALSE
    CheckQuorum = FALSE
    MaxEntries = 1
    MaxTerm = 2
    MaxCampaigns = 1
    MaxProposals = 1
    MaxLog = 2
    MaxTimeouts = 0
    MaxBeats = 1
    MaxRestarts = 1
    MaxTransfers = 1
    MaxUnreachable = 0
    CrashPoints = {"entriesOnly", "hardStateOnly"}
    MaxPending = 1
SYMMETRY Symmetry
VIEW View
INVARIANTS
    ClusterInv
    NoPanic
PROPERTIES
    LeaderAppendOnly
    TransferTargetUpToDate
CHECK_DEADLOCK FALSE
