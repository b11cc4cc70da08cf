SPECIFICATION Spec
CONSTANTS
    Server = {s1, s2, s3}
    Value = {v1}
    Nil = Nil
    PreVote = TRUE
    CheckQuorum = FALSE
    MaxEntries = 1
    MaxTerm = 2
    MaxCampaigns = 2
    MaxProposals = 0
    MaxLog = 1
    MaxTimeouts = 0
    MaxBeats = 0
    MaxRestarts = 1
    MaxTransfers = 0
    MaxUnreachable = 0
    CrashPoints = {"entriesOnly"}
    MaxPending = 1
SYMMETRY Symmetry
VIEW View
INVARIANTS
    NoPanic
CHECK_DEADLOCK FALSE
