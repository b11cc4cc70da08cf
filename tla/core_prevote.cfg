SPECIFICATION Spec
CONSTANTS
    Server = {s1, s2, s3}
    Value = {v1}
    Nil = Nil
    PreVote = TRUE
    CheckQuorum = TRUE
    MaxEntries = 1
    MaxTerm = 2
    MaxCampaigns = 2
    MaxProposals = 0
    MaxLog = 2
    MaxTimeouts = 1
    MaxBeats = 0
    MaxRestarts = 0
    MaxTransfers = 0
    MaxUnreachable = 0
    CrashPoints = {}
    MaxPending = 0
CONSTRAINT NothingReplicated
SYMMETRY Symmetry
VIEW View
PROPERTIES
    PreVoteGuardsTerm
CHECK_DEADLOCK FALSE
