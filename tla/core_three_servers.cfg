SPECIFICATION Spec
CONSTANTS
    Server = {s1, s2, s3}
    Value = {v1}
    Nil = Nil
    PreVote = FALSE
    CheckQuorum = FALSE
    MaxEntries = 1
    MaxTerm = 4
    MaxCampaigns = 4
    MaxProposals = 0
    MaxLog = 2
    MaxTimeouts = 0
    MaxBeats = 0
    MaxRestarts = 1
    MaxTransfers = 0
    MaxUnreachable = 1
    CrashPoints = {}
    MaxPending = 0
CONSTRAINT FourTermsOrOneFault
SYMMETRY Symmetry
VIEW View
INVARIANTS
    TypeOK
    LogMatching
    StateMachineSafety
    ElectionSafety
    LeaderCompleteness
    VotesOnDisk
    AnswersHold
PROPERTIES
    CommittedStable
CHECK_DEADLOCK FALSE
