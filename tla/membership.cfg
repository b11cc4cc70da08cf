SPECIFICATION Spec
CONSTANTS
    s1 = s1
    s2 = s2
    s3 = s3
    Server = {s1, s2, s3}
    Nil = Nil
    InitialVoters = {s1}
    Changes <- AllChanges
    FirstLeader = s1
    MaxBatch = 3
    MaxTerm = 2
    MaxInputs = 2
VIEW View
CHECK_DEADLOCK FALSE
INVARIANTS
    MembershipInv
    SafeThroughChanges
    ConfigFromLog
PROPERTIES
    AutoLeaves
